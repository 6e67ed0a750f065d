------------------------------ MODULE WebProofs ------------------------------
(***************************************************************************)
(* Theorems about the web app: the wizard and the keys of the store that   *)
(* it opens (Setup), and the views with the page that they fill (Panel).   *)
(***************************************************************************)
EXTENDS Setup, Panel, SequenceTheorems, WellFoundedInduction, TLAPS

-----------------------------------------------------------------------------
(* The copies of the keys *)

LastDone == syncs # <<>> /\ syncs[Len(syncs)].step = "done"

\* When the last copy has ended well the database has every key, unless there is a copy
\* that has removed some and not set them again.
CopiesInv ==
  /\ session \in Nat /\ syncs \in Seq(SyncOfKeys) /\ saved \subseteq KeyIds
  /\ LastDone => \/ saved = KeyIds
                 \/ \E n \in DOMAIN syncs : syncs[n].listed # {} /\ syncs[n].step \in {"set", "failed"}

\* The steps of the app that the keys take part in.
LEMMA KeySteps ==
  ASSUME [SetupNext]_setupVars
  PROVE  \/ UNCHANGED <<session, syncs, saved>>
         \/ OpenStore \/ ClearOfflineStorage \/ ReloadKeys
         \/ \E n \in DOMAIN syncs :
              \/ \E readable \in BOOLEAN : KeysRead(n, readable)
              \/ ListKeyIds(n) \/ RemoveKeys(n) \/ SetKeys(n) \/ ReadFails(n)
<1>1. CASE SetupStep
  <2>1. ASSUME NEW n \in 1 .. MaxKeySyncs, KeySyncStep(n)
        PROVE  n \in DOMAIN syncs /\ \/ \E readable \in BOOLEAN : KeysRead(n, readable)
                                     \/ ListKeyIds(n) \/ RemoveKeys(n) \/ SetKeys(n)
    <3>1. n \in DOMAIN syncs
      BY <2>1 DEF KeySyncStep, KeysRead, ListKeyIds, RemoveKeys, SetKeys, AtStep
    <3>2. (vault = "ready") \in BOOLEAN
      OBVIOUS
    <3> QED  BY <2>1, <3>1, <3>2 DEF KeySyncStep
  <2>2. ASSUME NEW f \in 1 .. MaxFlows, DialogPolls(f) PROVE UNCHANGED <<session, syncs, saved>>
    BY <2>2 DEF DialogPolls, keyVars
  <2>3. CASE PushTimer \/ LoginPolls \/ AccountInfo \/ SearchEnds \/ MkPath
    BY <2>3 DEF PushTimer, LoginPolls, AccountInfo, SearchEnds, MkPath, keyVars
  <2>4. CASE UnlockStep
    BY <2>4 DEF UnlockStep, KeysGot, Decrypted
  <2>5. CASE AppStarts \/ SelectStore
    BY <2>5 DEF AppStarts, SelectStore
  <2> QED  BY <1>1, <2>1, <2>2, <2>3, <2>4, <2>5 DEF SetupStep
<1>2. CASE User
  <2>1. CASE AddStore \/ PopScreen \/ ConnectToCloudService \/ TryAgain \/ SignOut \/ NewStore \/ Create
    BY <2>1 DEF AddStore, PopScreen, ConnectToCloudService, TryAgain, SignOut, NewStore, Create, keyVars
  <2>2. CASE SelectStore \/ SelectAccount
    BY <2>2 DEF SelectStore, SelectAccount
  <2>3. CASE UserOfStore
    BY <2>3 DEF UserOfStore, TryUnlock
  <2>4. CASE SwitchStore \/ DialogSignIn \/ DialogCancel
    BY <2>4 DEF SwitchStore, CloseStore, DialogSignIn, DialogCancel, keyVars
  <2> QED  BY <1>2, <2>1, <2>2, <2>3, <2>4 DEF User
<1>3. CASE Failure
  <2>1. CASE AccountInfoFails \/ VaultWriteFails
    BY <2>1 DEF AccountInfoFails, VaultWriteFails
  <2>2. CASE VaultReadFails
    <3>1. PICK n \in DOMAIN syncs : ReadFails(n)
      BY <2>2 DEF VaultReadFails
    <3> QED  BY <3>1
  <2>3. CASE Reload
    BY <2>3 DEF Reload
  <2> QED  BY <1>3, <2>1, <2>2, <2>3 DEF Failure
<1>4. CASE \E f \in 1 .. MaxFlows : SignInWindow(f)
  BY <1>4 DEF SignInWindow, keyVars
<1>5. CASE UNCHANGED setupVars
  BY <1>5 DEF setupVars
<1> QED  BY <1>1, <1>2, <1>3, <1>4, <1>5 DEF SetupNext

\* A step of a copy.
LEMMA CopyChanges ==
  ASSUME syncs \in Seq(SyncOfKeys), NEW n \in DOMAIN syncs,
         NEW step \in {"read", "list", "remove", "set", "done", "failed"}, NEW known \in SUBSET KeyIds,
         syncs' = [syncs EXCEPT ![n] = [syncs[n] EXCEPT !.step = step, !.listed = known]]
  PROVE  /\ syncs' \in Seq(SyncOfKeys) /\ Len(syncs') = Len(syncs) /\ DOMAIN syncs' = DOMAIN syncs
         /\ syncs'[n].step = step /\ syncs'[n].listed = known
         /\ \A k \in DOMAIN syncs : k # n => syncs'[k] = syncs[k]
<1>1. DOMAIN syncs = 1 .. Len(syncs) /\ Len(syncs) \in Nat /\ syncs[n] \in SyncOfKeys
  BY LenProperties, ElementOfSeq
<1> DEFINE r == [syncs[n] EXCEPT !.step = step, !.listed = known]
<1>2. r \in SyncOfKeys /\ r.step = step /\ r.listed = known
  BY <1>1 DEF SyncOfKeys, Ended
<1>3. syncs' = [syncs EXCEPT ![n] = r]
  OBVIOUS
<1> HIDE DEF r
<1>4. /\ syncs' \in Seq(SyncOfKeys) /\ Len(syncs') = Len(syncs)
      /\ \A k \in 1 .. Len(syncs) : syncs'[k] = IF k = n THEN r ELSE syncs[k]
  BY <1>1, <1>2, <1>3, ExceptSeq
<1> QED  BY <1>1, <1>2, <1>4, LenProperties

\* A copy that goes on removes no keys, or is still to set them.
LEMMA CopyGoesOn ==
  ASSUME CopiesInv, NEW n \in DOMAIN syncs, NEW step \in {"list", "remove", "set", "failed"},
         NEW known \in SUBSET KeyIds, syncs[n].step \in {"read", "list", "remove"},
         syncs' = [syncs EXCEPT ![n] = [syncs[n] EXCEPT !.step = step, !.listed = known]],
         session' = session, saved' \subseteq KeyIds,
         saved' = saved \/ (step = "set" /\ known # {})
  PROVE  CopiesInv'
<1>1. syncs \in Seq(SyncOfKeys) /\ DOMAIN syncs = 1 .. Len(syncs) /\ Len(syncs) \in Nat /\ session \in Nat
  BY LenProperties DEF CopiesInv
<1>2. /\ syncs' \in Seq(SyncOfKeys) /\ Len(syncs') = Len(syncs) /\ DOMAIN syncs' = DOMAIN syncs
      /\ syncs'[n].step = step /\ syncs'[n].listed = known
      /\ \A k \in DOMAIN syncs : k # n => syncs'[k] = syncs[k]
  BY <1>1, CopyChanges
<1>3. ASSUME LastDone'
      PROVE  \/ saved' = KeyIds
             \/ \E k \in DOMAIN syncs' : syncs'[k].listed # {} /\ syncs'[k].step \in {"set", "failed"}
  <2>1. LastDone
    <3>1. Len(syncs) \in DOMAIN syncs /\ syncs # <<>>
      BY <1>1
    <3>2. syncs'[Len(syncs)].step = "done"
      BY <1>2, <1>3 DEF LastDone
    <3> QED  BY <1>2, <3>1, <3>2 DEF LastDone
  <2>2. CASE saved' = saved
    <3>1. CASE saved = KeyIds
      BY <2>2, <3>1
    <3>2. CASE saved # KeyIds
      <4>1. PICK k \in DOMAIN syncs : syncs[k].listed # {} /\ syncs[k].step \in {"set", "failed"}
        BY <2>1, <3>2 DEF CopiesInv
      <4>2. syncs'[k] = syncs[k]
        BY <1>2, <4>1
      <4> QED  BY <1>2, <4>1, <4>2
    <3> QED  BY <3>1, <3>2
  <2>3. CASE step = "set" /\ known # {}
    BY <1>2, <2>3
  <2> QED  BY <2>2, <2>3
<1> QED  BY <1>1, <1>2, <1>3 DEF CopiesInv

LEMMA CopyStarts ==
  ASSUME syncs \in Seq(SyncOfKeys), NEW s \in Nat, syncs' = Append(syncs, NewSync(s))
  PROVE  syncs' \in Seq(SyncOfKeys) /\ ~LastDone'
<1>1. NewSync(s) \in SyncOfKeys /\ NewSync(s).step = "read"
  BY DEF NewSync, SyncOfKeys, Ended
<1>2. /\ syncs' \in Seq(SyncOfKeys) /\ Len(syncs') = Len(syncs) + 1
      /\ syncs'[Len(syncs) + 1] = NewSync(s)
  BY <1>1, AppendProperties, LenProperties
<1> QED  BY <1>1, <1>2 DEF LastDone

\* A reload may come between the removal of a key and that of the next, and takes the
\* copies away that would set them again.
LEMMA ReloadKeepsCopies == ASSUME CopiesInv, ReloadKeys PROVE CopiesInv'
<1>0. /\ session \in Nat /\ syncs \in Seq(SyncOfKeys)
      /\ DOMAIN syncs = 1 .. Len(syncs) /\ Len(syncs) \in Nat
      /\ \A n \in DOMAIN syncs : syncs[n] \in SyncOfKeys
  BY LenProperties, ElementOfSeq DEF CopiesInv
<1>1. syncs' = [n \in DOMAIN syncs |->
                  [syncs[n] EXCEPT !.step = IF syncs[n].step \in Ended THEN syncs[n].step ELSE "failed"]]
      /\ session' = session /\ saved' \subseteq KeyIds
  BY DEF ReloadKeys, CopiesInv
<1>2. ASSUME NEW n \in DOMAIN syncs
      PROVE  /\ syncs'[n] \in SyncOfKeys /\ syncs'[n].listed = syncs[n].listed
             /\ syncs'[n].step = IF syncs[n].step \in Ended THEN syncs[n].step ELSE "failed"
  BY <1>0, <1>1 DEF SyncOfKeys, Ended
<1>3. syncs' \in Seq(SyncOfKeys) /\ Len(syncs') = Len(syncs) /\ DOMAIN syncs' = DOMAIN syncs
  <2>1. DOMAIN syncs' = 1 .. Len(syncs) /\ syncs' = [n \in 1 .. Len(syncs) |-> syncs'[n]]
    BY <1>0, <1>1
  <2>2. \A n \in 1 .. Len(syncs) : syncs'[n] \in SyncOfKeys
    BY <1>0, <1>2
  <2>3. syncs' \in Seq(SyncOfKeys)
    BY <1>0, <2>1, <2>2
  <2> QED  BY <1>0, <2>1, <2>3, LenProperties
<1>4. ASSUME LastDone'
      PROVE  \/ saved' = KeyIds
             \/ \E k \in DOMAIN syncs' : syncs'[k].listed # {} /\ syncs'[k].step \in {"set", "failed"}
  <2>1. LastDone
    <3>1. syncs # <<>> /\ Len(syncs) \in DOMAIN syncs
      BY <1>0, <1>1, <1>3, <1>4, EmptySeq DEF LastDone
    <3>2. syncs'[Len(syncs)].step = "done"
      BY <1>3, <1>4 DEF LastDone
    <3> QED  BY <1>2, <3>1, <3>2 DEF LastDone, Ended
  <2>2. ASSUME NEW k \in DOMAIN syncs, syncs[k].listed # {}, syncs[k].step \in {"remove", "set", "failed"}
        PROVE  \E n \in DOMAIN syncs' : syncs'[n].listed # {} /\ syncs'[n].step \in {"set", "failed"}
    BY <1>2, <1>3, <2>2 DEF Ended
  <2>3. CASE saved = KeyIds
    <3>1. CASE saved' = KeyIds
      BY <3>1
    <3>2. CASE saved' # KeyIds
      <4>1. PICK n \in DOMAIN syncs, done \in SUBSET KeyIds :
              \/ AtStep(n, "remove") /\ saved' = saved \ (syncs[n].listed \intersect done)
              \/ AtStep(n, "set") /\ saved' = saved \union done
        BY <2>3, <3>2 DEF ReloadKeys
      <4>2. AtStep(n, "remove") /\ syncs[n].listed # {}
        BY <2>3, <3>2, <4>1
      <4> QED  BY <2>2, <4>2 DEF AtStep
    <3> QED  BY <3>1, <3>2
  <2>4. CASE saved # KeyIds
    <3>1. PICK k \in DOMAIN syncs : syncs[k].listed # {} /\ syncs[k].step \in {"set", "failed"}
      BY <2>1, <2>4 DEF CopiesInv
    <3> QED  BY <2>2, <3>1
  <2> QED  BY <2>3, <2>4
<1> QED  BY <1>0, <1>1, <1>3, <1>4 DEF CopiesInv

LEMMA CopiesStay ==
  ASSUME CopiesInv, [SetupNext]_setupVars PROVE CopiesInv'
<1>0. /\ session \in Nat /\ syncs \in Seq(SyncOfKeys) /\ saved \subseteq KeyIds
      /\ \A n \in DOMAIN syncs : syncs[n] \in SyncOfKeys
  BY ElementOfSeq DEF CopiesInv
<1>1. CASE UNCHANGED <<session, syncs, saved>>
  BY <1>1 DEF CopiesInv, LastDone
<1>2. CASE OpenStore \/ ClearOfflineStorage
  <2>1. session' \in Nat /\ session + 1 \in Nat /\ saved' \subseteq KeyIds
        /\ (syncs' = Append(syncs, NewSync(session)) \/ syncs' = Append(syncs, NewSync(session + 1)))
    BY <1>0, <1>2 DEF OpenStore, ClearOfflineStorage
  <2> QED  BY <1>0, <2>1, CopyStarts DEF CopiesInv
<1>3. ASSUME NEW n \in DOMAIN syncs, NEW step, Step(n, step)
      PROVE  syncs[n].listed \in SUBSET KeyIds
             /\ syncs' = [syncs EXCEPT ![n] = [syncs[n] EXCEPT !.step = step, !.listed = syncs[n].listed]]
  <2>1. [syncs[n] EXCEPT !.step = step] = [syncs[n] EXCEPT !.step = step, !.listed = syncs[n].listed]
    BY <1>0 DEF SyncOfKeys
  <2> QED  BY <1>0, <1>3, <2>1 DEF Step, SyncOfKeys
<1>4. ASSUME NEW n \in DOMAIN syncs, (\E readable \in BOOLEAN : KeysRead(n, readable)) \/ ReadFails(n)
      PROVE  CopiesInv'
  <2>1. session' = session /\ saved' = saved /\ syncs[n].step = "read"
        /\ \E step \in {"list", "failed"} : Step(n, step)
    <3>1. CASE \E readable \in BOOLEAN : KeysRead(n, readable)
      BY <3>1 DEF KeysRead, AtStep
    <3>2. CASE ReadFails(n)
      BY <3>2 DEF ReadFails, AtStep
    <3> QED  BY <1>4, <3>1, <3>2
  <2>2. PICK step \in {"list", "failed"} : Step(n, step)
    BY <2>1
  <2>3. syncs[n].listed \in SUBSET KeyIds
        /\ syncs' = [syncs EXCEPT ![n] = [syncs[n] EXCEPT !.step = step, !.listed = syncs[n].listed]]
    BY <1>3, <2>2
  <2>4. step \in {"list", "remove", "set", "failed"} /\ syncs[n].step \in {"read", "list", "remove"}
        /\ saved' \subseteq KeyIds
    BY <1>0, <2>1
  <2> QED  BY <2>1, <2>3, <2>4, CopyGoesOn
<1>5. ASSUME NEW n \in DOMAIN syncs, RemoveKeys(n) PROVE CopiesInv'
  <2>1. /\ Step(n, "set") /\ session' = session /\ saved' = saved \ syncs[n].listed
        /\ syncs[n].step = "remove"
    BY <1>5 DEF RemoveKeys, AtStep
  <2>2. saved' \subseteq KeyIds /\ (saved' = saved \/ syncs[n].listed # {})
    BY <1>0, <2>1
  <2> QED  BY <1>3, <2>1, <2>2, CopyGoesOn
<1>6. ASSUME NEW n \in DOMAIN syncs, ListKeyIds(n) PROVE CopiesInv'
  <2>1. syncs' = [syncs EXCEPT ![n] = [syncs[n] EXCEPT !.step = "remove", !.listed = saved]]
        /\ session' = session /\ saved' = saved /\ syncs[n].step = "list" /\ saved \in SUBSET KeyIds
    BY <1>0, <1>6 DEF ListKeyIds, AtStep
  <2> QED  BY <1>0, <2>1, CopyGoesOn
<1>7. ASSUME NEW n \in DOMAIN syncs, SetKeys(n) PROVE CopiesInv'
  <2>1. Step(n, "done") /\ saved' = KeyIds /\ session' = session
    BY <1>7 DEF SetKeys
  <2>2. syncs[n].listed \in SUBSET KeyIds
        /\ syncs' = [syncs EXCEPT ![n] = [syncs[n] EXCEPT !.step = "done", !.listed = syncs[n].listed]]
    BY <1>3, <2>1
  <2>3. syncs' \in Seq(SyncOfKeys)
    BY <1>0, <2>2, CopyChanges
  <2> QED  BY <1>0, <2>1, <2>3 DEF CopiesInv
<1> QED  BY <1>1, <1>2, <1>4, <1>5, <1>6, <1>7, ReloadKeepsCopies, KeySteps

\* When the copies of the keys have ended, the last of them well, and none failed that had
\* keys to remove, the database has every key, however stores are opened, left, cleared
\* and reloaded meanwhile.
THEOREM CopiedKeysAreComplete == SetupSpec => []SyncedKeysAreComplete
<1>1. SetupInit => CopiesInv
  <2>1. <<>> \in Seq(SyncOfKeys)
    OBVIOUS
  <2> QED  BY <2>1 DEF SetupInit, KeysInit, CopiesInv, LastDone
<1>2. CopiesInv => SyncedKeysAreComplete
  <2> SUFFICES ASSUME CopiesInv, LastDone, \A n \in DOMAIN syncs : syncs[n].step \in Ended,
                      \A n \in DOMAIN syncs : syncs[n].step = "failed" => syncs[n].listed = {}
               PROVE  saved = KeyIds
    BY DEF SyncedKeysAreComplete, LastDone
  <2>1. ASSUME NEW n \in DOMAIN syncs, syncs[n].listed # {}, syncs[n].step \in {"set", "failed"} PROVE FALSE
    BY <2>1 DEF Ended
  <2> QED  BY <2>1 DEF CopiesInv
<1> QED  BY <1>1, <1>2, CopiesStay, PTL DEF SetupSpec

-----------------------------------------------------------------------------
(* The wizard *)

\* The slide that is shown when the timers of the pushes have run.
Target == stack[current + pushes + 1]

\* What holds of the stack of slides: it starts with the list of accounts; a slide of
\* progress can be popped to only if it is the one a login was resumed on, which is not
\* reached; and a list of stores has searched.
SlidesInv ==
  /\ stack \in Seq([id : Screens, temporary : BOOLEAN])
  /\ current \in Nat /\ pushes \in {0, 1} /\ current + pushes < Len(stack)
  /\ stack[1] = Slide("StoreList")
  /\ \A k \in 1 .. Len(stack) :
       /\ stack[k].id \in ProgressScreens => stack[k].temporary \/ (current = 0 /\ pushes = 0)
       /\ stack[k].id = "CloudStoreList" => search # "none"

\* While a login is under way its slide is the one to be shown; a slide of progress is
\* shown otherwise only after `Sign Out'.
LoginInv ==
  /\ login \in [step : {"none", "auth", "info"}, flow : Nat]
  /\ login.step # "none" => Target.id = "CloudStoreLogin" /\ (pushes = 1 => login.step = "auth")
  /\ Target.id \in ProgressScreens => login.step # "none" \/ SignedOut

WizardInv == SlidesInv /\ LoginInv

\* A set of natural numbers has a smallest member, and a bounded one a largest.
LEMMA Smallest ==
  ASSUME NEW T \in SUBSET Nat, T # {} PROVE \E m \in T : \A k \in T : m <= k
<1>1. PICK m \in T : \A k \in T : ~(<<k, m>> \in OpToRel(<, Nat))
  BY NatLessThanWellFounded, WFMin
<1>2. \A k \in T : ~(k < m)
  BY <1>1 DEF OpToRel
<1> QED  BY <1>2

LEMMA Largest ==
  ASSUME NEW n \in Nat, NEW T \in SUBSET (0 .. n), T # {} PROVE \E m \in T : \A k \in T : k <= m
<1> DEFINE U == {n - k : k \in T}
<1>1. U \in SUBSET Nat /\ U # {}
  <2>1. \A k \in T : n - k \in Nat
    OBVIOUS
  <2> QED  BY <2>1
<1>2. PICK u \in U : \A v \in U : u <= v
  BY <1>1, Smallest
<1>3. PICK m \in T : u = n - m
  BY <1>2
<1>4. ASSUME NEW k \in T PROVE k <= m
  <2>1. u <= n - k
    BY <1>2
  <2> QED  BY <1>3, <2>1
<1> QED  BY <1>4

\* popScreen goes back to a slide that is not temporary, and none of those is a slide
\* of progress.
LEMMA Popped ==
  ASSUME SlidesInv, current > 0
  PROVE  /\ PoppedTo \in 0 .. current - 1
         /\ stack[PoppedTo + 1].id \notin ProgressScreens
<1>1. current \in Nat /\ current < Len(stack) /\ Len(stack) \in Nat
  BY LenProperties DEF SlidesInv
<1> DEFINE kept == {n \in 0 .. current - 1 : ~stack[n + 1].temporary}
<1>2. 0 \in kept
  <2>1. ~stack[0 + 1].temporary
    BY DEF SlidesInv, Slide
  <2> QED  BY <1>1, <2>1
<1>3. PICK n \in kept : \A k \in kept : k <= n
  <2>1. current - 1 \in Nat
    BY <1>1
  <2>2. kept \in SUBSET (0 .. current - 1) /\ kept # {}
    BY <1>2
  <2> HIDE DEF kept
  <2> QED  BY <2>1, <2>2, Largest
<1>4. \A k \in n + 1 .. current - 1 : stack[k + 1].temporary
  BY <1>1, <1>3
<1>5. PoppedTo \in 0 .. current - 1 /\ ~stack[PoppedTo + 1].temporary
  BY <1>3, <1>4 DEF PoppedTo
<1> QED  BY <1>1, <1>5 DEF SlidesInv

\* A push takes away the slides behind the one that is shown.
LEMMA Pushed ==
  ASSUME SlidesInv, NEW slide \in [id : Screens, temporary : BOOLEAN], Push(slide), pushes = 0
  PROVE  /\ stack' \in Seq([id : Screens, temporary : BOOLEAN])
         /\ Len(stack') = current + 2 /\ pushes' = 1
         /\ stack'[current + 2] = slide
         /\ \A k \in 1 .. current + 1 : stack'[k] = stack[k]
<1> DEFINE upTo == SubSeq(stack, 1, current + 1)
<1>1. current \in Nat /\ current < Len(stack) /\ Len(stack) \in Nat
  BY LenProperties DEF SlidesInv
<1>2. /\ upTo \in Seq([id : Screens, temporary : BOOLEAN]) /\ Len(upTo) = current + 1
      /\ \A k \in 1 .. current + 1 : upTo[k] = stack[k]
  <2>1. \A k \in 1 .. current + 1 : stack[k] \in [id : Screens, temporary : BOOLEAN]
    <3> DEFINE slides == [id : Screens, temporary : BOOLEAN]
    <3>1. stack \in Seq(slides)
      BY DEF SlidesInv
    <3> HIDE DEF slides
    <3>2. \A k \in 1 .. current + 1 : stack[k] \in slides
      BY <1>1, <3>1, ElementOfSeq
    <3> QED  BY <3>2 DEF slides
  <2>2. /\ upTo \in Seq([id : Screens, temporary : BOOLEAN])
        /\ Len(upTo) = IF 1 <= current + 1 THEN current + 1 - 1 + 1 ELSE 0
        /\ \A k \in 1 .. current + 1 - 1 + 1 : upTo[k] = stack[1 + k - 1]
    BY <1>1, <2>1, SubSeqProperties
  <2> HIDE DEF upTo
  <2> QED  BY <1>1, <2>2
<1>3. stack' = Append(upTo, slide) /\ pushes' = 1
  BY DEF Push
<1> HIDE DEF upTo
<1> QED  BY <1>1, <1>2, <1>3, AppendProperties

LEMMA FreshWizardIsGood ==
  ASSUME FreshWizard PROVE WizardInv'
<1>1. Slide("StoreList") \in [id : Screens, temporary : BOOLEAN]
      /\ Slide("CloudStoreLogin") \in [id : Screens, temporary : BOOLEAN]
  BY DEF Slide, Screens
<1>2. CASE stack' = <<Slide("StoreList")>>
  <2>1. stack' \in Seq([id : Screens, temporary : BOOLEAN]) /\ Len(stack') = 1
        /\ stack'[1] = Slide("StoreList") /\ stack'[0 + 0 + 1] = Slide("StoreList")
    BY <1>1, <1>2
  <2> QED  BY <2>1 DEF FreshWizard, WizardInv, SlidesInv, LoginInv, Target, Slide, ProgressScreens, NoLogin
<1>3. CASE stack' = <<Slide("StoreList"), Slide("CloudStoreLogin")>>
  <2>1. stack' \in Seq([id : Screens, temporary : BOOLEAN]) /\ Len(stack') = 2
        /\ stack'[1] = Slide("StoreList") /\ stack'[0 + 0 + 1] = Slide("StoreList")
        /\ stack'[2] = Slide("CloudStoreLogin")
    BY <1>1, <1>3
  <2> QED  BY <2>1 DEF FreshWizard, WizardInv, SlidesInv, LoginInv, Target, Slide, ProgressScreens, NoLogin
<1> QED  BY <1>2, <1>3 DEF FreshWizard

\* A step that lets the slides and the login be, and takes back no search.
LEMMA WizardRests ==
  ASSUME WizardInv, UNCHANGED <<stack, current, pushes, login, fs>>,
         search # "none" => search' # "none"
  PROVE  WizardInv'
BY DEF WizardInv, SlidesInv, LoginInv, Target, SignedOut

\* A slide that the user moves on to.
LEMMA PushStays ==
  ASSUME WizardInv, NEW slide \in [id : Screens, temporary : BOOLEAN], Push(slide), pushes = 0,
         stack[current + 1].id \notin ProgressScreens \/ login.step # "none",
         current' = current, login' \in [step : {"none", "auth", "info"}, flow : Nat],
         search # "none" => search' # "none",
         slide.id \in ProgressScreens => slide.temporary /\ slide.id = "CloudStoreLogin" /\ login'.step = "auth",
         slide.id \notin ProgressScreens => login'.step = "none",
         slide.id = "CloudStoreList" => search' # "none"
  PROVE  WizardInv'
<1>1. /\ stack' \in Seq([id : Screens, temporary : BOOLEAN])
      /\ Len(stack') = current + 2 /\ pushes' = 1
      /\ stack'[current + 2] = slide
      /\ \A k \in 1 .. current + 1 : stack'[k] = stack[k]
  BY Pushed DEF WizardInv
<1>2. current \in Nat /\ current + 1 <= Len(stack) /\ Len(stack) \in Nat
  BY LenProperties DEF WizardInv, SlidesInv
<1>3. ASSUME NEW k \in 1 .. current + 1
      PROVE  /\ stack'[k].id \in ProgressScreens => stack'[k].temporary
             /\ stack'[k].id = "CloudStoreList" => search' # "none"
  <2>1. stack[k].id \in ProgressScreens => stack[k].temporary
    <3>1. CASE current = 0
      BY <1>2, <1>3, <3>1 DEF WizardInv, SlidesInv, Slide, ProgressScreens
    <3> QED  BY <1>2, <1>3, <3>1 DEF WizardInv, SlidesInv
  <2> QED  BY <1>1, <1>2, <1>3, <2>1 DEF WizardInv, SlidesInv
<1>4. SlidesInv'
  BY <1>1, <1>2, <1>3 DEF WizardInv, SlidesInv
<1>5. Target' = slide
  BY <1>1, <1>2 DEF Target
<1> QED  BY <1>1, <1>4, <1>5 DEF WizardInv, LoginInv, ProgressScreens

\* A screen that is popped, at the click of a button or as the login has failed.
LEMMA PopStays ==
  ASSUME WizardInv, current > 0, pushes = 0, current' = PoppedTo, UNCHANGED <<stack, pushes, fs, search>>,
         login' \in [step : {"none", "auth", "info"}, flow : Nat], login'.step = "none"
  PROVE  WizardInv'
<1>1. PoppedTo \in 0 .. current - 1 /\ stack[PoppedTo + 1].id \notin ProgressScreens
  BY Popped DEF WizardInv
<1>2. PICK n \in 0 .. current - 1 : current' = n /\ stack[n + 1].id \notin ProgressScreens
  BY <1>1
<1>3. current \in Nat /\ current < Len(stack) /\ Len(stack) \in Nat
  BY LenProperties DEF WizardInv, SlidesInv
<1>4. SlidesInv'
  BY <1>2, <1>3 DEF WizardInv, SlidesInv
<1>5. Target' = stack[n + 1]
  BY <1>2, <1>3 DEF Target
<1> QED  BY <1>2, <1>4, <1>5 DEF WizardInv, LoginInv

\* What a user who waits for the screens sees as the screen is shown.
LEMMA ShownAtRest ==
  ASSUME Patient, WizardInv, NEW screen \in Screens \ ProgressScreens, Showing(screen)
  PROVE  /\ pushes = 0 /\ stack[current + 1].id = screen /\ login.step = "none"
         /\ screen # "StoreList" => current > 0
<1>1. current \in Nat /\ current + 1 <= Len(stack) /\ Len(stack) \in Nat
  BY LenProperties DEF WizardInv, SlidesInv
<1>2. pushes = 0 /\ stack[current + 1].id = screen
  BY DEF Showing
<1>3. Target.id = screen
  BY <1>1, <1>2 DEF Target
<1>4. screen # "StoreList" => current # 0
  BY <1>1, <1>2 DEF WizardInv, SlidesInv, Slide
<1> QED  BY <1>1, <1>2, <1>3, <1>4 DEF WizardInv, LoginInv, ProgressScreens

LEMMA UserKeepsWizard ==
  ASSUME Patient, WizardInv, User PROVE WizardInv'
<1> USE DEF Screens, ProgressScreens
<1>0. NoLogin \in [step : {"none", "auth", "info"}, flow : Nat] /\ NoLogin.step = "none"
  BY DEF NoLogin
<1>1. CASE AddStore
  <2>1. Slide("CloudServiceList") \in [id : Screens, temporary : BOOLEAN]
        /\ Slide("CloudServiceList").id = "CloudServiceList"
    BY DEF Slide
  <2>2. pushes = 0 /\ stack[current + 1].id = "StoreList" /\ login.step = "none"
    BY <1>1, ShownAtRest DEF AddStore
  <2> QED  BY <1>1, <2>1, <2>2, PushStays DEF AddStore, WizardInv, LoginInv
<1>2. CASE PopScreen
  <2>1. PICK screen \in {"CloudServiceList", "CloudStoreList", "NewStore"} : Showing(screen)
    BY <1>2 DEF PopScreen
  <2>2. pushes = 0 /\ login.step = "none" /\ current > 0
    BY <2>1, ShownAtRest
  <2> QED  BY <1>2, <2>2, PopStays DEF PopScreen, WizardInv, LoginInv
<1>3. CASE ConnectToCloudService
  <2>1. TemporarySlide("CloudStoreLogin") \in [id : Screens, temporary : BOOLEAN]
        /\ TemporarySlide("CloudStoreLogin").id = "CloudStoreLogin"
        /\ TemporarySlide("CloudStoreLogin").temporary
    BY DEF TemporarySlide
  <2>2. pushes = 0 /\ stack[current + 1].id = "CloudServiceList"
    BY <1>3, ShownAtRest DEF ConnectToCloudService
  <2>3. login' \in [step : {"none", "auth", "info"}, flow : Nat] /\ login'.step = "auth"
    BY <1>3 DEF ConnectToCloudService
  <2> QED  BY <1>3, <2>1, <2>2, <2>3, PushStays DEF ConnectToCloudService
<1>4. CASE TryAgain
  BY <1>4, WizardRests DEF TryAgain
<1>5. CASE SignOut
  <2>1. TemporarySlide("CloudStoreSignout") \in [id : Screens, temporary : BOOLEAN]
        /\ TemporarySlide("CloudStoreSignout").id = "CloudStoreSignout"
        /\ TemporarySlide("CloudStoreSignout").temporary
    BY DEF TemporarySlide
  <2>2. pushes = 0 /\ stack[current + 1].id = "CloudStoreList" /\ login.step = "none" /\ current > 0
    BY <1>5, ShownAtRest DEF SignOut
  <2>3. /\ stack' \in Seq([id : Screens, temporary : BOOLEAN])
        /\ Len(stack') = current + 2 /\ pushes' = 1
        /\ stack'[current + 2] = TemporarySlide("CloudStoreSignout")
        /\ \A k \in 1 .. current + 1 : stack'[k] = stack[k]
    BY <1>5, <2>1, <2>2, Pushed DEF SignOut, WizardInv
  <2>4. current \in Nat /\ current + 1 <= Len(stack) /\ Len(stack) \in Nat
    BY LenProperties DEF WizardInv, SlidesInv
  <2>5. current' \in 0 .. current - 1 /\ search # "none" /\ search' = search /\ login' = login /\ fs' = FALSE
    BY <1>5, <2>2, <2>4, Popped DEF SignOut, WizardInv, SlidesInv
  <2>6. SlidesInv'
    <3>1. ASSUME NEW k \in 1 .. Len(stack')
          PROVE  stack'[k].id \in ProgressScreens => stack'[k].temporary
      <4>1. CASE k = current + 2
        BY <2>1, <2>3, <4>1
      <4>2. CASE k \in 1 .. current + 1
        BY <2>2, <2>3, <2>4, <4>2 DEF WizardInv, SlidesInv
      <4> QED  BY <2>3, <2>4, <4>1, <4>2
    <3>4. PICK n \in 0 .. current - 1 : current' = n
      BY <2>5
    <3>2. current' \in Nat /\ current' + 1 < current + 2
      BY <2>4, <3>4
    <3>3. stack'[1] = Slide("StoreList")
      BY <2>3, <2>4 DEF WizardInv, SlidesInv
    <3> QED  BY <2>3, <2>5, <3>1, <3>2, <3>3 DEF SlidesInv
  <2>7. LoginInv'
    BY <2>2, <2>5 DEF WizardInv, LoginInv, SignedOut
  <2> QED  BY <2>6, <2>7 DEF WizardInv
<1>6. CASE NewStore
  <2>1. Slide("NewStore") \in [id : Screens, temporary : BOOLEAN] /\ Slide("NewStore").id = "NewStore"
    BY DEF Slide
  <2>2. pushes = 0 /\ stack[current + 1].id = "CloudStoreList" /\ login.step = "none"
    BY <1>6, ShownAtRest DEF NewStore
  <2> QED  BY <1>6, <2>1, <2>2, PushStays DEF NewStore, WizardInv, LoginInv
<1>7. CASE Create
  BY <1>7, WizardRests DEF Create
<1>8. CASE SelectStore \/ SelectAccount \/ SwitchStore
  BY <1>8, FreshWizardIsGood DEF SelectStore, SelectAccount, SwitchStore
<1>9. CASE UserOfStore \/ DialogSignIn \/ DialogCancel
  BY <1>9, WizardRests DEF UserOfStore, DialogSignIn, DialogCancel, wizardVars
<1> QED  BY <1>1, <1>2, <1>3, <1>4, <1>5, <1>6, <1>7, <1>8, <1>9 DEF User

\* The slide of a login that fails can be popped.
LEMMA LoginFailsAtRest ==
  ASSUME WizardInv, login.step # "none", pushes = 0 PROVE current > 0
<1>1. current \in Nat /\ Target.id = "CloudStoreLogin"
  BY DEF WizardInv, SlidesInv, LoginInv
<1> QED  BY <1>1 DEF Target, WizardInv, SlidesInv, Slide

LEMMA AppKeepsWizard ==
  ASSUME WizardInv, SetupStep PROVE WizardInv'
<1> USE DEF Screens, ProgressScreens
<1>0. NoLogin \in [step : {"none", "auth", "info"}, flow : Nat] /\ NoLogin.step = "none"
  BY DEF NoLogin
<1>1. CASE PushTimer
  <2>1. pushes = 1 /\ pushes' = 0 /\ current \in Nat /\ current' = current + 1 /\ stack' = stack
    BY <1>1 DEF PushTimer, WizardInv, SlidesInv
  <2>2. current + pushes + 1 = current' + pushes' + 1
    BY <2>1
  <2>3. Target' = Target
    BY <2>1, <2>2 DEF Target
  <2> QED  BY <1>1, <2>1, <2>3 DEF PushTimer, WizardInv, SlidesInv, LoginInv, SignedOut
<1>2. CASE LoginPolls
  <2>1. CASE PollResult(login.flow) = "credentials"
    <3>1. login' \in [step : {"none", "auth", "info"}, flow : Nat] /\ login'.step = "info"
      BY <1>2, <2>1 DEF LoginPolls, WizardInv, LoginInv
    <3> QED  BY <1>2, <2>1, <3>1 DEF LoginPolls, WizardInv, SlidesInv, LoginInv, Target, SignedOut
  <2>2. CASE PollResult(login.flow) # "credentials"
    BY <1>0, <1>2, <2>2, LoginFailsAtRest, PopStays DEF LoginPolls
  <2> QED  BY <2>1, <2>2
<1>3. CASE AccountInfo
  <2>1. Slide("CloudStoreList") \in [id : Screens, temporary : BOOLEAN]
        /\ Slide("CloudStoreList").id = "CloudStoreList"
    BY DEF Slide
  <2>2. pushes = 0
    BY <1>3 DEF AccountInfo, WizardInv, SlidesInv, LoginInv
  <2>3. login.step # "none"
    BY <1>3 DEF AccountInfo
  <2> QED  BY <1>0, <1>3, <2>1, <2>2, <2>3, PushStays DEF AccountInfo
<1>4. CASE SearchEnds
  BY <1>4, WizardRests DEF SearchEnds
<1>5. CASE MkPath
  BY <1>5, WizardRests DEF MkPath
<1>6. CASE SelectStore
  BY <1>6, FreshWizardIsGood DEF SelectStore
<1>7. CASE UnlockStep \/ AppStarts \/ \E n \in 1 .. MaxKeySyncs : KeySyncStep(n)
  BY <1>7, WizardRests DEF UnlockStep, AppStarts, KeySyncStep, wizardVars
<1>8. CASE \E f \in 1 .. MaxFlows : DialogPolls(f)
  BY <1>8, WizardRests DEF DialogPolls, wizardVars
<1> QED  BY <1>1, <1>2, <1>3, <1>4, <1>5, <1>6, <1>7, <1>8 DEF SetupStep

LEMMA WizardStays ==
  ASSUME Patient, WizardInv, [SetupNext]_setupVars PROVE WizardInv'
<1>1. CASE AccountInfoFails
  <2>1. NoLogin \in [step : {"none", "auth", "info"}, flow : Nat] /\ NoLogin.step = "none"
    BY DEF NoLogin
  <2>2. login.step # "none" /\ pushes = 0
    BY <1>1 DEF AccountInfoFails, WizardInv, SlidesInv, LoginInv
  <2> QED  BY <1>1, <2>1, <2>2, LoginFailsAtRest, PopStays DEF AccountInfoFails
<1>2. CASE VaultWriteFails \/ VaultReadFails
  BY <1>2, WizardRests DEF VaultWriteFails, VaultReadFails, wizardVars
<1>3. CASE Reload
  BY <1>3, FreshWizardIsGood DEF Reload
<1>4. CASE \E f \in 1 .. MaxFlows : SignInWindow(f)
  BY <1>4, WizardRests DEF SignInWindow, wizardVars
<1>5. CASE UNCHANGED setupVars
  BY <1>5, WizardRests DEF setupVars
<1> QED  BY <1>1, <1>2, <1>3, <1>4, <1>5, UserKeepsWizard, AppKeepsWizard DEF SetupNext, Failure

\* For a user who waits for the screens that are about to come, the wizard always shows
\* a screen that leads on.
THEOREM WizardLeadsOn ==
  ASSUME Patient PROVE SetupSpec => []NeverStranded
<1>1. SetupInit => WizardInv
  <2>1. ASSUME SetupInit,
               stack = <<Slide("StoreList")>> \/ stack = <<Slide("StoreList"), Slide("CloudStoreLogin")>>
        PROVE  WizardInv
    <3>1. Slide("StoreList") \in [id : Screens, temporary : BOOLEAN]
          /\ Slide("CloudStoreLogin") \in [id : Screens, temporary : BOOLEAN]
      BY DEF Slide, Screens
    <3>2. /\ stack \in Seq([id : Screens, temporary : BOOLEAN]) /\ Len(stack) \in {1, 2}
          /\ stack[1] = Slide("StoreList") /\ stack[0 + 0 + 1] = Slide("StoreList")
          /\ Len(stack) = 2 => stack[2] = Slide("CloudStoreLogin")
      <4> DEFINE slides == [id : Screens, temporary : BOOLEAN]
      <4>1. \A a, b \in slides : <<a>> \in Seq(slides) /\ <<a, b>> \in Seq(slides)
        OBVIOUS
      <4> HIDE DEF slides
      <4>2. stack \in Seq(slides)
        BY <2>1, <3>1, <4>1 DEF slides
      <4>3. /\ Len(stack) \in {1, 2} /\ stack[1] = Slide("StoreList")
            /\ Len(stack) = 2 => stack[2] = Slide("CloudStoreLogin")
        BY <2>1
      <4> QED  BY <4>2, <4>3 DEF slides
    <3>3. current = 0 /\ pushes = 0 /\ login = NoLogin
      BY <2>1 DEF SetupInit
    <3>4. \A k \in 1 .. Len(stack) : stack[k].id # "CloudStoreList"
      BY <3>2 DEF Slide
    <3>5. SlidesInv
      BY <3>2, <3>3, <3>4 DEF SlidesInv
    <3>6. LoginInv
      BY <3>2, <3>3 DEF LoginInv, Target, Slide, ProgressScreens, NoLogin
    <3> QED  BY <3>5, <3>6 DEF WizardInv
  <2> QED  BY <2>1 DEF SetupInit
<1>2. WizardInv => NeverStranded
  <2>1. ASSUME WizardInv PROVE NeverStranded
    <3>1. current \in Nat /\ current < Len(stack) /\ Len(stack) \in Nat
      BY <2>1, LenProperties DEF WizardInv, SlidesInv
    <3>2. pushes = 0 => Target = stack[current + 1]
      BY <3>1 DEF Target
    <3> QED  BY <2>1, <3>1, <3>2 DEF WizardInv, SlidesInv, LoginInv, NeverStranded
  <2> QED  BY <2>1
<1>3. WizardInv /\ [SetupNext]_setupVars => WizardInv'
  BY WizardStays
<1> QED  BY <1>1, <1>2, <1>3, PTL DEF SetupSpec

-----------------------------------------------------------------------------
(* The page *)

CallRecords == [peer : Tabs, method : {"find-fields", "autofill"}, timer : {"set", "fired", "cleared"},
                callbacks : Nat, outcome : Outcomes]
FillRecords == [step : {"content", "finding", "found", "filling"} \union FillOver,
                call : Nat, asked : Nat]
TabRecords == [doc : Nat, asked : Seq(BOOLEAN)]
CallMessage(id) == [type |-> "rpc-call", id |-> id, peer |-> calls[id].peer]
EmptyPage == [url |-> NoPage, form |-> <<>>]

\* The records that the page deals with.
RecordsInv ==
  /\ calls \in Seq(CallRecords) /\ fills \in Seq(FillRecords)
  /\ docs \in Seq(Pages \union {EmptyPage})
  /\ tabs \in [Tabs -> TabRecords] /\ \A t \in Tabs : tabs[t].doc \in DOMAIN docs
  /\ activeTab \in Tabs
  /\ \A m \in wire : /\ m.id \in DOMAIN calls
                     /\ m = CallMessage(m.id) \/ (m.type = "rpc-reply" /\ m.result \in Nat)

\* A fill and the call that it waits for: no two fills wait for the same call, and no
\* fill goes on but the last one.
FillsInv ==
  /\ \A g \in DOMAIN fills :
       /\ fills[g].call # 0 => fills[g].call \in DOMAIN calls
       /\ fills[g].step \notin FillOver => g = Len(fills)
       /\ fills[g].step = "content" => fills[g].call = 0
       /\ fills[g].step = "finding" => /\ fills[g].call # 0 /\ calls[fills[g].call].outcome = "none"
                                       /\ calls[fills[g].call].method = "find-fields"
       /\ fills[g].step = "found" => fills[g].call # 0 /\ calls[fills[g].call].method = "find-fields"
       /\ fills[g].step = "filling" => /\ fills[g].call # 0 /\ calls[fills[g].call].outcome = "none"
                                       /\ calls[fills[g].call].method = "autofill"
  /\ \A g, h \in DOMAIN fills : fills[g].call = fills[h].call => g = h \/ fills[g].call = 0
  /\ \A id \in DOMAIN calls :
       /\ calls[id].outcome = "none" =>
            \E g \in DOMAIN fills : fills[g].call = id /\ fills[g].step \in {"finding", "filling"}
       /\ calls[id].method = "autofill" => \E g \in DOMAIN fills : fills[g].call = id

\* The calls on the way to the scripts of a tab, and the document whose fields these
\* remember, if they remember any.
FindsTo(t) == {n \in wire : n.type = "rpc-call" /\ n.peer = t /\ calls[n.id].method = "find-fields"}
Remembered(t, doc) == (\E s \in DOMAIN tabs[t].asked : tabs[t].asked[s]) => tabs[t].doc = doc

\* While a fill waits for the fields its call is the last one on the way to the active
\* tab; what the tab remembers then is what is answered, and no call on its way makes it
\* forget that before the fields are filled.
OrderInv ==
  /\ \A g \in DOMAIN fills :
       /\ fills[g].step = "finding" =>
            /\ calls[fills[g].call].peer = activeTab
            /\ \A n \in FindsTo(activeTab) : n.id <= fills[g].call /\ CallMessage(fills[g].call) \in wire
            /\ \A m \in wire : m.type = "rpc-reply" /\ m.id = fills[g].call =>
                 FindsTo(activeTab) = {} /\ Remembered(activeTab, m.result)
       /\ fills[g].step = "found" => FindsTo(activeTab) = {} /\ Remembered(activeTab, fills[g].asked)
  /\ \A m \in wire, g \in DOMAIN fills :
       m.type = "rpc-call" /\ calls[m.id].method = "autofill" /\ fills[g].call = m.id =>
         Remembered(m.peer, fills[g].asked) /\ \A n \in FindsTo(m.peer) : m.id < n.id

FilledInv == (\A e \in filled : e.doc \in DOMAIN docs) /\ FillsFitThePage

PageInv == RecordsInv /\ FillsInv /\ OrderInv /\ FilledInv

\* The records as functions.
LEMMA PageRecords ==
  ASSUME RecordsInv
  PROVE  /\ Len(calls) \in Nat /\ DOMAIN calls = 1 .. Len(calls)
         /\ Len(fills) \in Nat /\ DOMAIN fills = 1 .. Len(fills)
         /\ Len(docs) \in Nat /\ DOMAIN docs = 1 .. Len(docs)
         /\ \A id \in DOMAIN calls : calls[id] \in CallRecords /\ id \in Nat /\ id # 0
         /\ \A g \in DOMAIN fills : fills[g] \in FillRecords /\ g \in Nat
         /\ \A t \in Tabs : tabs[t] \in TabRecords
         /\ \A m \in wire : /\ m.type = "rpc-call" => m = CallMessage(m.id) /\ m.peer = calls[m.id].peer
                            /\ m.type # "rpc-call" => m.type = "rpc-reply" /\ m.result \in Nat
<1>1. calls \in Seq(CallRecords) /\ fills \in Seq(FillRecords) /\ docs \in Seq(Pages \union {EmptyPage})
  BY DEF RecordsInv
<1>2. /\ Len(calls) \in Nat /\ DOMAIN calls = 1 .. Len(calls)
      /\ Len(fills) \in Nat /\ DOMAIN fills = 1 .. Len(fills)
      /\ Len(docs) \in Nat /\ DOMAIN docs = 1 .. Len(docs)
  BY <1>1, LenProperties
<1>3. \A id \in DOMAIN calls : calls[id] \in CallRecords /\ id \in Nat /\ id # 0
  BY <1>1, <1>2, ElementOfSeq
<1>4. \A g \in DOMAIN fills : fills[g] \in FillRecords /\ g \in Nat
  BY <1>1, <1>2, ElementOfSeq
<1>5. \A t \in Tabs : tabs[t] \in TabRecords
  BY DEF RecordsInv
<1>6. ASSUME NEW m \in wire
      PROVE  /\ m.type = "rpc-call" => m = CallMessage(m.id) /\ m.peer = calls[m.id].peer
             /\ m.type # "rpc-call" => m.type = "rpc-reply" /\ m.result \in Nat
  BY DEF RecordsInv, CallMessage
<1> QED  BY <1>2, <1>3, <1>4, <1>5, <1>6

\* A call that a fill makes.
LEMMA TabCalled ==
  ASSUME RecordsInv, NEW f \in DOMAIN fills, NEW method \in {"find-fields", "autofill"},
         NEW step \in {"finding", "filling"}, CallTab(f, method, step)
  PROVE  /\ calls' \in Seq(CallRecords) /\ DOMAIN calls' = DOMAIN calls \union {Len(calls) + 1}
         /\ \A id \in DOMAIN calls : calls'[id] = calls[id]
         /\ calls'[Len(calls) + 1] = NewCall(activeTab, method)
         /\ fills' \in Seq(FillRecords) /\ Len(fills') = Len(fills) /\ DOMAIN fills' = DOMAIN fills
         /\ fills'[f].step = step /\ fills'[f].call = Len(calls) + 1 /\ fills'[f].asked = fills[f].asked
         /\ \A g \in DOMAIN fills : g # f => fills'[g] = fills[g]
         /\ wire' = wire \union {[type |-> "rpc-call", id |-> Len(calls) + 1, peer |-> activeTab]}
         /\ UNCHANGED <<docs, tabs, activeTab, currentUrl, filled>>
<1>1. /\ calls \in Seq(CallRecords) /\ fills \in Seq(FillRecords) /\ Len(calls) \in Nat
      /\ DOMAIN calls = 1 .. Len(calls) /\ DOMAIN fills = 1 .. Len(fills) /\ Len(fills) \in Nat
      /\ fills[f] \in FillRecords /\ activeTab \in Tabs
  BY PageRecords DEF RecordsInv
<1>2. NewCall(activeTab, method) \in CallRecords
  BY <1>1 DEF NewCall, CallRecords, Outcomes
<1>3. calls' = Append(calls, NewCall(activeTab, method))
  BY DEF CallTab, Call
<1>4. /\ calls' \in Seq(CallRecords) /\ Len(calls') = Len(calls) + 1
      /\ \A id \in 1 .. Len(calls) : calls'[id] = calls[id]
      /\ calls'[Len(calls) + 1] = NewCall(activeTab, method)
  BY <1>1, <1>2, <1>3, AppendProperties
<1>5. DOMAIN calls' = 1 .. Len(calls) + 1
  BY <1>4, LenProperties
<1> DEFINE r == [fills[f] EXCEPT !.step = step, !.call = Len(calls) + 1]
<1>6. r \in FillRecords /\ r.step = step /\ r.call = Len(calls) + 1 /\ r.asked = fills[f].asked
  <2>1. fills[f] \in FillRecords
    BY <1>1
  <2>2. Len(calls) + 1 \in Nat
    BY <1>1
  <2> QED  BY <2>1, <2>2 DEF FillRecords, FillOver, FillEnded, Unconnected
<1>7. fills' = [fills EXCEPT ![f] = r]
  BY DEF CallTab
<1> HIDE DEF r
<1>8. /\ fills' \in Seq(FillRecords) /\ Len(fills') = Len(fills)
      /\ \A g \in 1 .. Len(fills) : fills'[g] = IF g = f THEN r ELSE fills[g]
  BY <1>1, <1>6, <1>7, ExceptSeq
<1>9. DOMAIN fills' = 1 .. Len(fills)
  BY <1>8, LenProperties
<1> QED  BY <1>1, <1>4, <1>5, <1>6, <1>8, <1>9 DEF CallTab, Call

\* A callback that runs.
LEMMA CallbackRan ==
  ASSUME RecordsInv, NEW id \in DOMAIN calls, NEW outcome \in Outcomes \ {"none"},
         NEW timer \in {"fired", "cleared"}, RunCallback(id, outcome, timer)
  PROVE  /\ calls' \in Seq(CallRecords) /\ DOMAIN calls' = DOMAIN calls /\ Len(calls') = Len(calls)
         /\ \A k \in DOMAIN calls : calls'[k].peer = calls[k].peer /\ calls'[k].method = calls[k].method
         /\ \A k \in DOMAIN calls : k # id => calls'[k] = calls[k]
         /\ calls'[id].outcome # "none"
<1>1. /\ calls \in Seq(CallRecords) /\ Len(calls) \in Nat
      /\ DOMAIN calls = 1 .. Len(calls) /\ calls[id] \in CallRecords
  BY PageRecords DEF RecordsInv
<1> DEFINE told == IF calls[id].outcome = "none" THEN outcome ELSE calls[id].outcome
           r == [calls[id] EXCEPT !.callbacks = calls[id].callbacks + 1, !.timer = timer, !.outcome = told]
<1>2. r \in CallRecords /\ r.peer = calls[id].peer /\ r.method = calls[id].method /\ r.outcome # "none"
  <2>1. told \in Outcomes /\ told # "none" /\ calls[id].callbacks + 1 \in Nat
    BY <1>1 DEF CallRecords
  <2> HIDE DEF told
  <2>2. calls[id] \in CallRecords
    BY <1>1
  <2> QED  BY <2>1, <2>2 DEF CallRecords
<1>3. calls' = [calls EXCEPT ![id] = r]
  BY DEF RunCallback
<1> HIDE DEF r
<1>4. /\ calls' \in Seq(CallRecords) /\ Len(calls') = Len(calls)
      /\ \A k \in 1 .. Len(calls) : calls'[k] = IF k = id THEN r ELSE calls[k]
  BY <1>1, <1>2, <1>3, ExceptSeq
<1>5. DOMAIN calls' = 1 .. Len(calls)
  BY <1>4, LenProperties
<1> QED  BY <1>1, <1>2, <1>4, <1>5

\* The fill that waits for a call goes on when the call is settled, and no other does.
LEMMA FillGoesOn ==
  ASSUME RecordsInv, FillsInv, NEW id \in DOMAIN calls, NEW ok \in BOOLEAN, NEW result \in Nat,
         Settle(id, ok, result), calls[id].outcome = "none"
  PROVE  \E f \in DOMAIN fills :
           /\ fills[f].call = id /\ fills[f].step \in {"finding", "filling"} /\ f = Len(fills)
           /\ fills' \in Seq(FillRecords) /\ Len(fills') = Len(fills) /\ DOMAIN fills' = DOMAIN fills
           /\ \A g \in DOMAIN fills : g # f => fills'[g] = fills[g]
           /\ fills'[f].call = id
           /\ fills'[f].step = IF ~ok THEN "failed" ELSE IF fills[f].step = "finding" THEN "found" ELSE "done"
           /\ fills'[f].asked = IF ok /\ fills[f].step = "finding" THEN result ELSE fills[f].asked
<1>1. PICK f \in DOMAIN fills : fills[f].call = id /\ fills[f].step \in {"finding", "filling"}
  BY DEF FillsInv
<1>2. id # 0 /\ fills \in Seq(FillRecords) /\ fills[f] \in FillRecords
      /\ DOMAIN fills = 1 .. Len(fills) /\ Len(fills) \in Nat
  BY PageRecords DEF RecordsInv
<1>3. (CHOOSE g \in DOMAIN fills : fills[g].call = id) = f
  BY <1>1, <1>2 DEF FillsInv
<1>4. f = Len(fills)
  BY <1>1 DEF FillsInv, FillOver, FillEnded, Unconnected
<1> DEFINE step == IF ~ok THEN "failed" ELSE IF fills[f].step = "finding" THEN "found" ELSE "done"
           asked == IF ok /\ fills[f].step = "finding" THEN result ELSE fills[f].asked
           r == [fills[f] EXCEPT !.step = step, !.asked = asked]
<1>5. r \in FillRecords /\ r.call = id /\ r.step = step /\ r.asked = asked
  <2>1. fills[f] \in FillRecords /\ fills[f].call = id
    BY <1>1, <1>2
  <2>2. asked \in Nat
    BY <2>1 DEF FillRecords
  <2>3. step \in {"content", "finding", "found", "filling"} \union FillOver
    BY DEF FillOver, FillEnded, Unconnected
  <2> HIDE DEF step, asked
  <2> QED  BY <2>1, <2>2, <2>3 DEF FillRecords
<1>6. fills' = [fills EXCEPT ![f] = r]
  <2> DEFINE c == CHOOSE g \in DOMAIN fills : fills[g].call = id
  <2>2. fills' = [fills EXCEPT
                    ![c].step = IF ~ok THEN "failed" ELSE IF @ = "finding" THEN "found" ELSE "done",
                    ![c].asked = IF ok /\ fills[c].step = "finding" THEN result ELSE @]
    BY DEF Settle
  <2> HIDE DEF c
  <2>3. c = f
    BY <1>3 DEF c
  <2>4. fills' = [fills EXCEPT ![f].step = step, ![f].asked = asked]
    BY <1>2, <2>2, <2>3
  <2> HIDE DEF step, asked
  <2> QED  BY <1>2, <2>4
<1> HIDE DEF r
<1>7. /\ fills' \in Seq(FillRecords) /\ Len(fills') = Len(fills)
      /\ \A g \in 1 .. Len(fills) : fills'[g] = IF g = f THEN r ELSE fills[g]
  BY <1>2, <1>5, <1>6, ExceptSeq
<1>8. DOMAIN fills' = 1 .. Len(fills)
  BY <1>7, LenProperties
<1> QED  BY <1>1, <1>2, <1>4, <1>5, <1>7, <1>8

\* What depends on the calls, the wire and the tabs alone.
LEMMA SwitchTabKeeps ==
  ASSUME WaitsForFills, PageInv, SwitchTab PROVE PageInv'
<1>1. activeTab' \in Tabs /\ \A g \in DOMAIN fills : fills[g].step \notin {"finding", "found"}
  BY DEF SwitchTab, Filling, FillOver, FillEnded, Unconnected
<1>2. UNCHANGED <<calls, wire, docs, tabs, currentUrl, fills, filled>>
  BY DEF SwitchTab
<1>3. RecordsInv'
  BY <1>1, <1>2 DEF PageInv, RecordsInv, CallMessage
<1>4. FillsInv'
  BY <1>2 DEF PageInv, FillsInv
<1>5. \A u \in Tabs : FindsTo(u)' = FindsTo(u) /\ \A d : Remembered(u, d)' = Remembered(u, d)
  BY <1>2 DEF FindsTo, Remembered
<1>6. OrderInv'
  BY <1>1, <1>2 DEF PageInv, OrderInv, FindsTo, Remembered
<1>7. FilledInv'
  BY <1>2 DEF PageInv, FilledInv, FillsFitThePage
<1> QED  BY <1>3, <1>4, <1>6, <1>7 DEF PageInv

LEMMA NavigateKeeps ==
  ASSUME PageInv, NEW t \in Tabs, NEW page \in Pages, Navigate(t, page) PROVE PageInv'
<1>0. /\ RecordsInv /\ FillsInv /\ OrderInv /\ FilledInv
      /\ Len(docs) \in Nat /\ DOMAIN docs = 1 .. Len(docs)
      /\ \A m \in wire : m.type = "rpc-call" => m = CallMessage(m.id) /\ m.peer = calls[m.id].peer
  BY PageRecords DEF PageInv
<1>1. /\ docs' = Append(docs, page)
      /\ tabs' = [tabs EXCEPT ![t] = [doc |-> Len(docs) + 1, asked |-> <<>>]]
      /\ wire' = {m \in wire : m.type = "rpc-reply" \/ m.peer # t}
      /\ UNCHANGED <<calls, activeTab, currentUrl, fills, filled>>
  BY DEF Navigate
<1>2. /\ docs' \in Seq(Pages \union {EmptyPage}) /\ Len(docs') = Len(docs) + 1
      /\ \A d \in 1 .. Len(docs) : docs'[d] = docs[d]
  BY <1>0, <1>1, AppendProperties DEF RecordsInv
<1>3. DOMAIN docs' = 1 .. Len(docs) + 1
  BY <1>2, LenProperties
<1>4. /\ tabs'[t].doc = Len(docs) + 1 /\ tabs'[t].asked = <<>>
      /\ \A u \in Tabs : u # t => tabs'[u] = tabs[u]
      /\ DOMAIN tabs' = Tabs /\ tabs' = [u \in Tabs |-> tabs'[u]]
  BY <1>0, <1>1 DEF RecordsInv
<1>5. [doc |-> Len(docs) + 1, asked |-> <<>>] \in TabRecords
  <2>1. <<>> \in Seq(BOOLEAN)
    OBVIOUS
  <2> QED  BY <1>0, <2>1 DEF TabRecords
<1>6. tabs' \in [Tabs -> TabRecords] /\ \A u \in Tabs : tabs'[u].doc \in DOMAIN docs'
  <2>1. tabs' \in [Tabs -> TabRecords]
    BY <1>0, <1>1, <1>5 DEF RecordsInv
  <2>2. \A u \in Tabs : tabs'[u].doc \in DOMAIN docs'
    BY <1>0, <1>3, <1>4 DEF RecordsInv
  <2> QED  BY <2>1, <2>2
<1>7. RecordsInv'
  BY <1>0, <1>1, <1>2, <1>6 DEF RecordsInv, CallMessage
<1>8. FillsInv'
  BY <1>0, <1>1 DEF FillsInv
<1>9. FindsTo(t)' = {} /\ \A d : Remembered(t, d)'
  <2>1. FindsTo(t)' = {}
    BY <1>1 DEF FindsTo
  <2>2. DOMAIN tabs'[t].asked = {}
    BY <1>4
  <2> QED  BY <2>1, <2>2 DEF Remembered
<1>10. \A u \in Tabs : u # t => FindsTo(u)' = FindsTo(u) /\ \A d : Remembered(u, d) => Remembered(u, d)'
  <2>1. \A u \in Tabs : u # t => \A d : Remembered(u, d) => Remembered(u, d)'
    BY <1>4 DEF Remembered
  <2>2. \A u \in Tabs : u # t => FindsTo(u)' = FindsTo(u)
    BY <1>1 DEF FindsTo
  <2> QED  BY <2>1, <2>2
<1>11. activeTab \in Tabs
  BY <1>0 DEF RecordsInv
<1>12. OrderInv'
  <2>1. ASSUME NEW g \in DOMAIN fills, fills[g].step = "finding"
        PROVE  /\ calls[fills[g].call].peer = activeTab
               /\ \A n \in FindsTo(activeTab)' : n.id <= fills[g].call /\ CallMessage(fills[g].call) \in wire'
               /\ \A m \in wire' : m.type = "rpc-reply" /\ m.id = fills[g].call =>
                    FindsTo(activeTab)' = {} /\ Remembered(activeTab, m.result)'
    <3>1. CASE activeTab = t
      BY <1>0, <1>1, <1>9, <2>1, <3>1 DEF OrderInv, FindsTo, Remembered
    <3>2. CASE activeTab # t
      BY <1>0, <1>1, <1>10, <1>11, <2>1, <3>2 DEF OrderInv, CallMessage
    <3> QED  BY <3>1, <3>2
  <2>2. ASSUME NEW g \in DOMAIN fills, fills[g].step = "found"
        PROVE  FindsTo(activeTab)' = {} /\ Remembered(activeTab, fills[g].asked)'
    BY <1>0, <1>1, <1>9, <1>10, <1>11, <2>2 DEF OrderInv, FindsTo, Remembered
  <2>3. ASSUME NEW m \in wire', NEW g \in DOMAIN fills, m.type = "rpc-call",
               calls[m.id].method = "autofill", fills[g].call = m.id
        PROVE  Remembered(m.peer, fills[g].asked)' /\ \A n \in FindsTo(m.peer)' : m.id < n.id
    <3>1. m \in wire /\ m.peer # t
      BY <1>1, <2>3
    <3>2. m.peer \in Tabs
      BY <1>0, <2>3, <3>1, PageRecords DEF CallRecords, RecordsInv
    <3>3. Remembered(m.peer, fills[g].asked) /\ \A n \in FindsTo(m.peer) : m.id < n.id
      BY <1>0, <2>3, <3>1 DEF OrderInv
    <3> QED  BY <1>1, <1>10, <3>1, <3>2, <3>3 DEF FindsTo, Remembered
  <2> QED  BY <1>1, <2>1, <2>2, <2>3 DEF OrderInv, CallMessage
<1>13. FilledInv'
  BY <1>0, <1>1, <1>2, <1>3 DEF FilledInv, FillsFitThePage
<1> QED  BY <1>7, <1>8, <1>12, <1>13 DEF PageInv

LEMMA ShowPanelKeeps ==
  ASSUME PageInv, ShowPanel PROVE PageInv'
<1>0. RecordsInv /\ FillsInv /\ OrderInv /\ FilledInv /\ activeTab \in Tabs /\ tabs[activeTab] \in TabRecords
  BY PageRecords DEF PageInv, RecordsInv
<1>1. UNCHANGED <<calls, wire, docs, activeTab, fills, filled>>
  BY DEF ShowPanel
<1>2. /\ tabs' \in [Tabs -> TabRecords]
      /\ \A u \in Tabs : /\ tabs'[u].doc = tabs[u].doc
                         /\ (\E s \in DOMAIN tabs'[u].asked : tabs'[u].asked[s])
                            => (\E s \in DOMAIN tabs[u].asked : tabs[u].asked[s])
  <2>1. CASE UNCHANGED tabs
    BY <1>0, <2>1 DEF RecordsInv
  <2>2. CASE tabs' = [tabs EXCEPT ![activeTab].asked = Append(@, FALSE)]
    <3> DEFINE asked == tabs[activeTab].asked
               more == Append(asked, FALSE)
               r == [tabs[activeTab] EXCEPT !.asked = more]
    <3>1. asked \in Seq(BOOLEAN) /\ FALSE \in BOOLEAN
      BY <1>0 DEF TabRecords
    <3>2. more \in Seq(BOOLEAN) /\ Len(more) = Len(asked) + 1 /\ Len(asked) \in Nat
          /\ more[Len(asked) + 1] = FALSE /\ \A s \in 1 .. Len(asked) : more[s] = asked[s]
      BY <3>1, AppendProperties, LenProperties
    <3>3. DOMAIN more = 1 .. Len(asked) + 1 /\ DOMAIN asked = 1 .. Len(asked)
      BY <3>1, <3>2, LenProperties
    <3>4. (\E s \in DOMAIN more : more[s]) => (\E s \in DOMAIN asked : asked[s])
      <4>1. ASSUME NEW s \in DOMAIN more, more[s] PROVE s \in DOMAIN asked /\ asked[s]
        <5>1. s # Len(asked) + 1
          BY <3>2, <4>1
        <5>2. s \in 1 .. Len(asked)
          BY <3>2, <3>3, <5>1
        <5> QED  BY <3>2, <3>3, <4>1, <5>2
      <4> QED  BY <4>1
    <3> HIDE DEF more
    <3>5. r \in TabRecords /\ r.doc = tabs[activeTab].doc /\ r.asked = more
      BY <1>0, <3>2 DEF TabRecords
    <3>6. tabs' = [tabs EXCEPT ![activeTab] = r]
      BY <2>2 DEF more
    <3> HIDE DEF r
    <3>7. tabs' \in [Tabs -> TabRecords] /\ \A u \in Tabs : tabs'[u] = IF u = activeTab THEN r ELSE tabs[u]
      BY <1>0, <3>5, <3>6 DEF RecordsInv
    <3> QED  BY <3>4, <3>5, <3>7
  <2> QED  BY <2>1, <2>2 DEF ShowPanel
<1>3. RecordsInv'
  BY <1>0, <1>1, <1>2 DEF RecordsInv, CallMessage
<1>4. FillsInv'
  BY <1>0, <1>1 DEF FillsInv
<1>5. \A u \in Tabs : FindsTo(u)' = FindsTo(u) /\ \A d : Remembered(u, d) => Remembered(u, d)'
  BY <1>1, <1>2 DEF FindsTo, Remembered
<1>6. \A m \in wire : m.type = "rpc-call" => m.peer \in Tabs
  BY <1>0, PageRecords DEF CallRecords, RecordsInv
<1>7. OrderInv'
  BY <1>0, <1>1, <1>5, <1>6 DEF OrderInv, CallMessage
<1>8. FilledInv'
  BY <1>0, <1>1 DEF FilledInv, FillsFitThePage
<1> QED  BY <1>3, <1>4, <1>7, <1>8 DEF PageInv

LEMMA AutoFillKeeps ==
  ASSUME WaitsForFills, PageInv, AutoFill PROVE PageInv'
<1>0. /\ RecordsInv /\ FillsInv /\ OrderInv /\ FilledInv
      /\ Len(fills) \in Nat /\ DOMAIN fills = 1 .. Len(fills)
  BY PageRecords DEF PageInv
<1> DEFINE new == [step |-> "content", call |-> 0, asked |-> 0]
<1>1. /\ \A g \in DOMAIN fills : fills[g].step \in FillOver
      /\ fills' = Append(fills, new)
      /\ UNCHANGED <<calls, wire, docs, tabs, activeTab, currentUrl, filled>>
  BY DEF AutoFill, Filling
<1>2. new \in FillRecords /\ new.step = "content" /\ new.call = 0
  BY DEF FillRecords
<1> HIDE DEF new
<1>3. /\ fills' \in Seq(FillRecords) /\ Len(fills') = Len(fills) + 1
      /\ \A g \in 1 .. Len(fills) : fills'[g] = fills[g]
      /\ fills'[Len(fills) + 1] = new
  BY <1>0, <1>1, <1>2, AppendProperties DEF RecordsInv
<1>4. DOMAIN fills' = DOMAIN fills \union {Len(fills) + 1} /\ Len(fills) + 1 \notin DOMAIN fills
  BY <1>0, <1>3, LenProperties
<1>5. ASSUME NEW g \in DOMAIN fills'
      PROVE  \/ g \in DOMAIN fills /\ fills'[g] = fills[g] /\ fills[g].step \in FillOver
             \/ g = Len(fills') /\ fills'[g].step = "content" /\ fills'[g].call = 0
  BY <1>0, <1>1, <1>2, <1>3, <1>4
<1>6. RecordsInv'
  BY <1>0, <1>1, <1>3 DEF RecordsInv, CallMessage
<1>7. FillsInv'
  <2>1. \A g \in DOMAIN fills' :
          /\ fills'[g].call # 0 => fills'[g].call \in DOMAIN calls
          /\ fills'[g].step \notin FillOver => g = Len(fills')
          /\ fills'[g].step = "content" => fills'[g].call = 0
          /\ fills'[g].step \notin {"finding", "found", "filling"}
    BY <1>0, <1>5 DEF FillsInv, FillOver, FillEnded, Unconnected
  <2>2. \A g, h \in DOMAIN fills' : fills'[g].call = fills'[h].call => g = h \/ fills'[g].call = 0
    BY <1>0, <1>5 DEF FillsInv
  <2>3. ASSUME NEW id \in DOMAIN calls
        PROVE  /\ calls[id].outcome # "none"
               /\ calls[id].method = "autofill" => \E g \in DOMAIN fills' : fills'[g].call = id
    BY <1>0, <1>1, <1>3, <1>4 DEF FillsInv, FillOver, FillEnded, Unconnected
  <2> QED  BY <1>1, <2>1, <2>2, <2>3 DEF FillsInv
<1>8. OrderInv'
  <2>1. \A g \in DOMAIN fills' : fills'[g].step \notin {"finding", "found"}
    BY <1>5 DEF FillOver, FillEnded, Unconnected
  <2>2. ASSUME NEW m \in wire, NEW g \in DOMAIN fills', m.type = "rpc-call",
               calls[m.id].method = "autofill", fills'[g].call = m.id
        PROVE  Remembered(m.peer, fills'[g].asked) /\ \A n \in FindsTo(m.peer) : m.id < n.id
    <3>1. m.id # 0
      BY <1>0, PageRecords DEF RecordsInv
    <3>2. g \in DOMAIN fills /\ fills'[g] = fills[g]
      BY <1>5, <2>2, <3>1
    <3> QED  BY <1>0, <2>2, <3>2 DEF OrderInv
  <2> QED  BY <1>1, <2>1, <2>2 DEF OrderInv, FindsTo, Remembered
<1>9. FilledInv'
  BY <1>0, <1>1 DEF FilledInv, FillsFitThePage
<1> QED  BY <1>6, <1>7, <1>8, <1>9 DEF PageInv

\* A fill that makes its call, for the fields or to fill them.
LEMMA CallKeeps ==
  ASSUME PageInv, NEW f \in DOMAIN fills, FindForms(f) \/ FillForms(f) PROVE PageInv'
<1>0. RecordsInv /\ FillsInv /\ OrderInv /\ FilledInv
  BY DEF PageInv
<1>1. PICK method \in {"find-fields", "autofill"}, step \in {"finding", "filling"} :
        /\ CallTab(f, method, step)
        /\ \/ fills[f].step = "content" /\ method = "find-fields" /\ step = "finding"
           \/ fills[f].step = "found" /\ method = "autofill" /\ step = "filling"
  BY DEF FindForms, FillForms
<1>2. PICK new \in Nat : new = Len(calls) + 1
  BY <1>0, PageRecords
<1>3. PICK tab \in Tabs : activeTab = tab
  BY <1>0 DEF RecordsInv
<1> DEFINE message == [type |-> "rpc-call", id |-> new, peer |-> tab]
<1>4. /\ calls' \in Seq(CallRecords) /\ DOMAIN calls' = DOMAIN calls \union {new}
      /\ \A id \in DOMAIN calls : calls'[id] = calls[id]
      /\ calls'[new].peer = tab /\ calls'[new].method = method /\ calls'[new].outcome = "none"
      /\ fills' \in Seq(FillRecords) /\ Len(fills') = Len(fills) /\ DOMAIN fills' = DOMAIN fills
      /\ fills'[f].step = step /\ fills'[f].call = new /\ fills'[f].asked = fills[f].asked
      /\ \A g \in DOMAIN fills : g # f => fills'[g] = fills[g]
      /\ wire' = wire \union {message}
      /\ UNCHANGED <<docs, tabs, activeTab, currentUrl, filled>>
  <2>1. /\ calls' \in Seq(CallRecords) /\ DOMAIN calls' = DOMAIN calls \union {Len(calls) + 1}
        /\ \A id \in DOMAIN calls : calls'[id] = calls[id]
        /\ calls'[Len(calls) + 1] = NewCall(activeTab, method)
        /\ fills' \in Seq(FillRecords) /\ Len(fills') = Len(fills) /\ DOMAIN fills' = DOMAIN fills
        /\ fills'[f].step = step /\ fills'[f].call = Len(calls) + 1 /\ fills'[f].asked = fills[f].asked
        /\ \A g \in DOMAIN fills : g # f => fills'[g] = fills[g]
        /\ wire' = wire \union {[type |-> "rpc-call", id |-> Len(calls) + 1, peer |-> activeTab]}
        /\ UNCHANGED <<docs, tabs, activeTab, currentUrl, filled>>
    BY <1>0, <1>1, TabCalled
  <2>2. NewCall(activeTab, method).peer = tab /\ NewCall(activeTab, method).method = method
        /\ NewCall(activeTab, method).outcome = "none"
    BY <1>3 DEF NewCall
  <2>3. message = [type |-> "rpc-call", id |-> Len(calls) + 1, peer |-> activeTab]
    BY <1>2, <1>3
  <2> HIDE DEF message
  <2> QED  BY <1>2, <2>1, <2>2, <2>3
<1>5. /\ DOMAIN calls = 1 .. Len(calls) /\ Len(calls) \in Nat
      /\ new \notin DOMAIN calls /\ new # 0 /\ \A id \in DOMAIN calls : id \in Nat /\ id < new /\ id # 0
      /\ f = Len(fills) /\ \A g \in DOMAIN fills : g # f => fills[g].step \in FillOver
  BY <1>0, <1>1, <1>2, PageRecords DEF FillsInv, FillOver, FillEnded, Unconnected
<1>6. message.type = "rpc-call" /\ message.id = new /\ message.peer = tab /\ CallMessage(new)' = message
  BY <1>4 DEF CallMessage
<1>7. \A id \in DOMAIN calls : CallMessage(id)' = CallMessage(id)
  BY <1>4 DEF CallMessage
<1> HIDE DEF message
<1>8. RecordsInv'
  <2>1. ASSUME NEW m \in wire'
        PROVE  m.id \in DOMAIN calls' /\ (m = CallMessage(m.id)' \/ (m.type = "rpc-reply" /\ m.result \in Nat))
    BY <1>0, <1>4, <1>6, <1>7 DEF RecordsInv
  <2> QED  BY <1>0, <1>4, <2>1 DEF RecordsInv, CallMessage
<1>9. \A g \in DOMAIN fills : fills[g].call # new
  BY <1>0, <1>5 DEF FillsInv
<1>10. FillsInv'
  <2>1. ASSUME NEW g \in DOMAIN fills
        PROVE  /\ fills'[g].call # 0 => fills'[g].call \in DOMAIN calls'
               /\ fills'[g].step \notin FillOver => g = Len(fills')
               /\ fills'[g].step = "finding" => /\ fills'[g].call # 0 /\ calls'[fills'[g].call].outcome = "none"
                                                /\ calls'[fills'[g].call].method = "find-fields"
               /\ fills'[g].step \notin {"content", "found"}
               /\ fills'[g].step = "filling" => /\ fills'[g].call # 0 /\ calls'[fills'[g].call].outcome = "none"
                                                /\ calls'[fills'[g].call].method = "autofill"
    <3>1. CASE g = f
      BY <1>1, <1>4, <1>5, <3>1
    <3>2. CASE g # f
      BY <1>0, <1>4, <1>5, <3>2 DEF FillsInv, FillOver, FillEnded, Unconnected
    <3> QED  BY <3>1, <3>2
  <2>2. \A g, h \in DOMAIN fills : fills'[g].call = fills'[h].call => g = h \/ fills'[g].call = 0
    BY <1>0, <1>4, <1>9 DEF FillsInv
  <2>3. ASSUME NEW id \in DOMAIN calls'
        PROVE  /\ calls'[id].outcome = "none" =>
                    \E g \in DOMAIN fills : fills'[g].call = id /\ fills'[g].step \in {"finding", "filling"}
               /\ calls'[id].method = "autofill" => \E g \in DOMAIN fills : fills'[g].call = id
    <3>1. CASE id = new
      BY <1>4, <3>1
    <3>2. CASE id # new
      <4>1. id \in DOMAIN calls /\ calls'[id] = calls[id]
        BY <1>4, <2>3, <3>2
      <4>2. calls[id].outcome # "none"
        BY <1>0, <1>1, <1>5, <4>1 DEF FillsInv, FillOver, FillEnded, Unconnected
      <4>3. calls[id].method = "autofill" => fills[f].call # id
        BY <1>0, <1>1, <1>5, <4>1 DEF FillsInv
      <4> QED  BY <1>0, <1>4, <4>1, <4>2, <4>3 DEF FillsInv
    <3> QED  BY <3>1, <3>2
  <2> QED  BY <1>4, <2>1, <2>2, <2>3 DEF FillsInv
<1>11. OrderInv'
  <2>1. \A u \in Tabs : \A d : Remembered(u, d)' <=> Remembered(u, d)
    BY <1>4 DEF Remembered
  <2>2. ASSUME NEW u \in Tabs, NEW n \in FindsTo(u)'
        PROVE  n \in FindsTo(u) \/ (n.id = new /\ u = tab /\ method = "find-fields")
    <3>1. n \in wire' /\ n.type = "rpc-call" /\ n.peer = u /\ calls'[n.id].method = "find-fields"
      BY <2>2 DEF FindsTo
    <3>2. CASE n = message
      BY <1>4, <1>6, <3>1, <3>2
    <3>3. CASE n \in wire
      BY <1>0, <1>4, <3>1, <3>3 DEF FindsTo, RecordsInv
    <3> QED  BY <1>4, <3>1, <3>2, <3>3
  <2>3. ASSUME NEW g \in DOMAIN fills, fills'[g].step = "finding"
        PROVE  /\ calls'[fills'[g].call].peer = tab
               /\ \A n \in FindsTo(tab)' : n.id <= fills'[g].call
               /\ [type |-> "rpc-call", id |-> fills'[g].call, peer |-> calls'[fills'[g].call].peer] \in wire'
               /\ \A m \in wire' : ~(m.type = "rpc-reply" /\ m.id = fills'[g].call)
    <3>1. g = f
      BY <1>4, <1>5, <2>3 DEF FillOver, FillEnded, Unconnected
    <3>2. \A n \in FindsTo(tab)' : n.id <= new
      BY <1>0, <1>2, <1>5, <2>2 DEF FindsTo, RecordsInv
    <3>3. [type |-> "rpc-call", id |-> fills'[g].call, peer |-> calls'[fills'[g].call].peer] = message
      BY <1>4, <3>1 DEF message
    <3>4. \A m \in wire' : ~(m.type = "rpc-reply" /\ m.id = new)
      BY <1>0, <1>4, <1>5, <1>6 DEF RecordsInv
    <3> QED  BY <1>4, <3>1, <3>2, <3>3, <3>4
  <2>4. \A g \in DOMAIN fills : fills'[g].step # "found"
    BY <1>1, <1>4, <1>5 DEF FillOver, FillEnded, Unconnected
  <2>5. ASSUME NEW m \in wire', NEW g \in DOMAIN fills, m.type = "rpc-call",
               calls'[m.id].method = "autofill", fills'[g].call = m.id
        PROVE  Remembered(m.peer, fills'[g].asked) /\ \A n \in FindsTo(m.peer)' : m.id < n.id
    <3>1. CASE m = message
      <4>1. method = "autofill" /\ g = f /\ fills[f].step = "found"
        BY <1>0, <1>1, <1>4, <1>6, <1>9, <2>5, <3>1
      <4>2. FindsTo(tab) = {} /\ Remembered(tab, fills[f].asked)
        BY <1>0, <1>3, <4>1 DEF OrderInv
      <4> QED  BY <1>4, <1>6, <2>2, <3>1, <4>1, <4>2
    <3>2. CASE m # message
      <4>1. m \in wire /\ m.id \in DOMAIN calls /\ calls[m.id].method = "autofill" /\ m.peer \in Tabs
        BY <1>0, <1>4, <2>5, <3>2, PageRecords DEF RecordsInv, CallRecords
      <4>2. g # f /\ fills'[g] = fills[g]
        BY <1>4, <1>5, <2>5, <4>1
      <4>3. Remembered(m.peer, fills[g].asked) /\ \A n \in FindsTo(m.peer) : m.id < n.id
        BY <1>0, <2>5, <4>1, <4>2 DEF OrderInv
      <4> QED  BY <1>5, <2>2, <4>1, <4>2, <4>3
    <3> QED  BY <3>1, <3>2
  <2>6. \A m \in wire' : m.type = "rpc-call" => m.peer \in Tabs
    BY <1>0, <1>4, <1>6, PageRecords DEF RecordsInv, CallRecords
  <2> QED
    <3>1. activeTab' = tab
      BY <1>3, <1>4
    <3> QED  BY <1>4, <2>1, <2>3, <2>4, <2>5, <2>6, <3>1 DEF OrderInv, FindsTo, Remembered, CallMessage
<1>12. FilledInv'
  BY <1>0, <1>4 DEF FilledInv, FillsFitThePage
<1> QED  BY <1>8, <1>10, <1>11, <1>12 DEF PageInv

LEMMA UncalledKeeps ==
  ASSUME PageInv, NEW f \in DOMAIN fills, NEW from \in {"content", "found"}, NEW end \in FillOver,
         EndsUncalled(f, from, end)
  PROVE  PageInv'
<1>0. /\ RecordsInv /\ FillsInv /\ OrderInv /\ FilledInv
      /\ fills \in Seq(FillRecords) /\ fills[f] \in FillRecords
      /\ Len(fills) \in Nat /\ DOMAIN fills = 1 .. Len(fills)
  BY PageRecords DEF PageInv, RecordsInv
<1>1. /\ fills[f].step = from /\ fills' = [fills EXCEPT ![f].step = end]
      /\ UNCHANGED <<calls, wire, docs, tabs, activeTab, currentUrl, filled>>
  BY DEF EndsUncalled
<1> DEFINE r == [fills[f] EXCEPT !.step = end]
<1>2. r \in FillRecords /\ r.step = end /\ r.call = fills[f].call /\ r.asked = fills[f].asked
  <2>1. fills[f] \in FillRecords
    BY <1>0
  <2> QED  BY <2>1 DEF FillRecords, FillOver, FillEnded, Unconnected
<1>3. fills' = [fills EXCEPT ![f] = r]
  BY <1>1
<1> HIDE DEF r
<1>4. /\ fills' \in Seq(FillRecords) /\ Len(fills') = Len(fills)
      /\ \A g \in 1 .. Len(fills) : fills'[g] = IF g = f THEN r ELSE fills[g]
  BY <1>0, <1>2, <1>3, ExceptSeq
<1>5. DOMAIN fills' = DOMAIN fills
  BY <1>0, <1>4, LenProperties
<1>6. /\ \A g \in DOMAIN fills : fills'[g].call = fills[g].call /\ fills'[g].asked = fills[g].asked
      /\ \A g \in DOMAIN fills : fills'[g].step = IF g = f THEN end ELSE fills[g].step
  BY <1>0, <1>2, <1>4
<1>7. RecordsInv'
  BY <1>0, <1>1, <1>4 DEF RecordsInv, CallMessage
<1>8. FillsInv'
  <2>1. ASSUME NEW id \in DOMAIN calls, calls[id].outcome = "none"
        PROVE  \E g \in DOMAIN fills : fills'[g].call = id /\ fills'[g].step \in {"finding", "filling"}
    <3>1. PICK g \in DOMAIN fills : fills[g].call = id /\ fills[g].step \in {"finding", "filling"}
      BY <1>0, <2>1 DEF FillsInv
    <3> QED  BY <1>1, <1>6, <3>1
  <2>2. \A id \in DOMAIN calls : calls[id].method = "autofill" => \E g \in DOMAIN fills : fills'[g].call = id
    BY <1>0, <1>6 DEF FillsInv
  <2>3. \A g, h \in DOMAIN fills : fills'[g].call = fills'[h].call => g = h \/ fills'[g].call = 0
    BY <1>0, <1>6 DEF FillsInv
  <2>4. \A g \in DOMAIN fills :
       /\ fills'[g].call # 0 => fills'[g].call \in DOMAIN calls
       /\ fills'[g].step \notin FillOver => g = Len(fills')
       /\ fills'[g].step = "content" => fills'[g].call = 0
       /\ fills'[g].step = "finding" => /\ fills'[g].call # 0 /\ calls[fills'[g].call].outcome = "none"
                                        /\ calls[fills'[g].call].method = "find-fields"
       /\ fills'[g].step = "found" => fills'[g].call # 0 /\ calls[fills'[g].call].method = "find-fields"
       /\ fills'[g].step = "filling" => /\ fills'[g].call # 0 /\ calls[fills'[g].call].outcome = "none"
                                        /\ calls[fills'[g].call].method = "autofill"
    <3>1. end \notin {"content", "finding", "found", "filling"}
      BY DEF FillOver, FillEnded, Unconnected
    <3> QED  BY <1>0, <1>4, <1>6, <3>1 DEF FillsInv
  <2> QED  BY <1>1, <1>5, <2>1, <2>2, <2>3, <2>4 DEF FillsInv
<1>9. OrderInv'
  <2>1. end \notin {"finding", "found"}
    BY DEF FillOver, FillEnded, Unconnected
  <2>2. \A g \in DOMAIN fills : fills'[g].step \in {"finding", "found"} => fills'[g].step = fills[g].step
    BY <1>6, <2>1
  <2>3. /\ \A t : FindsTo(t)' = FindsTo(t)
        /\ \A t, d : Remembered(t, d)' = Remembered(t, d)
        /\ \A id : CallMessage(id)' = CallMessage(id)
    BY <1>1 DEF FindsTo, Remembered, CallMessage
  <2>4. UNCHANGED <<calls, wire, activeTab>>
    BY <1>1
  <2> QED  BY <1>0, <1>5, <1>6, <2>2, <2>3, <2>4 DEF OrderInv
<1>10. FilledInv'
  BY <1>0, <1>1 DEF FilledInv, FillsFitThePage
<1> QED  BY <1>7, <1>8, <1>9, <1>10 DEF PageInv

LEMMA UncalledEndsKeep ==
  ASSUME PageInv, NEW f \in DOMAIN fills, ContentFails(f) \/ ConnectFails(f) PROVE PageInv'
<1>1. "content" \in {"content", "found"} /\ "found" \in {"content", "found"}
      /\ "failed" \in FillOver /\ Unconnected \in FillOver
  BY DEF FillOver, FillEnded
<1> QED  BY <1>1, UncalledKeeps DEF ContentFails, ConnectFails

\* The scripts of a tab answer the first call on the way to it.
LEMMA HandleFindFieldsKeeps ==
  ASSUME PageInv, NEW m \in wire, HandleFindFields(m) PROVE PageInv'
<1>0. RecordsInv /\ FillsInv /\ OrderInv /\ FilledInv
  BY DEF PageInv
<1>1. /\ m.type = "rpc-call" /\ calls[m.id].method = "find-fields"
      /\ \A n \in wire : n.type = "rpc-call" /\ n.peer = m.peer => m.id <= n.id
      /\ UNCHANGED <<calls, docs, activeTab, currentUrl, fills, filled>>
  BY DEF HandleFindFields, Receives
<1>2. m.id \in DOMAIN calls /\ m.id \in Nat /\ m = CallMessage(m.id) /\ m.peer = calls[m.id].peer /\ m.peer \in Tabs
  BY <1>0, <1>1, PageRecords DEF RecordsInv, CallRecords
<1>3. PICK t \in Tabs : m.peer = t
  BY <1>2
<1>4. tabs[t] \in TabRecords /\ tabs[t].asked \in Seq(BOOLEAN) /\ tabs[t].doc \in Nat
  BY <1>0, PageRecords DEF TabRecords
<1> DEFINE scripts == DOMAIN tabs[t].asked
           all == [s \in scripts |-> TRUE]
           r == [tabs[t] EXCEPT !.asked = all]
           replies == {ReplyOf(m, s, tabs[t].doc) : s \in scripts}
<1>5. tabs' = [tabs EXCEPT ![t] = r] /\ wire' = (wire \ {m}) \union replies
  BY <1>3 DEF HandleFindFields
<1>6. all \in Seq(BOOLEAN)
  <2>1. scripts = 1 .. Len(tabs[t].asked) /\ Len(tabs[t].asked) \in Nat
    BY <1>4, LenProperties
  <2> QED  BY <2>1, IsASeq
<1>7. r \in TabRecords /\ r.doc = tabs[t].doc
  <2> HIDE DEF all
  <2> QED  BY <1>4, <1>6 DEF TabRecords
<1>8. \A n \in replies : n.type = "rpc-reply" /\ n.id = m.id /\ n.result = tabs[t].doc
  BY DEF ReplyOf
<1> HIDE DEF scripts, all, r, replies
<1>9. /\ tabs' \in [Tabs -> TabRecords] /\ \A u \in Tabs : tabs'[u].doc = tabs[u].doc
      /\ \A u \in Tabs : u # t => tabs'[u] = tabs[u]
  BY <1>0, <1>5, <1>7 DEF RecordsInv
<1>10. RecordsInv'
  <2>1. \A n \in wire' : n.id \in DOMAIN calls /\ (n = CallMessage(n.id) \/ (n.type = "rpc-reply" /\ n.result \in Nat))
    BY <1>0, <1>2, <1>4, <1>5, <1>8 DEF RecordsInv
  <2> QED  BY <1>0, <1>1, <1>9, <2>1 DEF RecordsInv, CallMessage
<1>11. FillsInv'
  BY <1>0, <1>1 DEF FillsInv
<1>12. \A u \in Tabs : FindsTo(u)' = FindsTo(u) \ {m}
  <2>1. ASSUME NEW u \in Tabs, NEW n PROVE n \in FindsTo(u)' <=> n \in FindsTo(u) \ {m}
    BY <1>1, <1>5, <1>8 DEF FindsTo
  <2> QED  BY <2>1
<1>13. \A u \in Tabs : u # t => \A d : Remembered(u, d)' <=> Remembered(u, d)
  BY <1>9 DEF Remembered
<1>14. Remembered(t, tabs[t].doc)'
  BY <1>9 DEF Remembered
<1>15. PICK tab \in Tabs : activeTab = tab /\ activeTab' = tab
  BY <1>0, <1>1 DEF RecordsInv
<1>16. m \in FindsTo(t)
  BY <1>1, <1>3 DEF FindsTo
<1>17. \A n \in wire : n.type = "rpc-call" /\ n.id = m.id => n = m
  BY <1>0, <1>2, PageRecords
<1>18. ASSUME NEW g \in DOMAIN fills, fills[g].step = "finding"
       PROVE  /\ calls[fills[g].call].peer = tab
              /\ \A n \in FindsTo(tab)' : n.id <= fills[g].call /\ CallMessage(fills[g].call) \in wire'
              /\ \A n \in wire' : n.type = "rpc-reply" /\ n.id = fills[g].call =>
                   FindsTo(tab)' = {} /\ Remembered(tab, n.result)'
  <2>1. PICK c \in DOMAIN calls : c = fills[g].call
    BY <1>0, <1>18 DEF FillsInv
  <2>2. /\ calls[c].peer = tab
        /\ \A n \in FindsTo(tab) : n.id <= c /\ CallMessage(c) \in wire
        /\ \A n \in wire : n.type = "rpc-reply" /\ n.id = c => FindsTo(tab) = {} /\ Remembered(tab, n.result)
    BY <1>0, <1>15, <1>18, <2>1 DEF OrderInv
  <2>3. CASE t # tab
    <3>1. FindsTo(tab)' = FindsTo(tab)
      BY <1>3, <1>12, <2>3 DEF FindsTo
    <3>2. m.id # c
      BY <1>2, <1>3, <2>2, <2>3
    <3>3. \A n \in wire' : n.type = "rpc-reply" /\ n.id = c => n \in wire
      BY <1>5, <1>8, <3>2
    <3>4. CallMessage(c) \in wire => CallMessage(c) \in wire'
      BY <1>2, <1>5, <3>2 DEF CallMessage
    <3> QED  BY <1>13, <2>1, <2>2, <2>3, <3>1, <3>3, <3>4
  <2>4. CASE t = tab
    <3>1. CASE m.id = c
      <4>1. \A n \in FindsTo(tab) : n = m
        <5>1. ASSUME NEW n \in FindsTo(tab) PROVE n = m
          <6>1. n \in wire /\ n.type = "rpc-call" /\ n.peer = tab
            BY <5>1 DEF FindsTo
          <6>2. n.id <= m.id /\ m.id <= n.id /\ n.id \in Nat
            BY <1>0, <1>1, <1>3, <2>2, <2>4, <3>1, <5>1, <6>1, PageRecords DEF RecordsInv
          <6> QED  BY <1>2, <1>17, <6>1, <6>2
        <5> QED  BY <5>1
      <4>2. FindsTo(tab)' = {}
        BY <1>12, <4>1
      <4>3. \A n \in wire' : n.type = "rpc-reply" /\ n.id = c => n.result = tabs[t].doc
        <5>1. \A n \in wire : ~(n.type = "rpc-reply" /\ n.id = c)
          BY <1>16, <2>2, <2>4
        <5> QED  BY <1>5, <1>8, <5>1
      <4>4. \A n \in wire' : n.type = "rpc-reply" /\ n.id = c => Remembered(tab, n.result)'
        BY <1>9, <2>4, <4>3 DEF Remembered
      <4> QED  BY <2>1, <2>2, <4>2, <4>4
    <3>2. CASE m.id # c
      <4>1. \A n \in wire' : n.type = "rpc-reply" => n.id # c
        BY <1>5, <1>8, <1>16, <2>2, <2>4, <3>2
      <4>2. CallMessage(c) \in wire => CallMessage(c) \in wire'
        BY <1>2, <1>5, <3>2 DEF CallMessage
      <4> QED  BY <1>12, <2>1, <2>2, <4>1, <4>2
    <3> QED  BY <3>1, <3>2
  <2> QED  BY <2>3, <2>4
<1>19. ASSUME NEW g \in DOMAIN fills, fills[g].step = "found"
       PROVE  FindsTo(tab)' = {} /\ Remembered(tab, fills[g].asked)'
  <2>1. FindsTo(tab) = {} /\ Remembered(tab, fills[g].asked)
    BY <1>0, <1>15, <1>19 DEF OrderInv
  <2>2. t # tab
    BY <1>16, <2>1
  <2>3. FindsTo(tab)' = {}
    BY <1>12, <2>1
  <2> QED  BY <1>1, <1>9, <2>1, <2>2, <2>3 DEF Remembered
<1>20. ASSUME NEW n \in wire', NEW g \in DOMAIN fills, n.type = "rpc-call",
              calls[n.id].method = "autofill", fills[g].call = n.id
       PROVE  n.peer \in Tabs /\ Remembered(n.peer, fills[g].asked)' /\ \A k \in FindsTo(n.peer)' : n.id < k.id
  <2>1. n \in wire /\ n.peer \in Tabs
    BY <1>0, <1>5, <1>8, <1>20, PageRecords DEF RecordsInv, CallRecords
  <2>2. Remembered(n.peer, fills[g].asked) /\ \A k \in FindsTo(n.peer) : n.id < k.id
    BY <1>0, <1>20, <2>1 DEF OrderInv
  <2>3. n.peer # t
    <3>1. ASSUME n.peer = t PROVE FALSE
      <4>1. n.id < m.id /\ m.id <= n.id /\ n.id \in Nat
        BY <1>0, <1>1, <1>3, <1>16, <1>20, <2>1, <2>2, <3>1, PageRecords DEF RecordsInv
      <4> QED  BY <1>2, <4>1
    <3> QED  BY <3>1
  <2>4. \A k \in FindsTo(n.peer)' : n.id < k.id
    BY <1>12, <2>1, <2>2
  <2> QED  BY <1>1, <1>9, <2>1, <2>2, <2>3, <2>4 DEF Remembered
<1>21. OrderInv'
  BY <1>1, <1>15, <1>18, <1>19, <1>20 DEF OrderInv, FindsTo, Remembered, CallMessage
<1>22. FilledInv'
  BY <1>0, <1>1 DEF FilledInv, FillsFitThePage
<1> QED  BY <1>10, <1>11, <1>21, <1>22 DEF PageInv

\* The pages on which the field that is taken for the account for want of a better one is
\* not one for a password: a text field with the name `password' is both.
GuessesAreNoPasswords == \A p \in Pages : \A k \in Guessed(p.form) : ~IsPasswordField(p.form[k])

\* The entries that are made for a page fit it.
LEMMA EntriesFit ==
  ASSUME GuessesAreNoPasswords, NEW p \in Pages \union {EmptyPage}, NEW e \in Entries(p.form)
  PROVE  /\ p.form[e[1]].visible
         /\ e[2] = "password" <=> IsPasswordField(p.form[e[1]])
<1>1. e \in Passwords(p.form) \X {"password"}
      \/ e \in (Usernames(p.form) \union Guessed(p.form)) \X {"account"}
  BY DEF Entries
<1>2. CASE e \in Passwords(p.form) \X {"password"}
  BY <1>2 DEF Passwords, Shown
<1>3. CASE e \in (Usernames(p.form) \union Guessed(p.form)) \X {"account"}
  <2>1. e[2] = "account" /\ (e[1] \in Usernames(p.form) \/ e[1] \in Guessed(p.form))
    BY <1>3
  <2>2. CASE e[1] \in Usernames(p.form)
    BY <2>1, <2>2 DEF Usernames, Shown, IsUsernameField
  <2>3. CASE e[1] \in Guessed(p.form)
    <3>1. e[1] \in Candidates(p.form)
      BY <2>3 DEF Guessed
    <3>2. p.form[e[1]].visible /\ e[1] \in DOMAIN p.form
      BY <3>1 DEF Candidates, Shown
    <3>3. p \in Pages
      <4>1. p = EmptyPage => DOMAIN p.form = {}
        BY DEF EmptyPage
      <4> QED  BY <3>2, <4>1
    <3> QED  BY <2>1, <2>3, <3>2, <3>3 DEF GuessesAreNoPasswords
  <2> QED  BY <2>1, <2>2, <2>3
<1> QED  BY <1>1, <1>2, <1>3

LEMMA HandleAutofillKeeps ==
  ASSUME GuessesAreNoPasswords, PageInv, NEW m \in wire, HandleAutofill(m) PROVE PageInv'
<1>0. RecordsInv /\ FillsInv /\ OrderInv /\ FilledInv
  BY DEF PageInv
<1>1. /\ m.type = "rpc-call" /\ calls[m.id].method = "autofill"
      /\ UNCHANGED <<calls, docs, tabs, activeTab, currentUrl, fills>>
  BY DEF HandleAutofill, HandleAutofillBy, Receives
<1>2. m.id \in DOMAIN calls /\ m.id \in Nat /\ m = CallMessage(m.id) /\ m.peer = calls[m.id].peer /\ m.peer \in Tabs
  BY <1>0, <1>1, PageRecords DEF RecordsInv, CallRecords
<1>3. PICK t \in Tabs : m.peer = t
  BY <1>2
<1>4. PICK g \in DOMAIN fills : fills[g].call = m.id /\ g = CHOOSE h \in DOMAIN fills : fills[h].call = m.id
  <2>1. \E g \in DOMAIN fills : fills[g].call = m.id
    BY <1>0, <1>1, <1>2 DEF FillsInv
  <2> QED  BY <2>1
<1> DEFINE scripts == DOMAIN tabs[t].asked
           replies == {ReplyOf(m, s, 0) : s \in scripts}
           entries == {[doc |-> tabs[t].doc, asked |-> fills[g].asked, key |-> e[1], value |-> e[2]] :
                         e \in {d \in Entries(docs[fills[g].asked].form) : d[1] \in DOMAIN docs[tabs[t].doc].form}}
<1>5. /\ filled' = filled \union (IF \E s \in scripts : tabs[t].asked[s] THEN entries ELSE {})
      /\ wire' = (wire \ {m}) \union replies
  BY <1>3, <1>4 DEF HandleAutofill, HandleAutofillBy
<1>6. \A n \in replies : n.type = "rpc-reply" /\ n.id = m.id /\ n.result \in Nat
  BY DEF ReplyOf
<1> HIDE DEF scripts, replies, entries
<1>7. RecordsInv'
  <2>1. \A n \in wire' : n.id \in DOMAIN calls /\ (n = CallMessage(n.id) \/ (n.type = "rpc-reply" /\ n.result \in Nat))
    BY <1>0, <1>2, <1>5, <1>6 DEF RecordsInv
  <2> QED  BY <1>0, <1>1, <2>1 DEF RecordsInv, CallMessage
<1>8. FillsInv'
  BY <1>0, <1>1 DEF FillsInv
<1>9. OrderInv'
  <2>1. ASSUME NEW u PROVE FindsTo(u)' = FindsTo(u)
    BY <1>1, <1>5, <1>6 DEF FindsTo
  <2>2. \A n \in wire' : n.type = "rpc-call" => n \in wire
    BY <1>5, <1>6
  <2>3. ASSUME NEW h \in DOMAIN fills, fills[h].step = "finding"
        PROVE  /\ CallMessage(fills[h].call) \in wire => CallMessage(fills[h].call) \in wire'
               /\ \A n \in wire' : n.type = "rpc-reply" /\ n.id = fills[h].call => n \in wire
    <3>1. fills[h].call # m.id
      BY <1>0, <1>1, <2>3 DEF FillsInv
    <3> QED  BY <1>2, <1>5, <1>6, <3>1 DEF CallMessage
  <2>4. PICK tab \in Tabs : activeTab = tab /\ activeTab' = tab
    BY <1>0, <1>1 DEF RecordsInv
  <2>5. /\ \A u \in Tabs, d \in Nat : Remembered(u, d)' <=> Remembered(u, d)
        /\ \A h \in DOMAIN fills : fills[h].asked \in Nat
    BY <1>0, <1>1, PageRecords DEF Remembered, FillRecords
  <2>6. ASSUME NEW h \in DOMAIN fills
        PROVE  /\ fills[h].step = "finding" =>
                    /\ calls[fills[h].call].peer = tab
                    /\ \A n \in FindsTo(tab)' : n.id <= fills[h].call /\ CallMessage(fills[h].call) \in wire'
                    /\ \A n \in wire' : n.type = "rpc-reply" /\ n.id = fills[h].call =>
                         FindsTo(tab)' = {} /\ Remembered(tab, n.result)
               /\ fills[h].step = "found" => FindsTo(tab)' = {} /\ Remembered(tab, fills[h].asked)
    BY <1>0, <2>1, <2>3, <2>4 DEF OrderInv
  <2>7. ASSUME NEW n \in wire', NEW h \in DOMAIN fills, n.type = "rpc-call",
               calls[n.id].method = "autofill", fills[h].call = n.id
        PROVE  Remembered(n.peer, fills[h].asked) /\ \A k \in FindsTo(n.peer)' : n.id < k.id
    BY <1>0, <2>1, <2>2, <2>7 DEF OrderInv
  <2> QED  BY <1>1, <2>4, <2>6, <2>7 DEF OrderInv, FindsTo, Remembered, CallMessage
<1>10. FilledInv'
  <2>1. ASSUME NEW e \in filled' \ filled
        PROVE  /\ e.doc = e.asked /\ e.doc \in DOMAIN docs
               /\ docs[e.doc].form[e.key].visible
               /\ e.value = "password" <=> IsPasswordField(docs[e.doc].form[e.key])
    <3>1. e \in entries /\ \E s \in scripts : tabs[t].asked[s]
      BY <1>5, <2>1
    <3>2. tabs[t].doc = fills[g].asked /\ tabs[t].doc \in DOMAIN docs
      BY <1>0, <1>1, <1>3, <1>4, <3>1 DEF OrderInv, Remembered, RecordsInv, scripts
    <3>3. PICK d \in Entries(docs[tabs[t].doc].form) :
            e = [doc |-> tabs[t].doc, asked |-> tabs[t].doc, key |-> d[1], value |-> d[2]]
      BY <3>1, <3>2 DEF entries
    <3>4. docs[tabs[t].doc] \in Pages \union {EmptyPage}
      BY <1>0, <3>2, PageRecords, ElementOfSeq DEF RecordsInv
    <3>5. /\ docs[tabs[t].doc].form[d[1]].visible
          /\ d[2] = "password" <=> IsPasswordField(docs[tabs[t].doc].form[d[1]])
      BY <3>3, <3>4, EntriesFit
    <3> QED  BY <3>2, <3>3, <3>5
  <2> QED  BY <1>0, <1>1, <2>1 DEF FilledInv, FillsFitThePage
<1> QED  BY <1>7, <1>8, <1>9, <1>10 DEF PageInv

\* A call that is settled, by an answer or by its timer.
LEMMA CallbackKeeps ==
  ASSUME PageInv, NEW id \in DOMAIN calls, NEW outcome \in Outcomes \ {"none"}, NEW timer \in {"fired", "cleared"},
         NEW ok \in BOOLEAN, NEW result \in Nat, NEW gone \in SUBSET wire,
         RunCallback(id, outcome, timer), Settle(id, ok, result),
         wire' = wire \ gone, \A n \in gone : n.type = "rpc-reply",
         ok => \E n \in wire : n.type = "rpc-reply" /\ n.id = id /\ n.result = result,
         UNCHANGED <<docs, tabs, activeTab, currentUrl, filled>>
  PROVE  PageInv'
<1>0. RecordsInv /\ FillsInv /\ OrderInv /\ FilledInv
  BY DEF PageInv
<1>1. /\ calls' \in Seq(CallRecords) /\ DOMAIN calls' = DOMAIN calls /\ Len(calls') = Len(calls)
      /\ \A k \in DOMAIN calls : calls'[k].peer = calls[k].peer /\ calls'[k].method = calls[k].method
      /\ \A k \in DOMAIN calls : k # id => calls'[k] = calls[k]
      /\ calls'[id].outcome # "none"
  BY <1>0, CallbackRan
<1>2. \A k \in DOMAIN calls : CallMessage(k)' = CallMessage(k)
  BY <1>1 DEF CallMessage
<1>3. PICK tab \in Tabs : activeTab = tab /\ activeTab' = tab
  BY <1>0 DEF RecordsInv
<1>4. ASSUME NEW u PROVE FindsTo(u)' = FindsTo(u)
  <2>1. \A n \in wire : n.type = "rpc-call" => n \in wire' /\ calls'[n.id].method = calls[n.id].method
    BY <1>0, <1>1 DEF RecordsInv
  <2>2. wire' \subseteq wire
    OBVIOUS
  <2> QED  BY <2>1, <2>2 DEF FindsTo
<1>5. \A u, d : Remembered(u, d)' <=> Remembered(u, d)
  BY DEF Remembered
<1>6. FilledInv'
  BY <1>0 DEF FilledInv, FillsFitThePage
<1>7. /\ \A n \in wire' : n \in wire
      /\ \A n \in wire : n.type # "rpc-reply" => n \in wire'
  OBVIOUS
<1>8. fills' \in Seq(FillRecords) => RecordsInv'
  <2>1. \A n \in wire' : n.id \in DOMAIN calls' /\ (n = CallMessage(n.id)' \/ (n.type = "rpc-reply" /\ n.result \in Nat))
    BY <1>0, <1>1, <1>2, <1>7 DEF RecordsInv
  <2> QED  BY <1>0, <1>1, <2>1 DEF RecordsInv, CallMessage
<1>9. CASE calls[id].outcome # "none"
  <2>1. fills' = fills
    BY <1>9 DEF Settle
  <2>2. FillsInv'
    BY <1>0, <1>1, <1>9, <2>1 DEF FillsInv
  <2>3. ASSUME NEW h \in DOMAIN fills
        PROVE  /\ fills[h].step = "finding" =>
                    /\ calls'[fills[h].call].peer = tab
                    /\ \A n \in FindsTo(tab)' : n.id <= fills[h].call /\ CallMessage(fills[h].call)' \in wire'
                    /\ \A n \in wire' : n.type = "rpc-reply" /\ n.id = fills[h].call =>
                         FindsTo(tab)' = {} /\ Remembered(tab, n.result)
               /\ fills[h].step = "found" => FindsTo(tab)' = {} /\ Remembered(tab, fills[h].asked)
    <3>1. CASE fills[h].step = "finding"
      <4>1. PICK c \in DOMAIN calls : c = fills[h].call
        BY <1>0, <3>1 DEF FillsInv
      <4>2. CallMessage(c)' = CallMessage(c) /\ CallMessage(c).type = "rpc-call"
        BY <1>2 DEF CallMessage
      <4>3. /\ calls'[c].peer = tab
            /\ \A n \in FindsTo(tab) : n.id <= c /\ CallMessage(c)' \in wire'
            /\ \A n \in wire' : n.type = "rpc-reply" /\ n.id = c => FindsTo(tab) = {} /\ Remembered(tab, n.result)
        BY <1>0, <1>1, <1>3, <1>7, <3>1, <4>1, <4>2 DEF OrderInv
      <4>4. FindsTo(tab)' = FindsTo(tab)
        BY <1>4
      <4>5. CallMessage(c)' = CallMessage(fills[h].call)'
        BY <2>1, <4>1 DEF CallMessage
      <4> QED  BY <3>1, <4>1, <4>3, <4>4, <4>5
    <3>2. CASE fills[h].step # "finding"
      BY <1>0, <1>3, <1>4, <3>2 DEF OrderInv
    <3> QED  BY <3>1, <3>2
  <2>4. ASSUME NEW n \in wire', NEW h \in DOMAIN fills, n.type = "rpc-call",
               calls'[n.id].method = "autofill", fills[h].call = n.id
        PROVE  Remembered(n.peer, fills[h].asked) /\ \A k \in FindsTo(n.peer)' : n.id < k.id
    BY <1>0, <1>1, <1>4, <1>7, <2>4 DEF OrderInv, RecordsInv
  <2>5. OrderInv'
    BY <1>3, <2>1, <2>3, <2>4 DEF OrderInv, FindsTo, Remembered, CallMessage
  <2> QED  BY <1>0, <1>6, <1>8, <2>1, <2>2, <2>5 DEF PageInv, RecordsInv
<1>10. CASE calls[id].outcome = "none"
  <2>1. PICK f \in DOMAIN fills :
           /\ fills[f].call = id /\ fills[f].step \in {"finding", "filling"} /\ f = Len(fills)
           /\ fills' \in Seq(FillRecords) /\ Len(fills') = Len(fills) /\ DOMAIN fills' = DOMAIN fills
           /\ \A g \in DOMAIN fills : g # f => fills'[g] = fills[g]
           /\ fills'[f].call = id
           /\ fills'[f].step = IF ~ok THEN "failed" ELSE IF fills[f].step = "finding" THEN "found" ELSE "done"
           /\ fills'[f].asked = IF ok /\ fills[f].step = "finding" THEN result ELSE fills[f].asked
    BY <1>0, <1>10, FillGoesOn
  <2>2. /\ \A g \in DOMAIN fills : g # f => fills[g].step \in FillOver /\ fills[g].call # id
        /\ fills'[f].step \in {"failed", "found", "done"}
        /\ fills'[f].step = "found" => ok /\ fills[f].step = "finding"
        /\ id # 0
    BY <1>0, <2>1, PageRecords DEF FillsInv
  <2>3. FillsInv'
    <3>1. ASSUME NEW g \in DOMAIN fills
          PROVE  /\ fills'[g].call # 0 => fills'[g].call \in DOMAIN calls
                 /\ fills'[g].step \notin FillOver => g = Len(fills')
                 /\ fills'[g].step = "content" => fills'[g].call = 0
                 /\ fills'[g].step \notin {"finding", "filling"}
                 /\ fills'[g].step = "found" => fills'[g].call # 0 /\ calls'[fills'[g].call].method = "find-fields"
      <4>1. CASE g = f
        BY <1>0, <1>1, <2>1, <2>2, <4>1 DEF FillsInv
      <4>2. CASE g # f
        BY <1>0, <2>1, <2>2, <4>2 DEF FillsInv, FillOver, FillEnded, Unconnected
      <4> QED  BY <4>1, <4>2
    <3>2. \A g \in DOMAIN fills : fills'[g].call = fills[g].call
      BY <2>1
    <3>3. ASSUME NEW k \in DOMAIN calls PROVE calls'[k].outcome # "none"
      BY <1>0, <1>1, <2>1, <2>2, <3>3 DEF FillsInv, FillOver, FillEnded, Unconnected
    <3>4. \A k \in DOMAIN calls : calls'[k].method = "autofill" => \E g \in DOMAIN fills : fills'[g].call = k
      BY <1>0, <1>1, <3>2 DEF FillsInv
    <3>5. \A g, h \in DOMAIN fills : fills'[g].call = fills'[h].call => g = h \/ fills'[g].call = 0
      BY <1>0, <3>2 DEF FillsInv
    <3> QED  BY <1>1, <2>1, <3>1, <3>3, <3>4, <3>5 DEF FillsInv
  <2>4. \A g \in DOMAIN fills : fills'[g].step # "finding"
    BY <2>1, <2>2 DEF FillOver, FillEnded, Unconnected
  <2>5. ASSUME NEW g \in DOMAIN fills, fills'[g].step = "found"
        PROVE  FindsTo(tab)' = {} /\ Remembered(tab, fills'[g].asked)
    <3>1. g = f
      BY <2>1, <2>2, <2>5 DEF FillOver, FillEnded, Unconnected
    <3>2. PICK n \in wire : n.type = "rpc-reply" /\ n.id = id /\ n.result = result
      BY <2>2, <2>5, <3>1
    <3>3. FindsTo(tab) = {} /\ Remembered(tab, result)
      BY <1>0, <1>3, <2>1, <2>2, <2>5, <3>1, <3>2 DEF OrderInv
    <3> QED  BY <1>4, <2>1, <2>2, <2>5, <3>1, <3>3
  <2>6. ASSUME NEW n \in wire', NEW g \in DOMAIN fills, n.type = "rpc-call",
               calls'[n.id].method = "autofill", fills'[g].call = n.id
        PROVE  Remembered(n.peer, fills'[g].asked) /\ \A k \in FindsTo(n.peer)' : n.id < k.id
    <3>1. n \in wire /\ calls[n.id].method = "autofill" /\ fills[g].call = n.id
      BY <1>0, <1>1, <1>7, <2>1, <2>6 DEF RecordsInv
    <3>2. fills'[g].asked = fills[g].asked
      BY <1>0, <2>1, <3>1 DEF FillsInv
    <3> QED  BY <1>0, <1>4, <2>6, <3>1, <3>2 DEF OrderInv
  <2>7. OrderInv'
    BY <1>3, <2>1, <2>4, <2>5, <2>6 DEF OrderInv, FindsTo, Remembered
  <2> QED  BY <1>6, <1>8, <2>1, <2>3, <2>7 DEF PageInv
<1> QED  BY <1>9, <1>10

LEMMA PageRests ==
  ASSUME PageInv, UNCHANGED pageVars PROVE PageInv'
<1>1. UNCHANGED <<calls, wire, docs, tabs, activeTab, currentUrl, fills, filled>>
  BY DEF pageVars
<1>2. RecordsInv'
  BY <1>1 DEF PageInv, RecordsInv, CallMessage
<1>3. FillsInv'
  BY <1>1 DEF PageInv, FillsInv
<1>4. OrderInv'
  BY <1>1 DEF PageInv, OrderInv, FindsTo, Remembered, CallMessage
<1>5. FilledInv'
  BY <1>1 DEF PageInv, FilledInv, FillsFitThePage
<1> QED  BY <1>2, <1>3, <1>4, <1>5 DEF PageInv

\* The steps of the panel that the page takes part in.
LEMMA PageSteps ==
  ASSUME [PanelNext]_panelVars
  PROVE  \/ UNCHANGED pageVars
         \/ SwitchTab \/ (\E page \in Pages : Navigate(activeTab, page)) \/ ShowPanel \/ AutoFill
         \/ \E f \in DOMAIN fills : FindForms(f) \/ FillForms(f) \/ ContentFails(f) \/ ConnectFails(f)
         \/ \E m \in wire : HandleFindFields(m) \/ HandleAutofill(m) \/ ReplyArrives(m)
         \/ \E id \in DOMAIN calls : CallTimesOut(id)
<1>1. CASE UNCHANGED vars
  BY <1>1 DEF vars
<1>2. CASE Next
  <2>1. CASE Refresh \/ (\E u \in Items : RemoteChange(u)) \/ SaveDelayed \/ SaveFails
    BY <2>1 DEF Refresh, RemoteChange, SaveDelayed, SaveFails
  <2>2. CASE (\E q \in Queries \union {All} : TypeQuery(q)) \/ ApplyQuery \/ \E u \in Items : MoveFocus(u) \/ OpenItem(u)
    BY <2>2 DEF TypeQuery, ApplyQuery, MoveFocus, OpenItem
  <2>3. CASE AddItem \/ ContentLoaded \/ Edit \/ Change \/ MoveToTrashOrRestore
    BY <2>3 DEF AddItem, ContentLoaded, Edit, Change, MoveToTrashOrRestore, ChangeDraft, DetailsStep
  <2>4. CASE Save \/ Cancel \/ Exit \/ GoBack
    BY <2>4 DEF Save, Cancel, CancelClicked, Exit, GoBack, DetailsStep
  <2>5. CASE AutoFillSelected \/ PageShown
    BY <2>5 DEF AutoFillSelected, PageShown
  <2>6. CASE BrowserStep
    BY <2>6 DEF BrowserStep
  <2>7. CASE ScriptStep
    BY <2>7 DEF ScriptStep, PageStep
  <2> QED  BY <1>2, <2>1, <2>2, <2>3, <2>4, <2>5, <2>6, <2>7 DEF Next
<1> QED  BY <1>1, <1>2 DEF PanelNext, Views, IconControls, panelVars

LEMMA PageStays ==
  ASSUME WaitsForFills, GuessesAreNoPasswords, PageInv, [PanelNext]_panelVars PROVE PageInv'
<1>1. activeTab \in Tabs
  BY DEF PageInv, RecordsInv
<1>2. CASE \E page \in Pages : Navigate(activeTab, page)
  BY <1>1, <1>2, NavigateKeeps
<1>3. CASE \E m \in wire : ReplyArrives(m)
  <2>1. PICK m \in wire : ReplyArrives(m)
    BY <1>3
  <2>2. m.type = "rpc-reply" /\ m.id \in DOMAIN calls /\ m.result \in Nat
    BY <2>1, PageRecords DEF ReplyArrives, Reply, PageInv, RecordsInv
  <2>3. /\ "replied" \in Outcomes \ {"none"} /\ "cleared" \in {"fired", "cleared"}
        /\ TRUE \in BOOLEAN /\ {m} \in SUBSET wire /\ \A n \in {m} : n.type = "rpc-reply"
    BY <2>2 DEF Outcomes
  <2>4. /\ RunCallback(m.id, "replied", "cleared") /\ Settle(m.id, TRUE, m.result)
        /\ wire' = wire \ {m} /\ UNCHANGED <<docs, tabs, activeTab, currentUrl, filled>>
    BY <2>1 DEF ReplyArrives, Reply
  <2> QED  BY <2>2, <2>3, <2>4, CallbackKeeps
<1>4. CASE \E id \in DOMAIN calls : CallTimesOut(id)
  <2>1. PICK id \in DOMAIN calls : CallTimesOut(id)
    BY <1>4
  <2>2. /\ "timed out" \in Outcomes \ {"none"} /\ "fired" \in {"fired", "cleared"}
        /\ FALSE \in BOOLEAN /\ 0 \in Nat /\ {} \in SUBSET wire
    BY DEF Outcomes
  <2>3. /\ RunCallback(id, "timed out", "fired") /\ Settle(id, FALSE, 0)
        /\ wire' = wire \ {} /\ UNCHANGED <<docs, tabs, activeTab, currentUrl, filled>>
    BY <2>1 DEF CallTimesOut, Timeout
  <2> QED  BY <2>2, <2>3, CallbackKeeps
<1>5. CASE SwitchTab \/ ShowPanel \/ AutoFill \/ UNCHANGED pageVars
  BY <1>5, SwitchTabKeeps, ShowPanelKeeps, AutoFillKeeps, PageRests
<1>6. CASE \E f \in DOMAIN fills : FindForms(f) \/ FillForms(f) \/ ContentFails(f) \/ ConnectFails(f)
  BY <1>6, CallKeeps, UncalledEndsKeep
<1>7. CASE \E m \in wire : HandleFindFields(m) \/ HandleAutofill(m)
  BY <1>7, HandleFindFieldsKeeps, HandleAutofillKeeps
<1> QED  BY <1>2, <1>3, <1>4, <1>5, <1>6, <1>7, PageSteps

LEMMA PageStarts == PanelInit => PageInv
<1> SUFFICES ASSUME PanelInit PROVE PageInv
  OBVIOUS
<1>1. /\ calls = <<>> /\ wire = {} /\ docs = <<EmptyPage>> /\ fills = <<>> /\ filled = {}
      /\ tabs = [t \in Tabs |-> [doc |-> 1, asked |-> <<>>]] /\ activeTab \in Tabs
  BY PageAssumption DEF PanelInit, Init, PageInit, RpcInit, EmptyPage
<1>2. /\ calls \in Seq(CallRecords) /\ fills \in Seq(FillRecords) /\ DOMAIN calls = {} /\ DOMAIN fills = {}
      /\ docs \in Seq(Pages \union {EmptyPage}) /\ DOMAIN docs = {1}
  <2>1. /\ calls \in Seq(CallRecords) /\ fills \in Seq(FillRecords) /\ DOMAIN calls = {} /\ DOMAIN fills = {}
    BY <1>1
  <2>2. docs \in Seq(Pages \union {EmptyPage}) /\ DOMAIN docs = {1}
    BY <1>1
  <2> QED  BY <2>1, <2>2
<1>3. [doc |-> 1, asked |-> <<>>] \in TabRecords
  <2>1. <<>> \in Seq(BOOLEAN)
    OBVIOUS
  <2> QED  BY <2>1 DEF TabRecords
<1>4. RecordsInv
  <2>1. tabs \in [Tabs -> TabRecords]
    BY <1>1, <1>3
  <2>2. \A t \in Tabs : tabs[t].doc = 1
    BY <1>1
  <2> QED  BY <1>1, <1>2, <2>1, <2>2 DEF RecordsInv
<1>5. FillsInv
  BY <1>2 DEF FillsInv
<1>6. OrderInv
  BY <1>1, <1>2 DEF OrderInv
<1>7. FilledInv
  BY <1>1 DEF FilledInv, FillsFitThePage
<1> QED  BY <1>4, <1>5, <1>6, <1>7 DEF PageInv

\* What a user who waits for fills to end fills into pages fits them, however the page
\* goes away and is shown again, calls time out and answers are late meanwhile.
THEOREM FilledFieldsFit ==
  ASSUME WaitsForFills, GuessesAreNoPasswords PROVE PanelSpec => []FillsFitThePage
<1>1. PanelInit => PageInv
  BY PageStarts
<1>2. PageInv /\ [PanelNext]_panelVars => PageInv'
  BY PageStays
<1>3. PageInv => FillsFitThePage
  BY DEF PageInv, FilledInv
<1> QED  BY <1>1, <1>2, <1>3, PTL DEF PanelSpec

-----------------------------------------------------------------------------
(* The views *)

Contents == [changes : SUBSET Nat, trashed : BOOLEAN]
Drafts == [changes : SUBSET Nat, trashed : BOOLEAN, loaded : BOOLEAN]
Handovers == [item : Items, changes : SUBSET Nat, trashed : BOOLEAN, shared : BOOLEAN]
Screened == [item : Items \union {NoItem}, mode : {"EditItem", "AddItem"}, base : Contents, draft : Drafts,
           isEditing : BOOLEAN, didEditItem : BOOLEAN, leaving : BOOLEAN, handed : SUBSET Nat]

ViewTypes ==
  /\ DOMAIN stored \subseteq Items /\ \A u \in DOMAIN stored : stored[u] \in Contents
  /\ DOMAIN listed \subseteq Items /\ \A u \in DOMAIN listed : listed[u] \in Contents
  /\ saves \in Seq(Handovers)
  /\ details \in Screened
  /\ changes \in Nat /\ cancelled \subseteq 1 .. changes

\* Nowhere is a change that was cancelled, or that is still to be made.
Kept(made) == made \subseteq (1 .. changes) \ cancelled
KeptInv ==
  /\ \A u \in DOMAIN stored : Kept(stored[u].changes)
  /\ \A u \in DOMAIN listed : Kept(listed[u].changes)
  /\ \A k \in DOMAIN saves : Kept(saves[k].changes)
  /\ Kept(details.base.changes) /\ Kept(details.draft.changes)

\* A draft that is edited has not been handed over to be saved; its own changes are
\* nowhere else, it has all that is stored of the item, and no save of the item is due.
DraftInv ==
  /\ details.draft.loaded => details.base.changes \subseteq details.draft.changes
  /\ details.isEditing => details.handed = {}
  /\ details.mode = "EditItem" /\ details.didEditItem => details.draft.loaded /\ details.draft.changes # {}
  /\ details.handed = {} =>
       \A c \in details.draft.changes \ details.base.changes :
         /\ \A u \in DOMAIN stored : c \notin stored[u].changes
         /\ \A u \in DOMAIN listed : c \notin listed[u].changes
         /\ \A k \in DOMAIN saves : c \notin saves[k].changes
  /\ Open /\ details.handed = {} =>
       /\ details.item \in DOMAIN stored => stored[details.item].changes \subseteq details.base.changes
       /\ \A k \in DOMAIN saves : saves[k].item # details.item

\* The saves that are due are of different items, and each has all that is stored of it.
SavesInv ==
  /\ \A k \in DOMAIN saves : saves[k].shared => Open /\ details.handed # {}
  /\ \A j, k \in DOMAIN saves : saves[j].item = saves[k].item => j = k
  /\ \A k \in DOMAIN saves :
       saves[k].item \in DOMAIN stored => stored[saves[k].item].changes \subseteq saves[k].changes

ListInv == ~stale => \A u \in DOMAIN listed : u \in DOMAIN stored /\ listed[u] = stored[u]

ViewsInv == ViewTypes /\ KeptInv /\ DraftInv /\ SavesInv /\ ListInv

\* The records as functions.
LEMMA ViewRecords ==
  ASSUME ViewTypes
  PROVE  /\ Len(saves) \in Nat /\ DOMAIN saves = 1 .. Len(saves)
         /\ \A k \in DOMAIN saves : /\ saves[k] \in Handovers /\ saves[k].item \in Items
                                    /\ saves[k].changes \in SUBSET Nat /\ saves[k].trashed \in BOOLEAN
         /\ details.base \in Contents /\ details.draft \in Drafts
         /\ details.base.changes \in SUBSET Nat /\ details.draft.changes \in SUBSET Nat
         /\ details.item \in Items \union {NoItem} /\ details.mode \in {"EditItem", "AddItem"}
         /\ details.isEditing \in BOOLEAN /\ details.didEditItem \in BOOLEAN
         /\ details.handed \in SUBSET Nat
         /\ NoItem \notin Items
<1>1. Len(saves) \in Nat /\ DOMAIN saves = 1 .. Len(saves)
  BY LenProperties DEF ViewTypes
<1>2. \A k \in DOMAIN saves : saves[k] \in Handovers
  BY <1>1, ElementOfSeq DEF ViewTypes
<1>3. \A h \in Handovers : h.item \in Items /\ h.changes \in SUBSET Nat /\ h.trashed \in BOOLEAN
  BY DEF Handovers
<1>4. /\ details.base \in Contents /\ details.draft \in Drafts
      /\ details.item \in Items \union {NoItem} /\ details.mode \in {"EditItem", "AddItem"}
      /\ details.isEditing \in BOOLEAN /\ details.didEditItem \in BOOLEAN
      /\ details.handed \in SUBSET Nat
  BY DEF ViewTypes, Screened
<1>5. details.base.changes \in SUBSET Nat /\ details.draft.changes \in SUBSET Nat
  BY <1>4 DEF Contents, Drafts
<1>6. NoItem \notin Items
  BY ItemsAssumption
<1> QED  BY <1>1, <1>2, <1>3, <1>4, <1>5, <1>6

LEMMA ClosedView ==
  /\ Closed \in Screened /\ Closed.item = NoItem /\ Closed.mode = "EditItem"
  /\ Closed.base.changes = {} /\ Closed.draft.changes = {} /\ Closed.draft.loaded = FALSE
  /\ Closed.isEditing = FALSE /\ Closed.didEditItem = FALSE /\ Closed.handed = {}
BY DEF Closed, Screened, Contents, Drafts, NoDraft, NoItem

\* The view lets go of the drafts that are about to be saved.
LEMMA LetGoes ==
  ASSUME ViewTypes, saves' = LetGo
  PROVE  /\ saves' \in Seq(Handovers) /\ DOMAIN saves' = DOMAIN saves
         /\ \A k \in DOMAIN saves : /\ saves'[k].item = saves[k].item /\ saves'[k].changes = saves[k].changes
                                    /\ ~saves'[k].shared
<1>1. /\ Len(saves) \in Nat /\ DOMAIN saves = 1 .. Len(saves)
      /\ \A k \in DOMAIN saves : saves[k] \in Handovers
  BY ViewRecords
<1>4. ASSUME NEW k \in DOMAIN saves
      PROVE  saves'[k] \in Handovers /\ saves'[k].item = saves[k].item
             /\ saves'[k].changes = saves[k].changes /\ saves'[k].shared = FALSE
  <2>1. saves'[k] = [saves[k] EXCEPT !.shared = FALSE]
    BY DEF LetGo
  <2>2. saves[k] \in Handovers
    BY <1>1
  <2> QED  BY <2>1, <2>2 DEF Handovers
<1>5. saves' = [k \in 1 .. Len(saves) |-> saves'[k]]
  BY <1>1 DEF LetGo
<1>6. saves' \in Seq(Handovers)
  <2>1. \A k \in 1 .. Len(saves) : saves'[k] \in Handovers
    BY <1>1, <1>4
  <2>2. Len(saves) \in Nat
    BY <1>1
  <2> QED  BY <1>5, <2>1, <2>2
<1> QED  BY <1>1, <1>4, <1>5, <1>6

LEMMA RefreshKeeps ==
  ASSUME ViewsInv, Refresh PROVE ViewsInv'
<1>1. /\ UNCHANGED <<stored, details, saves, changes, cancelled>>
      /\ listed' = [u \in {w \in DOMAIN stored : ~stored[w].trashed} |-> stored[u]]
  BY DEF Refresh, Restrict
<1>2. DOMAIN listed' \subseteq DOMAIN stored /\ \A u \in DOMAIN listed' : listed'[u] = stored[u]
  BY <1>1
<1>3. ViewTypes'
  BY <1>1, <1>2 DEF ViewsInv, ViewTypes
<1>4. KeptInv'
  BY <1>1, <1>2 DEF ViewsInv, KeptInv, Kept
<1>5. DraftInv'
  BY <1>1, <1>2 DEF ViewsInv, DraftInv, Open
<1>6. SavesInv'
  BY <1>1 DEF ViewsInv, SavesInv, Open
<1>7. ListInv'
  BY <1>1, <1>2 DEF ListInv
<1> QED  BY <1>3, <1>4, <1>5, <1>6, <1>7 DEF ViewsInv

LEMMA RemoteChangeKeeps ==
  ASSUME Unhurried, ViewsInv, NEW u \in Items, RemoteChange(u) PROVE ViewsInv'
<1>0. /\ ViewTypes /\ KeptInv /\ DraftInv
      /\ details.draft.changes \in SUBSET Nat /\ changes \in Nat
  BY ViewRecords DEF ViewsInv, ViewTypes
<1>1. PICK c \in Nat : c = changes + 1
  BY <1>0
<1>2. /\ ~Open /\ saves = <<>> /\ u \in DOMAIN stored /\ changes' = c /\ stale' = TRUE
      /\ stored' = [stored EXCEPT ![u].changes = stored[u].changes \union {c}]
      /\ UNCHANGED <<listed, details, saves, cancelled>>
  BY <1>1 DEF RemoteChange
<1> DEFINE r == [stored[u] EXCEPT !.changes = stored[u].changes \union {c}]
<1>3. r \in Contents /\ r.changes = stored[u].changes \union {c}
  <2>1. stored[u] \in Contents
    BY <1>0, <1>2 DEF ViewTypes
  <2> QED  BY <2>1 DEF Contents
<1>4. stored' = [stored EXCEPT ![u] = r]
  BY <1>2
<1> HIDE DEF r
<1>5. /\ DOMAIN stored' = DOMAIN stored
      /\ \A w \in DOMAIN stored : stored'[w] = IF w = u THEN r ELSE stored[w]
  BY <1>2, <1>4
<1>6. \A made : Kept(made) => Kept(made)'
  BY <1>0, <1>1, <1>2 DEF Kept
<1>7. ViewTypes'
  <2>1. cancelled \subseteq 1 .. c
    BY <1>0, <1>1 DEF ViewTypes
  <2>2. \A w \in DOMAIN stored' : stored'[w] \in Contents
    BY <1>0, <1>3, <1>5 DEF ViewTypes
  <2> QED  BY <1>0, <1>2, <1>5, <2>1, <2>2 DEF ViewTypes
<1>8. KeptInv'
  <2>1. stored[u].changes \union {c} \subseteq (1 .. c) \ cancelled
    BY <1>0, <1>1, <1>2 DEF KeptInv, Kept, ViewTypes
  <2>2. \A w \in DOMAIN stored : stored[w].changes \subseteq (1 .. c) \ cancelled
    BY <1>0, <1>1, <1>2 DEF KeptInv, Kept
  <2>3. \A w \in DOMAIN stored' : stored'[w].changes \subseteq (1 .. c) \ cancelled
    BY <1>3, <1>5, <2>1, <2>2
  <2>4. /\ \A w \in DOMAIN listed : listed[w].changes \subseteq (1 .. c) \ cancelled
        /\ details.base.changes \subseteq (1 .. c) \ cancelled
        /\ details.draft.changes \subseteq (1 .. c) \ cancelled
    BY <1>0, <1>1 DEF KeptInv, Kept
  <2> QED  BY <1>2, <2>3, <2>4 DEF KeptInv, Kept
<1>9. DraftInv'
  <2>1. c \notin details.draft.changes
    BY <1>0, <1>1 DEF KeptInv, Kept
  <2>2. \A w \in DOMAIN stored : \A d \in stored'[w].changes : d \in stored[w].changes \/ d = c
    BY <1>3, <1>5
  <2> QED  BY <1>0, <1>2, <1>5, <2>1, <2>2 DEF DraftInv, Open
<1>10. SavesInv'
  BY <1>2 DEF SavesInv
<1>11. ListInv'
  BY <1>2 DEF ListInv
<1> QED  BY <1>7, <1>8, <1>9, <1>10, <1>11 DEF ViewsInv

\* The view is closed, or lets its draft be with another flag set.
LEMMA CloseKeeps ==
  ASSUME ViewsInv, details' = Closed, saves' = LetGo, UNCHANGED <<stored, listed, stale, changes, cancelled>>
  PROVE  ViewsInv'
<1>1. /\ saves' \in Seq(Handovers) /\ DOMAIN saves' = DOMAIN saves
      /\ \A k \in DOMAIN saves : /\ saves'[k].item = saves[k].item /\ saves'[k].changes = saves[k].changes
                                 /\ ~saves'[k].shared
  BY LetGoes DEF ViewsInv
<1>2. ViewTypes'
  BY <1>1, ClosedView DEF ViewsInv, ViewTypes
<1>3. KeptInv'
  BY <1>1, ClosedView DEF ViewsInv, KeptInv, Kept
<1>4. DraftInv'
  BY <1>1, ClosedView DEF DraftInv, Open
<1>5. SavesInv'
  BY <1>1 DEF ViewsInv, SavesInv
<1>6. ListInv'
  BY DEF ViewsInv, ListInv
<1> QED  BY <1>2, <1>3, <1>4, <1>5, <1>6 DEF ViewsInv

LEMMA FlagKeeps ==
  ASSUME Unhurried, ViewsInv, Edit \/ Exit PROVE ViewsInv'
<1>1. /\ UNCHANGED <<stored, listed, stale, saves, changes, cancelled>>
      /\ details \in Screened
  BY DEF Edit, Exit, DetailsStep, listVars, ViewsInv, ViewTypes
<1>2. /\ details' \in Screened
      /\ details'.item = details.item /\ details'.mode = details.mode /\ details'.base = details.base
      /\ details'.draft = details.draft /\ details'.didEditItem = details.didEditItem
      /\ details'.handed = details.handed
      /\ details'.isEditing => details.isEditing \/ details.handed = {}
  <2>1. \A d \in Screened :
          LET e == [d EXCEPT !.isEditing = TRUE]
          IN /\ e \in Screened /\ e.item = d.item /\ e.mode = d.mode /\ e.base = d.base
             /\ e.draft = d.draft /\ e.didEditItem = d.didEditItem /\ e.handed = d.handed
    BY DEF Screened
  <2>2. \A d \in Screened :
          LET e == [d EXCEPT !.leaving = TRUE]
          IN /\ e \in Screened /\ e.item = d.item /\ e.mode = d.mode /\ e.base = d.base
             /\ e.draft = d.draft /\ e.didEditItem = d.didEditItem /\ e.handed = d.handed
             /\ e.isEditing = d.isEditing
    BY DEF Screened
  <2>3. CASE Edit
    BY <1>1, <2>1, <2>3 DEF Edit
  <2>4. CASE Exit
    BY <1>1, <2>2, <2>4 DEF Exit
  <2> QED  BY <2>3, <2>4
<1>3. ViewTypes'
  BY <1>1, <1>2 DEF ViewsInv, ViewTypes
<1>4. KeptInv'
  BY <1>1, <1>2 DEF ViewsInv, KeptInv, Kept
<1>5. DraftInv'
  BY <1>1, <1>2 DEF ViewsInv, DraftInv, Open
<1>6. SavesInv'
  BY <1>1, <1>2 DEF ViewsInv, SavesInv, Open
<1>7. ListInv'
  BY <1>1 DEF ViewsInv, ListInv
<1> QED  BY <1>3, <1>4, <1>5, <1>6, <1>7 DEF ViewsInv

LEMMA FirstSaveGoes ==
  ASSUME ViewTypes, saves # <<>>, saves' = Tail(saves)
  PROVE  /\ saves' \in Seq(Handovers)
         /\ 1 \in DOMAIN saves /\ Head(saves) = saves[1]
         /\ \A k \in DOMAIN saves' : /\ k \in Nat /\ k + 1 \in DOMAIN saves /\ k + 1 # 1
                                     /\ saves'[k] = saves[k + 1]
<1>1. saves \in Seq(Handovers) /\ Len(saves) \in Nat \ {0} /\ DOMAIN saves = 1 .. Len(saves)
  BY EmptySeq, LenProperties DEF ViewTypes
<1>2. saves' \in Seq(Handovers) /\ Len(saves') = Len(saves) - 1
      /\ \A k \in 1 .. Len(saves') : saves'[k] = saves[k + 1]
  BY <1>1, HeadTailProperties
<1>3. DOMAIN saves' = 1 .. Len(saves')
  BY <1>2, LenProperties
<1>4. Head(saves) = saves[1]
  BY <1>1
<1> QED  BY <1>1, <1>2, <1>3, <1>4

LEMMA SaveFailsKeeps ==
  ASSUME ViewsInv, SaveFails PROVE ViewsInv'
<1>1. /\ saves # <<>> /\ saves' = Tail(saves)
      /\ UNCHANGED <<stored, listed, stale, details, changes, cancelled>>
  BY DEF SaveFails, listVars
<1>2. /\ saves' \in Seq(Handovers)
      /\ \A k \in DOMAIN saves' : /\ k \in Nat /\ k + 1 \in DOMAIN saves
                                  /\ saves'[k] = saves[k + 1]
  BY <1>1, FirstSaveGoes DEF ViewsInv
<1>3. ViewTypes'
  BY <1>1, <1>2 DEF ViewsInv, ViewTypes
<1>4. KeptInv'
  BY <1>1, <1>2 DEF ViewsInv, KeptInv, Kept
<1>5. DraftInv'
  BY <1>1, <1>2 DEF ViewsInv, DraftInv, Open
<1>6. SavesInv'
  <2>1. \A j, k \in DOMAIN saves' : j + 1 = k + 1 => j = k
    BY <1>2
  <2> QED  BY <1>1, <1>2, <2>1 DEF ViewsInv, SavesInv, Open
<1>7. ListInv'
  BY <1>1 DEF ViewsInv, ListInv
<1> QED  BY <1>3, <1>4, <1>5, <1>6, <1>7 DEF ViewsInv

LEMMA SaveDelayedKeeps ==
  ASSUME ViewsInv, SaveDelayed PROVE ViewsInv'
<1> DEFINE i == saves[1].item
           r == [changes |-> saves[1].changes, trashed |-> saves[1].trashed]
<1>0. ViewTypes /\ KeptInv /\ DraftInv /\ SavesInv
  BY DEF ViewsInv
<1>1. /\ saves # <<>> /\ saves' = Tail(saves) /\ stale' = TRUE
      /\ UNCHANGED <<listed, details, changes, cancelled>>
  BY DEF SaveDelayed
<1>2. /\ saves' \in Seq(Handovers)
      /\ 1 \in DOMAIN saves /\ Head(saves) = saves[1]
      /\ \A k \in DOMAIN saves' : /\ k \in Nat /\ k + 1 \in DOMAIN saves /\ k + 1 # 1
                                  /\ saves'[k] = saves[k + 1]
  BY <1>0, <1>1, FirstSaveGoes
<1>3. stored' = [u \in DOMAIN stored \union {i} |-> IF u # i THEN stored[u] ELSE r]
  BY <1>2 DEF SaveDelayed
<1>4. i \in Items /\ r \in Contents /\ r.changes = saves[1].changes
  BY <1>0, <1>2, ViewRecords DEF Contents
<1>5. /\ DOMAIN stored' = DOMAIN stored \union {i} /\ stored'[i].changes = saves[1].changes
      /\ \A u \in DOMAIN stored' : u # i => u \in DOMAIN stored /\ stored'[u] = stored[u]
  BY <1>3, <1>4
<1>6. ViewTypes'
  BY <1>0, <1>1, <1>2, <1>3, <1>4 DEF ViewTypes
<1>7. KeptInv'
  <2>1. \A u \in DOMAIN stored' : Kept(stored'[u].changes)
    BY <1>0, <1>2, <1>5 DEF KeptInv
  <2> QED  BY <1>0, <1>1, <1>2, <2>1 DEF KeptInv, Kept
<1>8. DraftInv'
  <2>1. ASSUME details.handed = {}, NEW c \in details.draft.changes \ details.base.changes
        PROVE  /\ \A u \in DOMAIN stored' : c \notin stored'[u].changes
               /\ \A u \in DOMAIN listed : c \notin listed[u].changes
               /\ \A k \in DOMAIN saves' : c \notin saves'[k].changes
    BY <1>0, <1>2, <1>5, <2>1 DEF DraftInv
  <2>2. ASSUME Open, details.handed = {}
        PROVE  /\ details.item \in DOMAIN stored' => stored'[details.item].changes \subseteq details.base.changes
               /\ \A k \in DOMAIN saves' : saves'[k].item # details.item
    BY <1>0, <1>2, <1>5, <2>2 DEF DraftInv
  <2> QED  BY <1>0, <1>1, <2>1, <2>2 DEF DraftInv, Open
<1>9. SavesInv'
  <2>1. \A j, k \in DOMAIN saves' : j + 1 = k + 1 => j = k
    BY <1>2
  <2>2. \A j, k \in DOMAIN saves' : saves'[j].item = saves'[k].item => j = k
    BY <1>0, <1>2, <2>1 DEF SavesInv
  <2>3. \A k \in DOMAIN saves' : saves'[k].item # i
    BY <1>0, <1>2 DEF SavesInv
  <2>4. \A k \in DOMAIN saves' :
          saves'[k].item \in DOMAIN stored' => stored'[saves'[k].item].changes \subseteq saves'[k].changes
    BY <1>0, <1>2, <1>5, <2>3 DEF SavesInv
  <2> QED  BY <1>0, <1>1, <1>2, <2>2, <2>4 DEF SavesInv, Open
<1>10. ListInv'
  BY <1>1 DEF ListInv
<1> QED  BY <1>6, <1>7, <1>8, <1>9, <1>10 DEF ViewsInv

\* What the list shows can be opened.
LEMMA OpenItemKeeps ==
  ASSUME Unhurried, ViewsInv, NEW u \in Items, OpenItem(u) PROVE ViewsInv'
<1>0. ViewTypes /\ KeptInv /\ DraftInv /\ SavesInv /\ ListInv
  BY DEF ViewsInv
<1>1. /\ u \in DOMAIN listed /\ saves = <<>> /\ ~stale
      /\ details' = [Closed EXCEPT !.item = u, !.base = listed[u]]
      /\ UNCHANGED <<stored, listed, stale, saves, changes, cancelled>>
  BY DEF OpenItem, Matching, Current, listVars
<1>2. u \in DOMAIN stored /\ listed[u] = stored[u] /\ listed[u] \in Contents
  BY <1>0, <1>1 DEF ListInv, ViewTypes
<1>3. /\ details' \in Screened /\ details'.item = u /\ details'.base = listed[u]
      /\ details'.draft = Closed.draft /\ ~details'.isEditing /\ ~details'.didEditItem
  <2>1. \A content \in Contents :
          LET d == [Closed EXCEPT !.item = u, !.base = content]
          IN /\ d \in Screened /\ d.item = u /\ d.base = content /\ d.draft = Closed.draft
             /\ ~d.isEditing /\ ~d.didEditItem
    BY DEF Closed, Screened, Contents, Drafts, NoDraft, NoItem
  <2> QED  BY <1>1, <1>2, <2>1
<1>4. ViewTypes'
  BY <1>0, <1>1, <1>3 DEF ViewTypes
<1>5. KeptInv'
  BY <1>0, <1>1, <1>3, ClosedView DEF KeptInv, Kept
<1>6. DraftInv'
  BY <1>0, <1>1, <1>2, <1>3, ClosedView DEF DraftInv, Open
<1>7. SavesInv'
  BY <1>1 DEF SavesInv
<1>8. ListInv'
  BY <1>0, <1>1 DEF ListInv
<1> QED  BY <1>4, <1>5, <1>6, <1>7, <1>8 DEF ViewsInv

LEMMA AddItemKeeps ==
  ASSUME ViewsInv, AddItem PROVE ViewsInv'
<1>0. ViewTypes /\ KeptInv /\ DraftInv /\ SavesInv /\ ListInv
  BY DEF ViewsInv
<1>1. /\ ~Open /\ NewItem \notin DOMAIN stored /\ \A k \in DOMAIN saves : saves[k].item # NewItem
      /\ UNCHANGED <<stored, listed, stale, saves, changes, cancelled>>
  BY DEF AddItem, listVars
<1>2. /\ details' \in Screened /\ details'.item = NewItem /\ details'.base.changes = {}
      /\ details'.draft = Closed.draft /\ details'.mode = "AddItem" /\ details'.handed = {}
  BY ItemsAssumption DEF AddItem, Closed, Screened, Contents, Drafts, NoDraft, NoItem
<1>3. \A k \in DOMAIN saves : ~saves[k].shared
  <2>1. \A k \in DOMAIN saves : saves[k].shared \in BOOLEAN
    BY <1>0, ViewRecords DEF Handovers
  <2> QED  BY <1>0, <1>1, <2>1 DEF SavesInv
<1>4. ViewTypes'
  BY <1>0, <1>1, <1>2 DEF ViewTypes
<1>5. KeptInv'
  BY <1>0, <1>1, <1>2, ClosedView DEF KeptInv, Kept
<1>6. DraftInv'
  BY <1>0, <1>1, <1>2, ClosedView DEF DraftInv, Open
<1>7. SavesInv'
  BY <1>0, <1>1, <1>3 DEF SavesInv
<1>8. ListInv'
  BY <1>0, <1>1 DEF ListInv
<1> QED  BY <1>4, <1>5, <1>6, <1>7, <1>8 DEF ViewsInv

LEMMA ContentLoadedKeeps ==
  ASSUME ViewsInv, ContentLoaded PROVE ViewsInv'
<1>0. ViewTypes /\ KeptInv /\ DraftInv /\ SavesInv /\ ListInv /\ details \in Screened
  BY DEF ViewsInv, ViewTypes
<1>1. /\ ~details.draft.loaded /\ saves' = LetGo
      /\ details' = [details EXCEPT !.draft = Draft(details.base)]
      /\ UNCHANGED <<stored, listed, stale, changes, cancelled>>
  BY DEF ContentLoaded, ResetEdits, DetailsStep, listVars
<1>2. /\ saves' \in Seq(Handovers) /\ DOMAIN saves' = DOMAIN saves
      /\ \A k \in DOMAIN saves : /\ saves'[k].item = saves[k].item /\ saves'[k].changes = saves[k].changes
                                 /\ ~saves'[k].shared
  BY <1>0, <1>1, LetGoes
<1>3. Draft(details.base) \in Drafts /\ Draft(details.base).changes = details.base.changes
      /\ Draft(details.base).loaded = TRUE
  BY <1>0, ViewRecords DEF Draft, Drafts, Contents
<1>4. /\ details' \in Screened
      /\ details'.item = details.item /\ details'.mode = details.mode /\ details'.base = details.base
      /\ details'.draft = Draft(details.base) /\ details'.didEditItem = details.didEditItem
      /\ details'.isEditing = details.isEditing /\ details'.handed = details.handed
  <2>1. \A e \in Drafts :
          LET d == [details EXCEPT !.draft = e]
          IN /\ d \in Screened /\ d.item = details.item /\ d.mode = details.mode /\ d.base = details.base
             /\ d.draft = e /\ d.didEditItem = details.didEditItem
             /\ d.isEditing = details.isEditing /\ d.handed = details.handed
    BY <1>0 DEF Screened
  <2> QED  BY <1>1, <1>3, <2>1
<1>5. ViewTypes'
  BY <1>0, <1>1, <1>2, <1>4 DEF ViewTypes
<1>6. KeptInv'
  BY <1>0, <1>1, <1>2, <1>3, <1>4 DEF KeptInv, Kept
<1>7. DraftInv'
  BY <1>0, <1>1, <1>2, <1>3, <1>4 DEF DraftInv, Open
<1>8. SavesInv'
  BY <1>0, <1>1, <1>2 DEF SavesInv
<1>9. ListInv'
  BY <1>0, <1>1 DEF ListInv
<1> QED  BY <1>5, <1>6, <1>7, <1>8, <1>9 DEF ViewsInv

LEMMA CancelKeeps ==
  ASSUME ViewsInv, Cancel PROVE ViewsInv'
<1>0. ViewTypes /\ KeptInv /\ DraftInv /\ SavesInv /\ ListInv /\ details \in Screened
  BY DEF ViewsInv, ViewTypes
<1> DEFINE given == details.draft.changes \ details.base.changes
           d == [details EXCEPT !.isEditing = FALSE, !.didEditItem = FALSE]
<1>1. /\ Editing /\ details.handed = {} /\ cancelled' = cancelled \union given
      /\ saves' = LetGo /\ details' = [d EXCEPT !.draft = Draft(d.base)]
      /\ UNCHANGED <<stored, listed, stale, changes>>
  <2>1. Editing /\ details.handed = {}
    BY <1>0 DEF Cancel, CancelClicked, Editing, DraftInv
  <2> QED  BY <2>1 DEF Cancel, CancelClicked, ResetEdits, DetailsStep, listVars
<1>2. /\ saves' \in Seq(Handovers) /\ DOMAIN saves' = DOMAIN saves
      /\ \A k \in DOMAIN saves : /\ saves'[k].item = saves[k].item /\ saves'[k].changes = saves[k].changes
                                 /\ ~saves'[k].shared
  BY <1>0, <1>1, LetGoes
<1>3. /\ d \in Screened /\ d.item = details.item /\ d.mode = details.mode /\ d.base = details.base
      /\ d.didEditItem = FALSE /\ d.isEditing = FALSE /\ d.handed = {}
  BY <1>0, <1>1 DEF Screened
<1>4. Draft(d.base) \in Drafts /\ Draft(d.base).changes = details.base.changes
      /\ Draft(d.base).loaded = TRUE
  BY <1>0, <1>3, ViewRecords DEF Draft, Drafts, Contents
<1> HIDE DEF d
<1>5. /\ details' \in Screened
      /\ details'.item = details.item /\ details'.mode = details.mode /\ details'.base = details.base
      /\ details'.draft = Draft(d.base) /\ details'.didEditItem = FALSE
      /\ details'.isEditing = FALSE /\ details'.handed = {}
  <2>1. \A e \in Drafts :
          LET f == [d EXCEPT !.draft = e]
          IN /\ f \in Screened /\ f.item = d.item /\ f.mode = d.mode /\ f.base = d.base
             /\ f.draft = e /\ f.didEditItem = d.didEditItem
             /\ f.isEditing = d.isEditing /\ f.handed = d.handed
    BY <1>3 DEF Screened
  <2> QED  BY <1>1, <1>3, <1>4, <2>1
<1>6. /\ \A u \in DOMAIN stored : stored[u].changes \intersect given = {}
      /\ \A u \in DOMAIN listed : listed[u].changes \intersect given = {}
      /\ \A k \in DOMAIN saves : saves[k].changes \intersect given = {}
      /\ details.base.changes \intersect given = {}
      /\ given \subseteq 1 .. changes
  BY <1>0, <1>1 DEF DraftInv, KeptInv, Kept
<1> HIDE DEF given
<1>7. ViewTypes'
  BY <1>0, <1>1, <1>2, <1>5, <1>6 DEF ViewTypes
<1>8. KeptInv'
  BY <1>0, <1>1, <1>2, <1>4, <1>5, <1>6 DEF KeptInv, Kept
<1>9. DraftInv'
  BY <1>0, <1>1, <1>2, <1>4, <1>5 DEF DraftInv, Open
<1>10. SavesInv'
  BY <1>0, <1>1, <1>2 DEF SavesInv
<1>11. ListInv'
  BY <1>0, <1>1 DEF ListInv
<1> QED  BY <1>7, <1>8, <1>9, <1>10, <1>11 DEF ViewsInv

LEMMA ChangeDraftKeeps ==
  ASSUME ViewsInv, Change \/ MoveToTrashOrRestore PROVE ViewsInv'
<1>0. ViewTypes /\ KeptInv /\ DraftInv /\ SavesInv /\ ListInv /\ details \in Screened
      /\ details.draft \in Drafts /\ changes \in Nat
  BY ViewRecords DEF ViewsInv, ViewTypes
<1>1. PICK draft \in Drafts : ChangeDraft(draft) /\ draft.changes = details.draft.changes
                              /\ draft.loaded = details.draft.loaded
  <2>1. CASE Change
    BY <1>0, <2>1 DEF Change
  <2>2. CASE MoveToTrashOrRestore
    <3> DEFINE e == [details.draft EXCEPT !.trashed = ~@]
    <3>1. e \in Drafts /\ e.changes = details.draft.changes /\ e.loaded = details.draft.loaded
      BY <1>0 DEF Drafts
    <3>2. ChangeDraft(e)
      BY <2>2 DEF MoveToTrashOrRestore
    <3> QED  BY <3>1, <3>2
  <2> QED  BY <2>1, <2>2
<1>2. PICK c \in Nat : c = changes + 1
  BY <1>0
<1> DEFINE e == [draft EXCEPT !.changes = draft.changes \union {c}]
<1>3. /\ Editing /\ changes' = c /\ details' = [details EXCEPT !.draft = e, !.didEditItem = TRUE]
      /\ UNCHANGED <<stored, listed, stale, cancelled>>
  <2>1. /\ Editing /\ changes' = c
        /\ details' = [details EXCEPT !.draft = draft, !.draft.changes = @ \union {changes'}, !.didEditItem = TRUE]
        /\ UNCHANGED <<stored, listed, stale, cancelled>>
    BY <1>1, <1>2 DEF ChangeDraft, DetailsStep, listVars
  <2>2. /\ details \in Screened /\ draft.changes = details.draft.changes
        /\ \A x, y : [[details EXCEPT !.draft = x] EXCEPT !.draft = y] = [details EXCEPT !.draft = y]
        /\ \A x : [details EXCEPT !.draft = x].draft = x
    BY <1>0, <1>1 DEF Screened
  <2> QED  BY <2>1, <2>2
<1>4. e \in Drafts /\ e.changes = details.draft.changes \union {c} /\ e.loaded = TRUE
  BY <1>0, <1>1, <1>3 DEF Drafts, Editing
<1> HIDE DEF e
<1>5. /\ details' \in Screened
      /\ details'.item = details.item /\ details'.mode = details.mode /\ details'.base = details.base
      /\ details'.draft = e /\ details'.isEditing = details.isEditing /\ details'.handed = details.handed
  BY <1>0, <1>3, <1>4 DEF Screened
<1>6. details.handed = {} /\ details.isEditing
  BY <1>0, <1>3 DEF Editing, DraftInv
<1>7. /\ DOMAIN saves' = DOMAIN saves /\ \A k \in DOMAIN saves : saves'[k] = saves[k]
      /\ saves' \in Seq(Handovers)
  <2>1. /\ Len(saves) \in Nat /\ DOMAIN saves = 1 .. Len(saves)
        /\ \A k \in DOMAIN saves : saves[k] \in Handovers
    BY <1>0, ViewRecords
  <2>2. /\ DOMAIN saves' = DOMAIN saves
        /\ \A k \in DOMAIN saves : ~saves[k].shared => saves'[k] = saves[k]
        /\ saves' = [k \in DOMAIN saves |-> saves'[k]]
    BY <1>1 DEF ChangeDraft
  <2>3. \A k \in DOMAIN saves : ~saves[k].shared
    BY <1>0, <1>6 DEF SavesInv
  <2>4. saves' = [k \in 1 .. Len(saves) |-> saves'[k]] /\ \A k \in 1 .. Len(saves) : saves'[k] \in Handovers
    BY <2>1, <2>2, <2>3
  <2>5. Len(saves) \in Nat
    BY <2>1
  <2>6. saves' \in Seq(Handovers)
    BY <2>4, <2>5
  <2> QED  BY <2>2, <2>3, <2>6
<1>8. ViewTypes'
  <2>1. cancelled \subseteq 1 .. c
    BY <1>0, <1>2 DEF ViewTypes
  <2> QED  BY <1>0, <1>3, <1>5, <1>7, <2>1 DEF ViewTypes
<1>9. KeptInv'
  <2>1. \A made : made \subseteq (1 .. changes) \ cancelled => made \subseteq (1 .. c) \ cancelled
    BY <1>0, <1>2
  <2>2. c \in (1 .. c) \ cancelled
    BY <1>0, <1>2 DEF ViewTypes
  <2> QED  BY <1>0, <1>3, <1>4, <1>5, <1>7, <2>1, <2>2 DEF KeptInv, Kept
<1>10. DraftInv'
  <2>1. c \notin 1 .. changes
    BY <1>0, <1>2
  <2>2. /\ \A u \in DOMAIN stored : c \notin stored[u].changes
        /\ \A u \in DOMAIN listed : c \notin listed[u].changes
        /\ \A k \in DOMAIN saves : c \notin saves[k].changes
    BY <1>0, <2>1 DEF KeptInv, Kept
  <2>3. details.base.changes \subseteq e.changes
    BY <1>0, <1>3, <1>4 DEF DraftInv, Editing
  <2>4. \A d \in e.changes \ details.base.changes :
          /\ \A u \in DOMAIN stored : d \notin stored[u].changes
          /\ \A u \in DOMAIN listed : d \notin listed[u].changes
          /\ \A k \in DOMAIN saves : d \notin saves[k].changes
    BY <1>0, <1>4, <1>6, <2>2 DEF DraftInv
  <2>5. e.loaded /\ e.changes # {}
    BY <1>4
  <2> QED  BY <1>0, <1>3, <1>5, <1>6, <1>7, <2>3, <2>4, <2>5 DEF DraftInv, Open
<1>11. SavesInv'
  BY <1>0, <1>3, <1>5, <1>7 DEF SavesInv, Open
<1>12. ListInv'
  BY <1>0, <1>3 DEF ListInv
<1> QED  BY <1>8, <1>9, <1>10, <1>11, <1>12 DEF ViewsInv

\* A draft that is saved is the first one of its item that is due.
LEMMA SaveKeeps ==
  ASSUME ViewsInv, Save PROVE ViewsInv'
<1>0. ViewTypes /\ KeptInv /\ DraftInv /\ SavesInv /\ ListInv /\ details \in Screened
  BY DEF ViewsInv, ViewTypes
<1>1. /\ Open /\ details.draft.loaded /\ details.isEditing /\ details.handed = {}
      /\ UNCHANGED <<stored, listed, stale, changes, cancelled>>
  BY <1>0 DEF Save, Editing, DraftInv, DetailsStep, listVars
<1>2. /\ Handed \in Handovers /\ Handed.item = details.item
      /\ Handed.changes = details.draft.changes /\ Handed.shared = (details.mode = "EditItem")
  <2>1. details.item \in Items /\ details.draft.changes \in SUBSET Nat /\ details.draft.trashed \in BOOLEAN
    BY <1>0, <1>1, ViewRecords DEF Open, Drafts
  <2>2. (details.mode = "EditItem") \in BOOLEAN
    OBVIOUS
  <2> QED  BY <2>1, <2>2 DEF Handed, Handovers
<1>3. Len(saves) \in Nat /\ DOMAIN saves = 1 .. Len(saves)
  BY <1>0, ViewRecords
<1>4. PICK n \in {Len(saves), Len(saves) + 1} :
        /\ saves' \in Seq(Handovers) /\ DOMAIN saves' = 1 .. n
        /\ \A k \in DOMAIN saves : saves'[k] = saves[k]
        /\ n = Len(saves) + 1 => details.didEditItem /\ saves'[n] = Handed
        /\ details.didEditItem => n = Len(saves) + 1
  <2>1. CASE details.didEditItem
    <3>1. saves' = Append(saves, Handed) /\ saves \in Seq(Handovers) /\ Handed \in Handovers
      BY <1>0, <1>2, <2>1 DEF Save, ViewTypes
    <3>2. /\ saves' \in Seq(Handovers) /\ Len(saves') = Len(saves) + 1
          /\ \A k \in 1 .. Len(saves) : saves'[k] = saves[k]
          /\ saves'[Len(saves) + 1] = Handed
      BY <3>1, AppendProperties
    <3>3. DOMAIN saves' = 1 .. Len(saves')
      BY <3>2, LenProperties
    <3> QED  BY <1>3, <2>1, <3>2, <3>3
  <2>2. CASE ~details.didEditItem
    <3>1. saves' = saves /\ saves \in Seq(Handovers)
      BY <1>0, <2>2 DEF Save, ViewTypes
    <3>2. saves' \in Seq(Handovers)
      BY <3>1
    <3>3. DOMAIN saves' = 1 .. Len(saves) /\ \A k \in DOMAIN saves : saves'[k] = saves[k]
      <4>1. saves' = saves
        BY <3>1
      <4> QED  BY <1>3, <4>1
    <3>4. Len(saves) # Len(saves) + 1
      <4>1. \A x \in Nat : x # x + 1
        OBVIOUS
      <4> QED  BY <1>3, <4>1
    <3> QED  BY <2>2, <3>2, <3>3, <3>4
  <2> QED  BY <2>1, <2>2
<1>5. \A k \in DOMAIN saves' : k \in DOMAIN saves \/ (k = n /\ n = Len(saves) + 1)
  BY <1>3, <1>4
<1>6. \A k \in DOMAIN saves' :
        \/ k \in DOMAIN saves /\ saves'[k] = saves[k]
        \/ /\ k = n /\ n \notin DOMAIN saves /\ details.didEditItem /\ saves'[k].item = details.item
           /\ saves'[k].changes = details.draft.changes /\ saves'[k].shared = (details.mode = "EditItem")
  BY <1>2, <1>3, <1>4, <1>5
<1>7. /\ \A k \in DOMAIN saves' : Kept(saves'[k].changes)
      /\ \A j, k \in DOMAIN saves' : saves'[j].item = saves'[k].item => j = k
      /\ \A k \in DOMAIN saves' :
           saves'[k].item \in DOMAIN stored => stored[saves'[k].item].changes \subseteq saves'[k].changes
  <2>1. \A k \in DOMAIN saves' : Kept(saves'[k].changes)
    BY <1>0, <1>6 DEF KeptInv
  <2>2. \A k \in DOMAIN saves : saves[k].item # details.item
    BY <1>0, <1>1 DEF DraftInv
  <2>3. \A j, k \in DOMAIN saves' : saves'[j].item = saves'[k].item => j = k
    BY <1>0, <1>6, <2>2 DEF SavesInv
  <2>4. details.item \in DOMAIN stored => stored[details.item].changes \subseteq details.draft.changes
    BY <1>0, <1>1 DEF DraftInv
  <2>5. \A k \in DOMAIN saves' :
           saves'[k].item \in DOMAIN stored => stored[saves'[k].item].changes \subseteq saves'[k].changes
    BY <1>0, <1>6, <2>4 DEF SavesInv
  <2> QED  BY <2>1, <2>3, <2>5
<1>8. \A k \in DOMAIN saves : ~saves[k].shared
  BY <1>0, <1>1 DEF SavesInv
<1>9. ListInv'
  BY <1>0, <1>1 DEF ListInv
<1>10. CASE details.mode = "AddItem"
  <2>1. details' = Closed
    BY <1>10 DEF Save
  <2>2. \A k \in DOMAIN saves' : ~saves'[k].shared
    BY <1>6, <1>8, <1>10
  <2>3. ViewTypes'
    BY <1>0, <1>1, <1>4, <2>1, ClosedView DEF ViewTypes
  <2>4. KeptInv'
    BY <1>0, <1>1, <1>7, <2>1, ClosedView DEF KeptInv, Kept
  <2>5. DraftInv'
    BY <2>1, ClosedView DEF DraftInv, Open
  <2>6. SavesInv'
    BY <1>1, <1>7, <2>2 DEF SavesInv
  <2> QED  BY <1>9, <2>3, <2>4, <2>5, <2>6 DEF ViewsInv
<1>11. CASE details.mode # "AddItem"
  <2> DEFINE handed == IF details.didEditItem THEN details.draft.changes ELSE details.handed
  <2>1. details' = [details EXCEPT !.isEditing = FALSE, !.didEditItem = FALSE, !.handed = handed]
    BY <1>11 DEF Save
  <2>2. /\ details.mode = "EditItem" /\ handed \in SUBSET Nat
        /\ handed = {} => ~details.didEditItem
        /\ details.didEditItem => handed # {}
    BY <1>0, <1>1, <1>11, ViewRecords DEF DraftInv
  <2> HIDE DEF handed
  <2>3. /\ details' \in Screened
        /\ details'.item = details.item /\ details'.mode = details.mode /\ details'.base = details.base
        /\ details'.draft = details.draft /\ details'.isEditing = FALSE /\ details'.didEditItem = FALSE
        /\ details'.handed = handed
    BY <1>0, <2>1, <2>2 DEF Screened
  <2>4. ViewTypes'
    BY <1>0, <1>1, <1>4, <2>3 DEF ViewTypes
  <2>5. KeptInv'
    BY <1>0, <1>1, <1>7, <2>3 DEF KeptInv, Kept
  <2>6. DraftInv'
    <3>1. CASE handed = {}
      <4>1. DOMAIN saves' = DOMAIN saves /\ \A k \in DOMAIN saves : saves'[k] = saves[k]
        BY <1>3, <1>4, <2>2, <3>1
      <4> QED  BY <1>0, <1>1, <2>3, <4>1 DEF DraftInv, Open
    <3>2. CASE handed # {}
      BY <1>0, <2>3, <3>2 DEF DraftInv
    <3> QED  BY <3>1, <3>2
  <2>7. SavesInv'
    BY <1>1, <1>6, <1>7, <1>8, <2>2, <2>3 DEF SavesInv, Open
  <2> QED  BY <1>9, <2>4, <2>5, <2>6, <2>7 DEF ViewsInv
<1> QED  BY <1>10, <1>11

\* The other steps leave what the invariant is about.
LEMMA ViewsRest ==
  ASSUME ViewsInv, UNCHANGED <<stored, listed, stale, details, saves, changes, cancelled>>
  PROVE  ViewsInv'
<1>1. ViewTypes'
  BY DEF ViewsInv, ViewTypes
<1>2. KeptInv'
  BY DEF ViewsInv, KeptInv, Kept
<1>3. DraftInv'
  BY DEF ViewsInv, DraftInv, Open
<1>4. SavesInv'
  BY DEF ViewsInv, SavesInv, Open
<1>5. ListInv'
  BY DEF ViewsInv, ListInv
<1> QED  BY <1>1, <1>2, <1>3, <1>4, <1>5 DEF ViewsInv

LEMMA ViewsStay ==
  ASSUME Unhurried, ViewsInv, [PanelNext]_panelVars PROVE ViewsInv'
<1>1. CASE UNCHANGED vars
  BY <1>1, ViewsRest DEF vars, itemVars
<1>2. CASE Next
  <2>1. CASE Refresh \/ SaveDelayed \/ SaveFails
    BY <2>1, RefreshKeeps, SaveDelayedKeeps, SaveFailsKeeps
  <2>2. CASE \E u \in Items : RemoteChange(u) \/ OpenItem(u)
    BY <2>2, RemoteChangeKeeps, OpenItemKeeps
  <2>3. CASE (\E q \in Queries \union {All} : TypeQuery(q)) \/ ApplyQuery \/ \E u \in Items : MoveFocus(u)
    BY <2>3, ViewsRest DEF TypeQuery, ApplyQuery, MoveFocus
  <2>4. CASE AddItem \/ ContentLoaded \/ Cancel
    BY <2>4, AddItemKeeps, ContentLoadedKeeps, CancelKeeps
  <2>5. CASE Edit \/ Exit \/ Change \/ MoveToTrashOrRestore \/ Save
    BY <2>5, FlagKeeps, ChangeDraftKeeps, SaveKeeps
  <2>6. CASE GoBack
    BY <2>6, CloseKeeps DEF GoBack, DetailsStep, listVars
  <2>7. CASE PageShown
    BY <2>7, CloseKeeps, ViewsRest DEF PageShown
  <2>8. CASE AutoFillSelected \/ BrowserStep \/ ScriptStep
    BY <2>8, ViewsRest DEF AutoFillSelected, BrowserStep, ScriptStep, itemVars
  <2> QED  BY <1>2, <2>1, <2>2, <2>3, <2>4, <2>5, <2>6, <2>7, <2>8 DEF Next
<1> QED  BY <1>1, <1>2 DEF PanelNext, Views, IconControls, panelVars

LEMMA ViewsStart == PanelInit => ViewsInv
<1> SUFFICES ASSUME PanelInit PROVE ViewsInv
  OBVIOUS
<1> DEFINE r == [changes |-> {}, trashed |-> FALSE]
<1>1. /\ stored = [u \in Items \ {NewItem} |-> r] /\ listed = stored
      /\ details = Closed /\ saves = <<>> /\ changes = 0 /\ cancelled = {}
  BY DEF PanelInit, Init
<1>2. r \in Contents /\ r.changes = {}
  BY DEF Contents
<1> HIDE DEF r
<1>3. saves \in Seq(Handovers) /\ DOMAIN saves = {}
  BY <1>1
<1>4. DOMAIN stored \subseteq Items /\ \A u \in DOMAIN stored : stored[u] \in Contents /\ stored[u].changes = {}
  BY <1>1, <1>2
<1>5. ViewTypes
  BY <1>1, <1>3, <1>4, ClosedView DEF ViewTypes
<1>6. KeptInv
  BY <1>1, <1>3, <1>4, ClosedView DEF KeptInv, Kept
<1>7. DraftInv
  BY <1>1, ClosedView DEF DraftInv, Open
<1>8. SavesInv
  BY <1>3 DEF SavesInv
<1>9. ListInv
  BY <1>1 DEF ListInv
<1> QED  BY <1>5, <1>6, <1>7, <1>8, <1>9 DEF ViewsInv

\* What a user cancels is in no later save, when the user opens and edits items only once
\* what was saved of them is stored and listed, and the syncer stores its changes between.
THEOREM CancelledEditsStayOut ==
  ASSUME Unhurried PROVE PanelSpec => []CancelledEditsAreNotSaved
<1>1. PanelInit => ViewsInv
  BY ViewsStart
<1>2. ViewsInv /\ [PanelNext]_panelVars => ViewsInv'
  BY ViewsStay
<1>3. ViewsInv => CancelledEditsAreNotSaved
  BY DEF ViewsInv, KeptInv, Kept, CancelledEditsAreNotSaved
<1> QED  BY <1>1, <1>2, <1>3, PTL DEF PanelSpec

\* And no save takes a change away that has been stored.
THEOREM StoredEditsSurvive ==
  ASSUME Unhurried PROVE PanelSpec => SavedEditsSurvive
<1> DEFINE Survives == \A u \in DOMAIN stored : u \in DOMAIN stored'
                                              /\ stored[u].changes \subseteq stored'[u].changes
<1>1. PanelInit => ViewsInv
  BY ViewsStart
<1>2. ViewsInv /\ [PanelNext]_panelVars => ViewsInv'
  BY ViewsStay
<1>3. ViewsInv /\ [PanelNext]_panelVars => [Survives]_vars
  <2> SUFFICES ASSUME ViewsInv, [PanelNext]_panelVars PROVE Survives \/ UNCHANGED vars
    OBVIOUS
  <2>1. CASE SaveDelayed
    <3>1. ViewTypes /\ saves # <<>>
      BY <2>1 DEF SaveDelayed, ViewsInv
    <3>2. 1 \in DOMAIN saves /\ Head(saves) = saves[1]
      <4>1. saves' = Tail(saves)
        BY <2>1 DEF SaveDelayed
      <4> QED  BY <3>1, <4>1, FirstSaveGoes
    <3>3. stored' = [u \in DOMAIN stored \union {saves[1].item} |->
                       IF u # saves[1].item THEN stored[u]
                       ELSE [changes |-> saves[1].changes, trashed |-> saves[1].trashed]]
      BY <2>1, <3>2 DEF SaveDelayed
    <3>4. saves[1].item \in DOMAIN stored => stored[saves[1].item].changes \subseteq saves[1].changes
      BY <3>2 DEF ViewsInv, SavesInv
    <3> QED  BY <3>3, <3>4
  <2>2. CASE \E u \in Items : RemoteChange(u)
    <3>1. PICK u \in Items : RemoteChange(u)
      BY <2>2
    <3>2. u \in DOMAIN stored /\ stored[u] \in Contents
      BY <3>1 DEF RemoteChange, ViewsInv, ViewTypes
    <3>3. stored' = [stored EXCEPT ![u].changes = stored[u].changes \union {changes'}]
      BY <3>1 DEF RemoteChange
    <3> QED  BY <3>2, <3>3 DEF Contents
  <2>3. CASE UNCHANGED stored
    BY <2>3
  <2>4. CASE Next
    <3>1. CASE Refresh \/ SaveFails \/ (\E q \in Queries \union {All} : TypeQuery(q)) \/ ApplyQuery
               \/ (\E u \in Items : MoveFocus(u) \/ OpenItem(u)) \/ AddItem
      BY <2>3, <3>1 DEF Refresh, SaveFails, TypeQuery, ApplyQuery, MoveFocus, OpenItem, AddItem
    <3>2. CASE ContentLoaded \/ Edit \/ Change \/ MoveToTrashOrRestore \/ Save \/ Cancel \/ Exit \/ GoBack
      BY <2>3, <3>2 DEF ContentLoaded, Edit, Change, MoveToTrashOrRestore, ChangeDraft, Save, Cancel,
                        CancelClicked, Exit, GoBack, DetailsStep
    <3>3. CASE AutoFillSelected \/ PageShown \/ BrowserStep \/ ScriptStep
      BY <2>3, <3>3 DEF AutoFillSelected, PageShown, BrowserStep, ScriptStep, itemVars
    <3> QED  BY <2>1, <2>2, <2>4, <3>1, <3>2, <3>3 DEF Next
  <2>5. Next \/ UNCHANGED vars
    BY DEF PanelNext, Views, IconControls, panelVars
  <2> QED  BY <2>4, <2>5
<1> HIDE DEF Survives
<1>4. PanelSpec => [][Survives]_vars
  BY <1>1, <1>2, <1>3, PTL DEF PanelSpec
<1> QED  BY <1>4 DEF SavedEditsSurvive, Survives
=============================================================================
