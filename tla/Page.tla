-------------------------------- MODULE Page ---------------------------------
(***************************************************************************)
(* Filling in the forms of a web page: AutoFiller (webui/autofill.ts)      *)
(* through ChromeBrowserAccess (webui/browser_access.ts), which calls the  *)
(* scripts that were injected into the active tab (webui/page.ts).  Every  *)
(* time the panel is shown another instance of the script is injected;     *)
(* all of them answer.                                                     *)
(***************************************************************************)
EXTENDS Rpc, FiniteSets

CONSTANTS
    Tabs,
    Pages,              \* the pages there are, with the fields of their forms
    MaxDocs,            \* bound on the documents loaded into the tabs
    MaxScripts,         \* bound on the scripts injected into a document
    MaxFills,           \* bound on the calls of autofill
    WaitsForFills       \* whether the user waits for a fill to end before
                        \* switching tabs or asking for another

NoPage == "no page"    \* url of tabs the extension may not look at

ASSUME PageAssumption ==
    /\ Tabs # {}
    /\ MaxDocs \in Nat /\ MaxScripts \in Nat /\ MaxFills \in Nat
    /\ WaitsForFills \in BOOLEAN

VARIABLES
    docs,        \* the documents that were loaded
    tabs,        \* the document of each tab, and the scripts in it
    activeTab,
    currentUrl,  \* what the app was told about the active tab
    fills,       \* the calls of autofill
    filled       \* what has been filled into the fields of documents

pageVars == <<calls, wire, docs, tabs, activeTab, currentUrl, fills, filled>>

FillEnded == {"done", "failed"}
Unconnected == "unconnected"    \* its promise never settles
FillOver == FillEnded \union {Unconnected}
Field == [type : {"Text", "Password", "Email", "Other"},
          name : {"password", "user", "other"}, visible : BOOLEAN]

PageTypeOK ==
    /\ RpcTypeOK(Tabs, {"find-fields", "autofill"})
    /\ docs \in Seq(Pages) /\ Len(docs) <= MaxDocs
    /\ tabs \in [Tabs -> [doc : DOMAIN docs, asked : Seq(BOOLEAN)]]
    /\ activeTab \in Tabs
    /\ currentUrl \in {p.url : p \in Pages}
    /\ fills \in Seq([step : {"content", "finding", "found", "filling"} \union FillOver,
                      call : 0 .. Len(calls), asked : 0 .. Len(docs)])

Url(t) == docs[tabs[t].doc].url

PageInit(page) ==
    /\ RpcInit
    /\ docs = <<page>>
    /\ tabs = [t \in Tabs |-> [doc |-> 1, asked |-> <<>>]]
    /\ activeTab = CHOOSE t \in Tabs : TRUE
    /\ currentUrl = NoPage
    /\ fills = <<>> /\ filled = {}

-----------------------------------------------------------------------------
(* AutoFiller.autofill: which value goes into which field.                 *)

IsPasswordField(f) == f.name = "password" \/ f.type = "Password"
IsUsernameField(f) == ~IsPasswordField(f) /\ (f.name = "user" \/ f.type = "Email")

Shown(form) == {k \in DOMAIN form : form[k].visible}
Passwords(form) == {k \in Shown(form) : IsPasswordField(form[k])}
Usernames(form) == {k \in Shown(form) : IsUsernameField(form[k])}

Candidates(form) == {k \in Shown(form) : form[k].type \in {"Text", "Email"}}

(* If only the password was found, the first text field is for the account.*)
Guessed(form) ==
    IF Passwords(form) # {} /\ Usernames(form) = {}
    THEN {k \in Candidates(form) : \A j \in Candidates(form) : k <= j}
    ELSE {}

Entries(form) ==
    (Passwords(form) \X {"password"}) \union ((Usernames(form) \union Guessed(form)) \X {"account"})

-----------------------------------------------------------------------------
(* The browser *)

(* Nothing of a fill that did not get to the tab is under way any more.    *)
Filling == \E f \in DOMAIN fills : fills[f].step \notin FillOver

SwitchTab ==
    /\ WaitsForFills => ~Filling
    /\ activeTab' \in Tabs \ {activeTab}
    /\ UNCHANGED <<calls, wire, docs, tabs, currentUrl, fills, filled>>

(* Messages to the scripts of the old document are dropped with it.        *)
Navigate(t, page) ==
    /\ Len(docs) < MaxDocs
    /\ docs' = Append(docs, page)
    /\ tabs' = [tabs EXCEPT ![t] = [doc |-> Len(docs) + 1, asked |-> <<>>]]
    /\ wire' = {m \in wire : m.type = "rpc-reply" \/ m.peer # t}
    /\ UNCHANGED <<calls, activeTab, currentUrl, fills, filled>>

(* notifyPageChanged                                                       *)
ShowPanel ==
    /\ currentUrl' = Url(activeTab)
    /\ IF Url(activeTab) = NoPage THEN UNCHANGED tabs
       ELSE /\ Len(tabs[activeTab].asked) < MaxScripts
            /\ tabs' = [tabs EXCEPT ![activeTab].asked = Append(@, FALSE)]
    /\ UNCHANGED <<calls, wire, docs, activeTab, fills, filled>>

-----------------------------------------------------------------------------
(* The calls of the extension *)

AutoFill ==
    /\ Len(fills) < MaxFills
    /\ WaitsForFills => ~Filling
    /\ fills' = Append(fills, [step |-> "content", call |-> 0, asked |-> 0])
    /\ UNCHANGED <<calls, wire, docs, tabs, activeTab, currentUrl, filled>>

(* connectToCurrentTab finds the active tab, and the call goes to it.      *)
CallTab(f, method, step) ==
    /\ Call(activeTab, method)
    /\ fills' = [fills EXCEPT ![f].step = step, ![f].call = Len(calls) + 1]
    /\ UNCHANGED <<docs, tabs, activeTab, currentUrl, filled>>

(* findForms, when the content of the item has been read.                  *)
FindForms(f) == fills[f].step = "content" /\ CallTab(f, "find-fields", "finding")

EndsUncalled(f, step, end) ==
    /\ fills[f].step = step
    /\ fills' = [fills EXCEPT ![f].step = end]
    /\ UNCHANGED <<calls, wire, docs, tabs, activeTab, currentUrl, filled>>

(* The content cannot be read, or the window has no active tab.            *)
ContentFails(f) == EndsUncalled(f, "content", "failed")

FillForms(f) == fills[f].step = "found" /\ CallTab(f, "autofill", "filling")

(* Without an active tab autofill drops the error that findForms reports.  *)
ConnectFails(f) == EndsUncalled(f, "found", Unconnected)

(* What the promise of a call goes on with when it settles.                *)
Settle(id, ok, result) ==
    IF calls[id].outcome # "none" THEN UNCHANGED fills
    ELSE LET f == CHOOSE g \in DOMAIN fills : fills[g].call = id
         IN fills' = [fills EXCEPT
                ![f].step = IF ~ok THEN "failed" ELSE IF @ = "finding" THEN "found" ELSE "done",
                ![f].asked = IF ok /\ fills[f].step = "finding" THEN result ELSE @]

CallTimesOut(id) ==
    /\ Timeout(id)
    /\ Settle(id, FALSE, 0)
    /\ UNCHANGED <<wire, docs, tabs, activeTab, currentUrl, filled>>

ReplyArrives(m) ==
    /\ Reply(m)
    /\ Settle(m.id, TRUE, m.result)
    /\ UNCHANGED <<docs, tabs, activeTab, currentUrl, filled>>

-----------------------------------------------------------------------------
(* The page scripts *)

ReplyOf(m, script, result) ==
    [type |-> "rpc-reply", id |-> m.id, script |-> script, result |-> result]

(* The messages to a tab arrive in the order in which they were sent.      *)
Receives(m, method) ==
    /\ m \in wire /\ m.type = "rpc-call" /\ calls[m.id].method = method
    /\ \A n \in wire : n.type = "rpc-call" /\ n.peer = m.peer => m.id <= n.id

(* Every script lists the fields and remembers them.                       *)
HandleFindFields(m) ==
    /\ Receives(m, "find-fields")
    /\ LET scripts == DOMAIN tabs[m.peer].asked IN
        /\ tabs' = [tabs EXCEPT ![m.peer].asked = [s \in scripts |-> TRUE]]
        /\ wire' = (wire \ {m}) \union {ReplyOf(m, s, tabs[m.peer].doc) : s \in scripts}
    /\ UNCHANGED <<calls, docs, activeTab, currentUrl, fills, filled>>

HandleAutofillBy(m, remembers) ==
    /\ Receives(m, "autofill")
    /\ LET scripts == DOMAIN tabs[m.peer].asked
           doc == tabs[m.peer].doc
           asked == fills[CHOOSE g \in DOMAIN fills : fills[g].call = m.id].asked
       IN /\ filled' = filled \union
                 (IF \E s \in scripts : remembers[s]
                  THEN {[doc |-> doc, asked |-> asked, key |-> e[1], value |-> e[2]] :
                            e \in {d \in Entries(docs[asked].form) : d[1] \in DOMAIN docs[doc].form}}
                  ELSE {})
          /\ wire' = (wire \ {m}) \union {ReplyOf(m, s, 0) : s \in scripts}
    /\ UNCHANGED <<calls, docs, tabs, activeTab, currentUrl, fills>>

(* Faulty variant: a script that remembers no fields looks for them.       *)
HandleAutofillAnew(m) == HandleAutofillBy(m, [s \in DOMAIN tabs[m.peer].asked |-> TRUE])

(* The scripts that remember fields fill the entries into them by number.  *)
HandleAutofill(m) == HandleAutofillBy(m, tabs[m.peer].asked)

PageStep ==
    \/ \E f \in DOMAIN fills : FindForms(f) \/ FillForms(f)
    \/ \E m \in wire : HandleFindFields(m) \/ HandleAutofill(m) \/ ReplyArrives(m)
    \/ \E id \in DOMAIN calls : CallTimesOut(id)

-----------------------------------------------------------------------------
(* A value is filled only into the document whose fields the fill listed,  *)
(* into a field that is shown, and which is for it: a password into a      *)
(* password field and nothing but it (autofill.ts 44-152, page.ts), also   *)
(* if the page goes away meanwhile.  Not so if fills overlap, or the user  *)
(* switches tabs between the two calls, which both take the tab that is    *)
(* active then (browser_access.ts 257-308).                                *)
FillsFitThePage ==
    \A e \in filled :
        /\ e.doc = e.asked
        /\ LET f == docs[e.doc].form[e.key]
           IN f.visible /\ (e.value = "password" <=> IsPasswordField(f))

(* Every fill comes to an end, also if the page is left meanwhile, nobody  *)
(* answers or every script does (rpc.ts 357-397).  The exception is one    *)
(* that finds no active tab for its second call (browser_access.ts 269).   *)
FillsEnd ==
    \A f \in 1 .. MaxFills :
        f \in DOMAIN fills ~>
            f \in DOMAIN fills /\ fills[f].step \in FillOver
=============================================================================
