------------------------------- MODULE WebApp -------------------------------
(***************************************************************************)
(* The web app before and after an account is opened: the setup with its   *)
(* sign-ins and copies of keys, and the sessions of accounts.  A session   *)
(* needs no more of the setup than that an account gets opened, which its  *)
(* Login stands for, so that a behaviour is one of either of them.         *)
(***************************************************************************)
EXTENDS Setup, AppSession

VARIABLE part    \* "setup" or "session"

webAppVars == <<part, setupVars, vars>>

WebAppInit ==
    /\ SetupInit /\ Init
    /\ \/ part = "setup"
       \/ part = "session" /\ stack = <<Slide("StoreList")>> /\ vault = "none"

SettingUp(act) == part = "setup" /\ act /\ UNCHANGED <<part, vars>>
InSession(act) == part = "session" /\ act /\ UNCHANGED <<part, setupVars>>

WebAppNext == SettingUp(SetupNext) \/ InSession(Next)

WebAppSpec == WebAppInit /\ [][WebAppNext]_webAppVars

(* Timers, polls and calls of the setup end, one by one; in a session      *)
(* timers fire and stores answer.                                          *)
FairWebAppSpec ==
    /\ WebAppSpec
    /\ WF_webAppVars(SettingUp(PushTimer)) /\ WF_webAppVars(SettingUp(LoginPolls))
    /\ WF_webAppVars(SettingUp(AccountInfo)) /\ WF_webAppVars(SettingUp(AppStarts))
    /\ \A n \in 1 .. MaxKeySyncs : WF_webAppVars(SettingUp(KeySyncStep(n)))
    /\ WF_webAppVars(InSession(AppStep))
=============================================================================
