------------------------------- MODULE SignIn --------------------------------
(***************************************************************************)
(* Signing in to the cloud service (webui/auth.ts, OAuthFlow).  A flow     *)
(* opens a window and polls one entry of the local storage, in which the   *)
(* page that the service redirects to (auth_receiver.ts) leaves the token  *)
(* and the state it was called with.  All flows poll the same entry.       *)
(***************************************************************************)
EXTENDS Naturals, Sequences

VARIABLES
    flows,    \* the sign-ins, in the order in which they were started
    token     \* the flow whose token is in the local storage, or 0

signInVars == <<flows, token>>

(* A window that the app has no reference to (Firefox, and the tab of the  *)
(* Chrome extension) is not seen to close.                                 *)
Flow == [result : {"none", "credentials", "failed"},
         tracked : BOOLEAN,
         window : {"open", "finished", "closed"}]

SignInTypeOK == flows \in Seq(Flow) /\ token \in 0 .. Len(flows)

SignInInit == flows = <<>> /\ token = 0

Polling(f) == flows[f].result = "none"

(* OAuthFlow.authenticate: a token that is left over is removed.           *)
Authenticate ==
    /\ \E tracked \in BOOLEAN :
          flows' = Append(flows, [result |-> "none", tracked |-> tracked, window |-> "open"])
    /\ token' = 0

(* The user signs in; the page stores the token and closes the window.     *)
ReceiveToken(f) ==
    /\ flows[f].window = "open"
    /\ flows' = [flows EXCEPT ![f].window = "finished"]
    /\ token' = f

CloseWindow(f) ==
    /\ flows[f].window = "open"
    /\ flows' = [flows EXCEPT ![f].window = "closed"]
    /\ UNCHANGED token

(* A faulty variant: the closed window is noticed before the token.        *)
PollResultWindowFirst(f) ==
    IF flows[f].tracked /\ flows[f].window # "open" THEN "failed"
    ELSE IF token = f THEN "credentials"
    ELSE IF token # 0 THEN "failed"
    ELSE "none"

(* What a flow finds when it looks: a token is taken whoever it is for,    *)
(* and only without one the closed window counts.                          *)
PollResult(f) ==
    IF token = f THEN "credentials"
    ELSE IF token # 0 \/ (flows[f].tracked /\ flows[f].window # "open") THEN "failed"
    ELSE "none"

Poll(f) ==
    /\ Polling(f)
    /\ PollResult(f) # "none"
    /\ flows' = [flows EXCEPT ![f].result = PollResult(f),
                              ![f].window = IF flows[f].tracked /\ @ = "open" THEN "closed" ELSE @]
    /\ token' = 0
=============================================================================
