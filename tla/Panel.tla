-------------------------------- MODULE Panel --------------------------------
(***************************************************************************)
(* The panel of the browser extension: the list and details views, and the *)
(* icons beside the items.  The two have no state in common and no step of *)
(* one depends on the other, so that a behaviour is one of either of them. *)
(***************************************************************************)
EXTENDS ItemViews, Icons

VARIABLE part    \* "views" or "icons"

panelVars == <<part, vars, iconVars>>

PanelInit == part \in {"views", "icons"} /\ Init /\ IconsInit

Views(step) == part = "views" /\ step /\ UNCHANGED <<part, iconVars>>
IconControls(step) == part = "icons" /\ step /\ UNCHANGED <<part, vars>>

PanelNext == Views(Next) \/ IconControls(IconsNext)

(* The event loop goes on with what it has: the messages and timers of the *)
(* calls, the reads of the disk cache and the requests of the client.      *)
PanelSpec ==
    /\ PanelInit /\ [][PanelNext]_panelVars
    /\ WF_panelVars(Views(ScriptStep)) /\ WF_panelVars(IconControls(IconsStep))
=============================================================================
