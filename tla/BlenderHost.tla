----------------------------- MODULE BlenderHost -----------------------------
(***************************************************************************)
(* One Blender for both helpers: the actions of ovphysx_host_helper.py and *)
(* the calls of the workflow server run on its main thread, one at a time: *)
(* a replay in its loop lets nothing in between.                           *)
(***************************************************************************)
EXTENDS BlenderWorkflow, OvPhysXHelper

CONSTANTS MaxWork   \* calls, actions and changes around them

ASSUME HostAssumption == MaxWork \in Nat

VARIABLES work
vars == <<wfVars, ovVars, work>>

Init == WfInit /\ OvInit /\ work = 0

Work == work < MaxWork /\ work' = work + 1

\* The main thread takes one piece of code: of a waiting call, or of an action.
Asks == Work /\ Server /\ UNCHANGED ovVars
RunsCall == playing = Still /\ Execute /\ UNCHANGED <<ovVars, work>>
RunsAction == Work /\ up /\ dispatch /\ UNCHANGED wfVars
GoesOn == (Render \/ ReplayEnds) /\ UNCHANGED <<wfVars, work>>
TimesOut == Timeout /\ UNCHANGED <<ovVars, work>>

\* Blender's scenes end with it; the files stay.
Closes == Work /\ Close /\ BlenderRestarts
Opens == Open /\ UNCHANGED <<ovVars, work>>
Saves == Work /\ Save /\ UNCHANGED ovVars
Installs == Work /\ playing = Still /\ RuntimeChanges /\ UNCHANGED wfVars

Next == Asks \/ TimesOut \/ RunsCall \/ RunsAction \/ GoesOn \/ Closes \/ Opens \/ Saves \/ Installs

\* The server's socket has a timeout.  Blender promises nothing.
Spec == Init /\ [][Next]_vars /\ WF_vars(TimesOut)
=============================================================================
