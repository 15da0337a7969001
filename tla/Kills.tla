------------------------------- MODULE Kills -------------------------------
(***************************************************************************)
(* What commands that are killed at any step leave, and what the next one  *)
(* makes of it: builds of a project (BuildResolution) or updates of the    *)
(* CLI (SelfUpdate).  A behaviour is of one subject; the other rests.      *)
(***************************************************************************)
EXTENDS BuildResolution, SelfUpdate

VARIABLE subject  \* whose commands run: "builds" or "updates"

BuildsRest == Init /\ intended = NoLock /\ kind = "flock"

KillsInit ==
    \/ subject = "builds" /\ Init /\ UpdateInit
    \/ subject = "updates" /\ UpdateInit /\ BuildsRest

BuildStep(A) == subject = "builds" /\ A /\ UNCHANGED <<subject, updateVars>>
UpdateStep == subject = "updates" /\ UpdateNext /\ UNCHANGED <<subject, vars>>

KillsNext == BuildStep(Next) \/ UpdateStep

KillsSpec ==
    /\ KillsInit /\ [][KillsNext]_<<subject, vars, updateVars>>
    /\ \A b \in Builds : WF_<<subject, vars, updateVars>>(BuildStep(Progress(b)))

-----------------------------------------------------------------------------
(* What ends well is whole: the files that a build installs are of that    *)
(* build, and an update that is left alone sweeps up after killed ones.    *)
EndsWhole == [][InstallsTogether /\ EndsClean]_<<vars, updateVars>>
=============================================================================
