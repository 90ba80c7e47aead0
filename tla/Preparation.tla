---------------------------- MODULE Preparation ----------------------------
(***************************************************************************)
(* What the steps of a launch prepare: the Java of the instance and its    *)
(* files.  The two share no state; either goes on while the other waits.   *)
(***************************************************************************)
EXTENDS JavaSetup, UpdateSteps

PreparationNext ==
    \/ JavaNext /\ UNCHANGED fileVars
    \/ FilesNext /\ UNCHANGED javaVars

PreparationSpec ==
    JavaInit /\ FilesInit /\ [][PreparationNext]_<<javaVars, fileVars>>

-----------------------------------------------------------------------------
(* Whatever became of earlier launches, the Java that is taken without a    *)
(* check is the one that was checked and the launcher's own is whole, but   *)
(* for what a death of the program, or an installation that outlives its    *)
(* cancel, leaves (JavaIsKnown), and the game starts with all its files.    *)
GameIsPrepared == JavaIsKnown /\ GameIsComplete
=============================================================================
