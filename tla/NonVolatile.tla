------------------------------ MODULE NonVolatile ------------------------------
(***************************************************************************)
(* What a non-volatile configuration promises whoever sets it: saving is   *)
(* all or nothing as far as anyone can tell, and what was saved is given   *)
(* back after any loss of power, except that a save cut short may leave    *)
(* nothing.  It does not promise what loading nothing gives.               *)
(*                                                                         *)
(* stored is the set of the one configuration kept, or empty.              *)
(***************************************************************************)
CONSTANTS
  Configs,   \* all configurations
  Default    \* the one a start begins with

VARIABLES inForce, stored, saving

vars == <<inForce, stored, saving>>

Init ==
  /\ inForce = Default
  /\ stored = {}
  /\ saving = FALSE

Change ==
  /\ ~saving
  /\ inForce' \in Configs
  /\ UNCHANGED <<stored, saving>>

Begin ==
  /\ ~saving
  /\ saving' = TRUE
  /\ UNCHANGED <<inForce, stored>>

Forget ==
  /\ saving
  /\ stored' = {}
  /\ UNCHANGED <<inForce, saving>>

Commit ==
  /\ saving
  /\ saving' = FALSE
  /\ stored' = {inForce}
  /\ UNCHANGED inForce

Load ==
  /\ ~saving
  /\ stored # {}
  /\ stored = {inForce'}
  /\ UNCHANGED <<stored, saving>>

LoadNothing ==
  /\ ~saving
  /\ stored = {}
  /\ inForce' \in Configs
  /\ UNCHANGED <<stored, saving>>

PowerLoss ==
  /\ inForce' = Default
  /\ saving' = FALSE
  /\ UNCHANGED stored

Next == Change \/ Begin \/ Forget \/ Commit \/ Load \/ LoadNothing \/ PowerLoss

Spec == Init /\ [][Next]_vars
=============================================================================
