--------------------------- MODULE MCStaffActions ---------------------------
(* Instances of StaffActions for TLC. *)
EXTENDS StaffActions, TLC

CONSTANTS own, gm, player, hero, r1, r2

MCOwnerOf == hero :> player
MCInitialLevel == own :> 4 @@ gm :> 3 @@ player :> 0
MCMayRun == r1 :> DOMAIN Actions @@ r2 :> {"password", "gmlevel", "edit", "editNode"}
=============================================================================
