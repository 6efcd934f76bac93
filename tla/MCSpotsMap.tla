------------------------------ MODULE MCSpotsMap ------------------------------
(***************************************************************************)
(* Steps up and down, from five points to the longest that the card        *)
(* follows, on a screen that ends a little below the safe area.             *)
(***************************************************************************)
EXTENDS SpotsMap

SmallAndLargeSteps == {-95, -30, -5, 5, 25, 95}
AboveTheCard == -350
FootOfScreen == 35
=============================================================================
