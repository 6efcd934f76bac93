----------------------------- MODULE FavoriteSet -----------------------------
(***************************************************************************)
(* What the favourite button promises: a set of spots, and taps that each  *)
(* toggle exactly the spot that was tapped, in one step, or have no effect.*)
(* This is the meaning of favoriteButtonDidTap                             *)
(* (Search/SpotCollectionViewCell.swift); Favorites is what it does.       *)
(***************************************************************************)
CONSTANTS Spots, None

VARIABLES favorites, request

Requests == [kind : {"add", "remove"}, spot : Spots]

Init == favorites \in SUBSET Spots /\ request = None

(* A heart is tapped.                                                         *)
Ask ==
    /\ request = None
    /\ request' \in Requests
    /\ UNCHANGED favorites

(* The tap takes effect on the tapped spot, and on no other.                   *)
Perform ==
    /\ request # None
    /\ favorites' = IF request.kind = "add" THEN favorites \cup {request.spot}
                                            ELSE favorites \ {request.spot}
    /\ request' = None

(* The tap is given up: a failed read, nothing to remove, the app killed.      *)
Drop ==
    /\ request # None
    /\ request' = None
    /\ UNCHANGED favorites

Next == Ask \/ Perform \/ Drop

Spec == Init /\ [][Next]_<<favorites, request>>
=============================================================================
