----------------------------- MODULE MCFavorites -----------------------------
(* Instances of Favorites for TLC.                                            *)
EXTENDS Favorites

CONSTANTS phone, tablet, search, profile, c1, c2

(* The search tab of a phone and the profile tab of a tablet, one account.                                   *)
DeviceEach == (search :> phone) @@ (profile :> tablet)
(* The search tab and the profile tab of one phone.                           *)
BothOnPhone == (search :> phone) @@ (profile :> phone)
OnPhone == [s \in Screens |-> phone]

CityKind == [s \in Screens |-> "city"]
FavoritesKind == [s \in Screens |-> "favorites"]
TabKinds == (search :> "city") @@ (profile :> "favorites")

OneCellEach == (c1 :> search) @@ (c2 :> profile)
CellsOnSearch == [c \in Cells |-> search]
CellsOnProfile == [c \in Cells |-> profile]

AnySaved == UNION {SetToSeqs(S) : S \in SUBSET Spots}
AllSaved == SetToSeqs(Spots)

SpotsAndClosures == Permutations(Spots) \cup Permutations(Closures)
SpotsClosuresCells == SpotsAndClosures \cup Permutations(Cells)
=============================================================================
