-------------------------- MODULE MCFavoritesSerial --------------------------
(* One city screen of one phone, used without hurry.                          *)
EXTENDS FavoritesSerial

CONSTANTS phone, search, c1

OnPhone == [s \in Screens |-> phone]
CityKind == [s \in Screens |-> "city"]
CellsOnSearch == [c \in Cells |-> search]
AnySaved == UNION {SetToSeqs(S) : S \in SUBSET Spots}

Symmetry == Permutations(Spots) \cup Permutations(Closures)
=============================================================================
