---------------------------- MODULE MCCatalogue ----------------------------
(* Instances of Catalogue for TLC.                                            *)
EXTENDS Catalogue, TLC

CONSTANTS x1, x2, x3, east, west

(* A spot of each city and, in between, one of a region that is no CityEnum.   *)
TwoCities == <<[id |-> x3, city |-> None], [id |-> x1, city |-> east], [id |-> x2, city |-> west]>>
(* Two spots of one city.                                                     *)
OneCity == <<[id |-> x1, city |-> east], [id |-> x2, city |-> east]>>

(* Nothing, a catalogue that lists what is there, and what a rebuild that died  *)
(* between its two deletions leaves.                                           *)
SomeStores == { <<>>, (x1 :> {}) @@ (east :> {x1}), (west :> {x2}) }
(* A spot that no city lists.                                                  *)
OldSpot == { x2 :> {} }
=============================================================================
