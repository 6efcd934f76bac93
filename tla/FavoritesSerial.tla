--------------------------- MODULE FavoritesSerial ---------------------------
(***************************************************************************)
(* Favorites under the circumstances in which its read-then-write toggles  *)
(* are meant to be used, and the proof obligation that they then do what   *)
(* FavoriteSet promises.  The circumstances, each of which the code leaves *)
(* to chance:                                                              *)
(*   - the tap windows (from the tap to the closure that writes) of the    *)
(*     account's devices do not overlap, nor do they overlap another       *)
(*     device's unacknowledged writes;                                     *)
(*   - a cell is not reused for another spot during a tap window;          *)
(*   - the server refuses no write;                                        *)
(*   - offline reads happen only when the account has one device.          *)
(***************************************************************************)
EXTENDS Favorites

(* A tap under way is not mistaken for none.                                  *)
ASSUME RequestsAssumption == None \notin [kind : {"add", "remove"}, spot : Spots]

(* The window of a tap, in SpotCollectionViewCell.favoriteButtonDidTap.        *)
InWindow(t) ==
    closure[t].kind # "load" /\ closure[t].phase \in {"reading", "answered"}

WindowsApart ==
    \A t \in Closures : InWindow(t) =>
        /\ \A u \in Closures : InWindow(u) => u = t
        /\ \A d \in Devices : d # DeviceFor(t) => pending[d] = <<>>

CellsKept == \A t \in Closures : InWindow(t) => Shown(t) = closure[t].tapped

OneDevice == \A d, e \in Devices : d = e

Serial ==
    /\ WindowsApart'
    /\ CellsKept'
    /\ ~\E d \in Devices : Reject(d)
    /\ OneDevice \/ ~\E t \in Closures : AnswerFromCache(t)

SerialSpec == Init /\ [][Next /\ Serial]_vars

-----------------------------------------------------------------------------
(* The account's favourites: what the server holds, with the writes that a     *)
(* device has already made but the server has not acknowledged.               *)
View ==
    IF \E d \in Devices : pending[d] # <<>>
    THEN Overlay(document, pending[CHOOSE d \in Devices : pending[d] # <<>>])
    ELSE document

Request ==
    IF \E t \in Closures : InWindow(t)
    THEN LET t == CHOOSE t \in Closures : InWindow(t)
         IN [kind |-> closure[t].kind, spot |-> closure[t].tapped]
    ELSE None

Abstract == INSTANCE FavoriteSet WITH favorites <- ToSet(View.ids), request <- Request

(* Refinement: seen from the account, every tap toggles the tapped spot in one *)
(* step or does nothing, whatever queues, caches, lost acknowledgements and    *)
(* restarts lie below.                                                        *)
TogglesAreAtomic == Abstract!Spec

(* An account with one device can trust its cache: with the device's own       *)
(* writes on top, a cached document shows what the server will show.           *)
CacheAgrees ==
    OneDevice => \A d \in Devices : cache[d] # Missing =>
        Overlay(cache[d], pending[d]) = Overlay(document, pending[d])
=============================================================================
