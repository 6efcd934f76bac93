------------------------------ MODULE Favorites ------------------------------
(***************************************************************************)
(* The favourite button of a spot cell and everything a tap on it touches: *)
(* the user document's "favoriteSpots" array on the server, the Firestore  *)
(* client of each device (cached document, queue of pending writes), the   *)
(* main queue that runs the completion closures, the screens whose cells   *)
(* carry the hearts, and the shared progress HUD that blocks a screen      *)
(* while a removal or a first load is under way.                           *)
(*                                                                         *)
(* One member of Closures stands for one run of a handler: the load that   *)
(* viewDidLoad starts, or one tap, together with the completion closures   *)
(* that capture it.  A signed-in user is assumed (Auth.currentUser # nil). *)
(*                                                                         *)
(* Sources: Search/SpotCollectionViewCell.swift,                           *)
(* Search/SpotsViewController.swift,                                       *)
(* Search/SpotsCollectionViewController.swift,                             *)
(* Profile/FavoriteSpotsViewController.swift, Extension/HUD.swift and the  *)
(* vendored Firestore core the calls end in.                               *)
(***************************************************************************)
EXTENDS Naturals, Sequences, SequencesExt

CONSTANTS
    Devices,      \* devices signed in with the same account
    Screens,      \* view controllers that show spots, each opened at most once per run
    Cells,        \* reusable collection view cells
    Closures,     \* handler runs; its size bounds the taps and loads of a behaviour
    Spots,        \* spot ids
    DeviceOf,     \* the device of a screen
    KindOf,       \* "city" (SpotsViewController) or "favorites" (FavoriteSpotsViewController)
    ScreenOf,     \* the screen whose reuse pool a cell belongs to
    SavedFavorites, \* the arrays an earlier use of the app may have left behind
    None,         \* nil
    MaxRestarts   \* bound on the restarts of the app, over all devices

ASSUME ScreensAssumption ==
    /\ DeviceOf \in [Screens -> Devices]
    /\ KindOf \in [Screens -> {"city", "favorites"}]
    /\ ScreenOf \in [Cells -> Screens]

ASSUME NoneAssumption ==
    None \notin Devices \cup Screens \cup Cells \cup Closures \cup Spots

ASSUME SavedAssumption ==
    \A ids \in SavedFavorites : ids \in Seq(Spots) /\ IsInjective(ids)

ASSUME RestartsAssumption == MaxRestarts \in Nat

VARIABLES
    document,   \* the user document on the server
    cache,      \* per device: the document in Firestore's local cache
    pending,    \* per device: queue of writes the server has not acknowledged
    stage,      \* per device: how far the first pending write has come
    mainQueue,  \* per device: closures waiting for the main queue, in order
    closure,    \* per handler run: where it is and what it has captured
    cell,       \* per cell: the spot it shows, its heart, whether it can be touched
    screen,     \* per screen: its lists and its DispatchGroup
    shared,     \* per device: HUD.shared.hud, named by the run that created it
    covering,   \* per screen: the HUD views still lying over it
    restarts    \* number of restarts so far

vars == <<document, cache, pending, stage, mainQueue, closure, cell, screen,
          shared, covering, restarts>>

-----------------------------------------------------------------------------
(* Documents and writes.  A dictionary is a document too: "bare" has no       *)
(* favoriteSpots field, which is also what updateData([:]) writes.            *)

Missing == [state |-> "missing", ids |-> <<>>]
Bare == [state |-> "bare", ids |-> <<>>]
Array(ids) == [state |-> "array", ids |-> ids]

Documents == [state : {"missing", "bare", "array"}, ids : Seq(Spots)]
NoAnswer == [state |-> "none", ids |-> <<>>]
Error == [state |-> "error", ids |-> <<>>]
Answers == [state : {"missing", "bare", "array", "none", "error"}, ids : Seq(Spots)]
Writes == [data : Documents, callback : Closures \cup {None}]

(* updateData carries Precondition.Exists(true) and a mask of the keys given. *)
Patch(doc, data) ==
    IF doc.state # "missing" /\ data.state = "array" THEN data ELSE doc

IsLastAssignment(q, i) ==
    /\ q[i].data.state = "array"
    /\ \A j \in DOMAIN q : j > i => q[j].data.state # "array"

(* The document as the client sees it: the base with its own writes on top.   *)
Overlay(doc, q) ==
    IF doc.state # "missing" /\ \E i \in DOMAIN q : IsLastAssignment(q, i)
    THEN q[CHOOSE i \in DOMAIN q : IsLastAssignment(q, i)].data
    ELSE doc

IsFirstIndex(ids, x, i) == ids[i] = x /\ \A j \in 1..(i - 1) : ids[j] # x
FirstIndex(ids, x) == CHOOSE i \in DOMAIN ids : IsFirstIndex(ids, x, i)

(* Variants named ...Variant, here and below, are not part of the              *)
(* specification: each is its neighbour with one mistake in it, and shows that *)
(* some property would notice.  This one appends without looking.              *)
AddDataVariant(answer, x) == Array(Append(answer.ids, x))
(* Keeps the entry it was to take out, and loses those behind it.              *)
RemoveDataVariant(answer, x) ==
    Array(SubSeq(answer.ids, 1, FirstIndex(answer.ids, x)))

(* What an add and a remove write for spot x, given the dictionary they read. *)
AddData(answer, x) ==
    IF answer.state = "bare" THEN Array(<<x>>)
    ELSE IF Contains(answer.ids, x) THEN Bare
    ELSE Array(Append(answer.ids, x))
RemoveData(answer, x) ==
    Array(RemoveAt(answer.ids, FirstIndex(answer.ids, x)))

-----------------------------------------------------------------------------
Terminal == {"done", "failed", "dead"}
Phases == {"unused", "reading", "answered", "writing", "acked", "rejected",
           "finishing", "reloading"} \cup Terminal

Unused == [phase |-> "unused", kind |-> "load", screen |-> None, cell |-> None,
           tapped |-> None, answer |-> NoAnswer, data |-> Bare]
Reading(kind, s, c, x) ==
    [phase |-> "reading", kind |-> kind, screen |-> s, cell |-> c,
     tapped |-> x, answer |-> NoAnswer, data |-> Bare]
(* The closure is released: nothing it captured is kept but its screen.       *)
Released(r, phase) ==
    [phase |-> phase, kind |-> r.kind, screen |-> r.screen, cell |-> None,
     tapped |-> None, answer |-> NoAnswer, data |-> Bare]

ClosureRecords ==
    [phase : Phases, kind : {"load", "add", "remove"},
     screen : Screens \cup {None}, cell : Cells \cup {None},
     tapped : Spots \cup {None}, answer : Answers, data : Documents]

DeviceFor(t) == DeviceOf[closure[t].screen]
Shown(t) == cell[closure[t].cell].spot      \* self.spot, read when it is needed
Covered(s) == covering[s] # {}

ClosedScreen == [open |-> FALSE, heartIDs |-> {}, listed |-> {},
                 awaiting |-> {}, leaving |-> {}]
ScreenRecords == [open : BOOLEAN, heartIDs : SUBSET Spots, listed : SUBSET Spots,
                  awaiting : SUBSET Spots, leaving : SUBSET Spots]
EmptyCell == [spot |-> None, isSelected |-> FALSE, onScreen |-> FALSE]
CellRecords == [spot : Spots \cup {None}, isSelected : BOOLEAN, onScreen : BOOLEAN]

(* The invariant that gives every variable its type.                          *)
TypeOK ==
    /\ document \in Documents
    /\ cache \in [Devices -> Documents]
    /\ pending \in [Devices -> Seq(Writes)]
    /\ stage \in [Devices -> {"waiting", "applied", "seen"}]
    /\ mainQueue \in [Devices -> Seq(Closures)]
    /\ closure \in [Closures -> ClosureRecords]
    /\ cell \in [Cells -> CellRecords]
    /\ screen \in [Screens -> ScreenRecords]
    /\ shared \in [Devices -> Closures \cup {None}]
    /\ covering \in [Screens -> SUBSET Closures]
    /\ restarts \in 0..MaxRestarts

(* A user document exists unless registration was cut off before its setData. *)
Init ==
    /\ document \in {Missing, Bare} \cup {Array(ids) : ids \in SavedFavorites}
    /\ cache = [d \in Devices |-> Missing]
    /\ pending = [d \in Devices |-> <<>>]
    /\ stage = [d \in Devices |-> "waiting"]
    /\ mainQueue = [d \in Devices |-> <<>>]
    /\ closure = [t \in Closures |-> Unused]
    /\ cell = [c \in Cells |-> EmptyCell]
    /\ screen = [s \in Screens |-> ClosedScreen]
    /\ shared = [d \in Devices |-> None]
    /\ covering = [s \in Screens |-> {}]
    /\ restarts = 0

-----------------------------------------------------------------------------
(* The shared HUD.  showLoading makes a new view and forgets the previous     *)
(* one; hideLoading dismisses only the newest (its 0.5 s delay is abstracted: *)
(* the screen merely stays covered a little longer).                          *)
ShowLoading(t, s) ==
    /\ shared' = [shared EXCEPT ![DeviceOf[s]] = t]
    /\ covering' = [covering EXCEPT ![s] = @ \cup {t}]

HideLoading(d) ==
    /\ covering' = [s \in Screens |->
                      IF DeviceOf[s] = d THEN covering[s] \ {shared[d]} ELSE covering[s]]
    /\ UNCHANGED shared

(* collectionView.reloadData(): every visible cell goes back to the pool.     *)
ReloadData(s) ==
    cell' = [c \in Cells |-> IF ScreenOf[c] = s THEN [cell[c] EXCEPT !.onScreen = FALSE]
                                                ELSE cell[c]]

(* Closures run on the main queue one at a time, in the order they arrive.    *)
Delivered(t) ==
    /\ closure[t].screen # None
    /\ mainQueue[DeviceFor(t)] # <<>>
    /\ Head(mainQueue[DeviceFor(t)]) = t
    /\ mainQueue' = [mainQueue EXCEPT ![DeviceFor(t)] = Tail(@)]

Enqueue(d, t) == mainQueue' = [mainQueue EXCEPT ![d] = Append(@, t)]

Finish(t, phase) == closure' = [closure EXCEPT ![t] = Released(@, phase)]

-----------------------------------------------------------------------------
(* Screens and cells.                                                         *)

(* viewDidLoad: show the HUD, ask for the user document and, on a city screen, *)
(* for every spot of the city.                                                *)
Open(t, s) ==
    /\ closure[t] = Unused
    /\ ~screen[s].open
    /\ closure' = [closure EXCEPT ![t] = Reading("load", s, None, None)]
    /\ screen' = [screen EXCEPT ![s] =
         [@ EXCEPT !.open = TRUE,
                   !.awaiting = IF KindOf[s] = "city" THEN Spots ELSE {}]]
    /\ ShowLoading(t, s)
    /\ UNCHANGED <<document, cache, pending, stage, mainQueue, cell, restarts>>

(* dispatchGroup.leave() of one spot's group, which only the favourites screen *)
(* has; it makes the group's notify block due.                                *)
LeavingWith(s, x) ==
    IF KindOf[s] = "favorites" THEN screen[s].leaving \cup {x} ELSE screen[s].leaving

(* A city screen appends the spot and its didSet reloads the list; the         *)
(* favourites screen appends it and leaves that spot's own DispatchGroup.      *)
SpotArrives(s, x) ==
    /\ x \in screen[s].awaiting
    /\ screen' = [screen EXCEPT ![s] =
         [screen[s] EXCEPT !.awaiting = screen[s].awaiting \ {x},
                           !.listed = screen[s].listed \cup {x},
                           !.leaving = LeavingWith(s, x)]]
    /\ IF KindOf[s] = "city" THEN ReloadData(s) ELSE UNCHANGED cell
    /\ UNCHANGED <<document, cache, pending, stage, mainQueue, closure, shared,
                   covering, restarts>>

(* The spot's document is gone, or (favourites screen) the fetch failed: that  *)
(* closure tests the outer err.  A failed fetch of a city screen returns       *)
(* before leave(): nothing changes, the spot is awaited for ever.              *)
SpotAbsent(s, x) ==
    /\ x \in screen[s].awaiting
    /\ screen' = [screen EXCEPT ![s] =
         [screen[s] EXCEPT !.awaiting = screen[s].awaiting \ {x},
                           !.leaving = LeavingWith(s, x)]]
    /\ UNCHANGED <<document, cache, pending, stage, mainQueue, closure, cell, shared,
                   covering, restarts>>

(* Hides the HUD without reloading the list.                                   *)
FavoriteSpotNotifiedVariant(s, x) ==
    /\ x \in screen[s].leaving
    /\ screen' = [screen EXCEPT ![s].leaving = @ \ {x}]
    /\ HideLoading(DeviceOf[s])
    /\ UNCHANGED <<document, cache, pending, stage, mainQueue, closure, cell, restarts>>

(* The notify block of one spot of the favourites screen.                      *)
FavoriteSpotNotified(s, x) ==
    /\ x \in screen[s].leaving
    /\ screen' = [screen EXCEPT ![s].leaving = @ \ {x}]
    /\ ReloadData(s)
    /\ HideLoading(DeviceOf[s])
    /\ UNCHANGED <<document, cache, pending, stage, mainQueue, closure, restarts>>

(* Waits for the favourites only: the spots never entered the group.           *)
CityNotifiedVariant(t) ==
    /\ closure[t].phase = "finishing"
    /\ Finish(t, "done")
    /\ HideLoading(DeviceFor(t))
    /\ UNCHANGED <<document, cache, pending, stage, mainQueue, cell, screen, restarts>>

(* The notify block of a city screen: its one group covers every spot and the  *)
(* favourites.                                                                *)
CityNotified(t) ==
    /\ closure[t].phase = "finishing"
    /\ screen[closure[t].screen].awaiting = {}
    /\ Finish(t, "done")
    /\ HideLoading(DeviceFor(t))
    /\ UNCHANGED <<document, cache, pending, stage, mainQueue, cell, screen, restarts>>

(* cellForItemAt: a pooled cell is given a spot and draws its heart.           *)
Configure(c, x) ==
    LET s == ScreenOf[c] IN
    /\ ~cell[c].onScreen
    /\ x \in screen[s].listed
    /\ \A other \in Cells :
         ScreenOf[other] = s /\ cell[other].onScreen => cell[other].spot # x
    /\ cell' = [cell EXCEPT ![c] =
         [spot |-> x, onScreen |-> TRUE,
          isSelected |-> KindOf[s] = "city" => x \in screen[s].heartIDs]]
    /\ UNCHANGED <<document, cache, pending, stage, mainQueue, closure, screen, shared,
                   covering, restarts>>

(* The user scrolls a cell away; an uncovered screen is needed to scroll.      *)
ScrollOff(c) ==
    /\ cell[c].onScreen
    /\ ~Covered(ScreenOf[c])
    /\ cell' = [cell EXCEPT ![c].onScreen = FALSE]
    /\ UNCHANGED <<document, cache, pending, stage, mainQueue, closure, screen, shared,
                   covering, restarts>>

-----------------------------------------------------------------------------
(* favoriteButtonDidTap.                                                      *)

(* A HUD that lets touches through.                                            *)
TouchableVariant(c) == cell[c].onScreen

Touchable(c) == cell[c].onScreen /\ ~Covered(ScreenOf[c])

(* Heart empty: it fills at once, and the user document is asked for.          *)
TapAdd(t, c) ==
    /\ closure[t] = Unused
    /\ Touchable(c)
    /\ ~cell[c].isSelected
    /\ cell' = [cell EXCEPT ![c].isSelected = TRUE]
    /\ closure' = [closure EXCEPT ![t] = Reading("add", ScreenOf[c], c, cell[c].spot)]
    /\ UNCHANGED <<document, cache, pending, stage, mainQueue, screen, shared, covering,
                   restarts>>

(* Heart full: it empties at once, the HUD goes up, the document is asked for. *)
TapRemove(t, c) ==
    /\ closure[t] = Unused
    /\ Touchable(c)
    /\ cell[c].isSelected
    /\ cell' = [cell EXCEPT ![c].isSelected = FALSE]
    /\ closure' = [closure EXCEPT ![t] = Reading("remove", ScreenOf[c], c, cell[c].spot)]
    /\ ShowLoading(t, ScreenOf[c])
    /\ UNCHANGED <<document, cache, pending, stage, mainQueue, screen, restarts>>

-----------------------------------------------------------------------------
(* Firestore: answers to getDocument.                                         *)

Answered(t, answer) ==
    /\ closure' = [closure EXCEPT ![t] = [@ EXCEPT !.phase = "answered", !.answer = answer]]
    /\ Enqueue(DeviceFor(t), t)

(* Online: the current server document with this device's own pending writes   *)
(* on top.  A first pending write that was already applied is now also in the  *)
(* cache, with its version.                                                   *)
AnswerFromServer(t) ==
    LET d == DeviceFor(t) IN
    /\ closure[t].phase = "reading"
    /\ Answered(t, Overlay(document, pending[d]))
    /\ cache' = [cache EXCEPT ![d] = document]
    /\ stage' = [stage EXCEPT ![d] = IF @ = "applied" THEN "seen" ELSE @]
    /\ UNCHANGED <<document, pending, cell, screen, shared, covering, restarts>>

(* Offline: the cached document, or an error when there is none.               *)
AnswerFromCache(t) ==
    LET d == DeviceFor(t) IN
    /\ closure[t].phase = "reading"
    /\ Answered(t, IF cache[d] = Missing THEN Error ELSE Overlay(cache[d], pending[d]))
    /\ UNCHANGED <<document, cache, pending, stage, cell, screen, shared, covering, restarts>>

(* Any other failure of the read.                                             *)
AnswerWithError(t) ==
    /\ closure[t].phase = "reading"
    /\ Answered(t, Error)
    /\ UNCHANGED <<document, cache, pending, stage, cell, screen, shared, covering, restarts>>

(* Firestore: updateData queues the write locally and registers the callback.  *)
UpdateData(t, data) ==
    /\ pending' = [pending EXCEPT ![DeviceFor(t)] =
                     Append(@, [data |-> data, callback |-> t])]
    /\ closure' = [closure EXCEPT ![t] = [@ EXCEPT !.phase = "writing", !.data = data]]

(* The server applies the first write of a device's queue.                     *)
Commit(d) ==
    /\ pending[d] # <<>>
    /\ stage[d] = "waiting"
    /\ document.state # "missing"
    /\ document' = Patch(document, Head(pending[d]).data)
    /\ stage' = [stage EXCEPT ![d] = "applied"]
    /\ UNCHANGED <<cache, pending, mainQueue, closure, cell, screen, shared, covering,
                   restarts>>

(* The write stream breaks before the answer comes: the write is sent again.   *)
LoseAck(d) ==
    /\ stage[d] # "waiting"
    /\ stage' = [stage EXCEPT ![d] = "waiting"]
    /\ UNCHANGED <<document, cache, pending, mainQueue, closure, cell, screen, shared,
                   covering, restarts>>

(* Takes it for granted that the callback exists.                              *)
NotifyUserVariant(d, phase) ==
    /\ closure' = [closure EXCEPT ![Head(pending[d]).callback].phase = phase]
    /\ Enqueue(d, Head(pending[d]).callback)

(* Forgets to call back.                                                       *)
NotifyUserSilentVariant(d, phase) == UNCHANGED <<closure, mainQueue>>

(* NotifyUser: a write restored from disk has no callback any more.            *)
NotifyUser(d, phase) ==
    LET t == Head(pending[d]).callback IN
    IF t = None THEN UNCHANGED <<closure, mainQueue>>
    ELSE /\ closure' = [closure EXCEPT ![t].phase = phase]
         /\ Enqueue(d, t)

(* Drops the acknowledged write without a trace in the cache.                  *)
AcknowledgeVariant(d) ==
    /\ stage[d] # "waiting"
    /\ NotifyUser(d, "acked")
    /\ pending' = [pending EXCEPT ![d] = Tail(@)]
    /\ stage' = [stage EXCEPT ![d] = "waiting"]
    /\ UNCHANGED <<document, cache, cell, screen, shared, covering, restarts>>

(* The client learns that its first write was applied.  The cached document is *)
(* patched unless a read has already brought a version at least as new.        *)
Acknowledge(d) ==
    /\ stage[d] # "waiting"
    /\ NotifyUser(d, "acked")
    /\ pending' = [pending EXCEPT ![d] = Tail(@)]
    /\ cache' = IF stage[d] = "seen" THEN cache
                ELSE [cache EXCEPT ![d] = Patch(@, Head(pending[d]).data)]
    /\ stage' = [stage EXCEPT ![d] = "waiting"]
    /\ UNCHANGED <<document, cell, screen, shared, covering, restarts>>

(* The server refuses the first write: no document to update, or no permission. *)
Reject(d) ==
    /\ pending[d] # <<>>
    /\ stage[d] = "waiting"
    /\ NotifyUser(d, "rejected")
    /\ pending' = [pending EXCEPT ![d] = Tail(@)]
    /\ UNCHANGED <<document, cache, stage, cell, screen, shared, covering, restarts>>

-----------------------------------------------------------------------------
(* The completion closures of getDocument, on the main queue.                 *)

Callback(t, kind) ==
    /\ closure[t].phase = "answered"
    /\ closure[t].kind = kind
    /\ Delivered(t)

(* Load: the city screen keeps the ids for its hearts and leaves its group     *)
(* (not on an error: the early return skips leave()); the favourites screen    *)
(* fetches every id it was given.                                             *)
LoadCallback(t) ==
    LET answer == closure[t].answer
        s == closure[t].screen
    IN
    /\ Callback(t, "load")
    /\ \/ /\ answer.state = "error"
          /\ Finish(t, "failed")
          /\ UNCHANGED screen
       \/ /\ answer.state # "error" /\ KindOf[s] = "city"
          /\ screen' = [screen EXCEPT
               ![s].heartIDs = IF answer.state = "array" THEN ToSet(answer.ids) ELSE @]
          /\ closure' = [closure EXCEPT ![t] =
               [@ EXCEPT !.phase = "finishing", !.answer = NoAnswer]]
       \/ /\ answer.state # "error" /\ KindOf[s] = "favorites"
          /\ screen' = [screen EXCEPT ![s].awaiting = ToSet(answer.ids)]
          /\ Finish(t, "done")
    /\ UNCHANGED <<document, cache, pending, stage, cell, shared, covering, restarts>>

(* Add: write the array plus the cell's present spot, or an empty dictionary   *)
(* when it is there already.                                                  *)
AddCallback(t) ==
    LET answer == closure[t].answer IN
    /\ Callback(t, "add")
    /\ IF answer.state \in {"error", "missing"}
       THEN Finish(t, "failed") /\ UNCHANGED pending
       ELSE UpdateData(t, AddData(answer, Shown(t)))
    /\ UNCHANGED <<document, cache, stage, cell, screen, shared, covering, restarts>>

(* Remove: write the array less the cell's present spot.  Every other path     *)
(* returns and leaves the HUD where it is.                                    *)
RemoveCallback(t) ==
    LET answer == closure[t].answer IN
    /\ Callback(t, "remove")
    /\ IF answer.state = "array" /\ Contains(answer.ids, Shown(t))
       THEN UpdateData(t, RemoveData(answer, Shown(t)))
       ELSE Finish(t, "failed") /\ UNCHANGED pending
    /\ UNCHANGED <<document, cache, stage, cell, screen, shared, covering, restarts>>

-----------------------------------------------------------------------------
(* The completion closures of updateData, on the main queue.                  *)

(* Hides a HUD it never showed.                                                *)
AddCompletionVariant(t) ==
    /\ closure[t].phase \in {"acked", "rejected"}
    /\ closure[t].kind = "add"
    /\ Delivered(t)
    /\ Finish(t, IF closure[t].phase = "acked" THEN "done" ELSE "failed")
    /\ HideLoading(DeviceFor(t))
    /\ UNCHANGED <<document, cache, pending, stage, cell, screen, restarts>>

(* Only a toast either way; the heart keeps what the tap made of it.           *)
AddCompletion(t) ==
    /\ closure[t].phase \in {"acked", "rejected"}
    /\ closure[t].kind = "add"
    /\ Delivered(t)
    /\ Finish(t, IF closure[t].phase = "acked" THEN "done" ELSE "failed")
    /\ UNCHANGED <<document, cache, pending, stage, cell, screen, shared, covering, restarts>>

(* Forgets the HUD on success too.                                             *)
CityRemoveCompletionVariant(t) ==
    /\ closure[t].phase \in {"acked", "rejected"}
    /\ closure[t].kind = "remove" /\ KindOf[closure[t].screen] = "city"
    /\ Delivered(t)
    /\ Finish(t, IF closure[t].phase = "acked" THEN "done" ELSE "failed")
    /\ UNCHANGED <<document, cache, pending, stage, cell, screen, shared, covering, restarts>>

CityRemoveCompletion(t) ==
    /\ closure[t].phase \in {"acked", "rejected"}
    /\ closure[t].kind = "remove" /\ KindOf[closure[t].screen] = "city"
    /\ Delivered(t)
    /\ IF closure[t].phase = "acked"
       THEN Finish(t, "done") /\ HideLoading(DeviceFor(t))
       ELSE Finish(t, "failed") /\ UNCHANGED <<shared, covering>>
    /\ UNCHANGED <<document, cache, pending, stage, cell, screen, restarts>>

(* On success the cell's present spot leaves the list; in any case a block that *)
(* reloads and hides is put on the main queue.                                *)
FavoritesRemoveCompletion(t) ==
    LET s == closure[t].screen IN
    /\ closure[t].phase \in {"acked", "rejected"}
    /\ closure[t].kind = "remove" /\ KindOf[s] = "favorites"
    /\ mainQueue[DeviceFor(t)] # <<>> /\ Head(mainQueue[DeviceFor(t)]) = t
    /\ mainQueue' = [mainQueue EXCEPT ![DeviceFor(t)] = Append(Tail(@), t)]
    /\ screen' = [screen EXCEPT ![s].listed =
         IF closure[t].phase = "acked" THEN @ \ {Shown(t)} ELSE @]
    /\ closure' = [closure EXCEPT ![t].phase = "reloading"]
    /\ UNCHANGED <<document, cache, pending, stage, cell, shared, covering, restarts>>

(* Reloads, but does not hide.                                                 *)
ReloadBlockVariant(t) ==
    /\ closure[t].phase = "reloading"
    /\ Delivered(t)
    /\ Finish(t, "done")
    /\ ReloadData(closure[t].screen)
    /\ UNCHANGED <<document, cache, pending, stage, screen, shared, covering, restarts>>

ReloadBlock(t) ==
    /\ closure[t].phase = "reloading"
    /\ Delivered(t)
    /\ Finish(t, "done")
    /\ ReloadData(closure[t].screen)
    /\ HideLoading(DeviceFor(t))
    /\ UNCHANGED <<document, cache, pending, stage, screen, restarts>>

-----------------------------------------------------------------------------
(* A mutation queue as it is read back from disk.                              *)
WithoutCallbacks(q) == [i \in DOMAIN q |-> [data |-> q[i].data, callback |-> None]]

(* A mutation queue kept in memory only.                                       *)
RestartVariant(d) ==
    LET own == {s \in Screens : DeviceOf[s] = d} IN
    /\ restarts < MaxRestarts
    /\ \E s \in own : screen[s].open
    /\ restarts' = restarts + 1
    /\ closure' = [t \in Closures |->
         IF closure[t].screen \in own THEN Released(closure[t], "dead") ELSE closure[t]]
    /\ pending' = [pending EXCEPT ![d] = <<>>]
    /\ stage' = [stage EXCEPT ![d] = "waiting"]
    /\ mainQueue' = [mainQueue EXCEPT ![d] = <<>>]
    /\ cell' = [c \in Cells |-> IF ScreenOf[c] \in own THEN EmptyCell ELSE cell[c]]
    /\ screen' = [s \in Screens |-> IF s \in own THEN ClosedScreen ELSE screen[s]]
    /\ shared' = [shared EXCEPT ![d] = None]
    /\ covering' = [s \in Screens |-> IF s \in own THEN {} ELSE covering[s]]
    /\ UNCHANGED <<document, cache>>

(* The app of device d is killed and started again.  Its closures, screens and *)
(* HUD are gone; Firestore's cache and mutation queue are on disk, and the      *)
(* first write is sent again.                                                 *)
Restart(d) ==
    LET own == {s \in Screens : DeviceOf[s] = d} IN
    /\ restarts < MaxRestarts
    /\ \E s \in own : screen[s].open
    /\ restarts' = restarts + 1
    /\ closure' = [t \in Closures |->
         IF closure[t].screen \in own THEN Released(closure[t], "dead") ELSE closure[t]]
    /\ pending' = [pending EXCEPT ![d] = WithoutCallbacks(@)]
    /\ stage' = [stage EXCEPT ![d] = "waiting"]
    /\ mainQueue' = [mainQueue EXCEPT ![d] = <<>>]
    /\ cell' = [c \in Cells |-> IF ScreenOf[c] \in own THEN EmptyCell ELSE cell[c]]
    /\ screen' = [s \in Screens |-> IF s \in own THEN ClosedScreen ELSE screen[s]]
    /\ shared' = [shared EXCEPT ![d] = None]
    /\ covering' = [s \in Screens |-> IF s \in own THEN {} ELSE covering[s]]
    /\ UNCHANGED <<document, cache>>

-----------------------------------------------------------------------------
Answer(t) == AnswerFromServer(t) \/ AnswerFromCache(t) \/ AnswerWithError(t)

MainQueueStep(t) ==
    \/ LoadCallback(t) \/ AddCallback(t) \/ RemoveCallback(t)
    \/ AddCompletion(t) \/ CityRemoveCompletion(t)
    \/ FavoritesRemoveCompletion(t) \/ ReloadBlock(t)

UserStep ==
    \/ \E t \in Closures, s \in Screens : Open(t, s)
    \/ \E t \in Closures, c \in Cells : TapAdd(t, c) \/ TapRemove(t, c)
    \/ \E c \in Cells : ScrollOff(c)

ScreenStep ==
    \/ \E s \in Screens, x \in Spots :
         SpotArrives(s, x) \/ SpotAbsent(s, x) \/ FavoriteSpotNotified(s, x)
    \/ \E t \in Closures : CityNotified(t)
    \/ \E c \in Cells, x \in Spots : Configure(c, x)

FirestoreStep ==
    \/ \E t \in Closures : Answer(t)
    \/ \E d \in Devices : Commit(d) \/ LoseAck(d) \/ Acknowledge(d) \/ Reject(d)

Next ==
    \/ UserStep \/ ScreenStep \/ FirestoreStep
    \/ \E t \in Closures : MainQueueStep(t)
    \/ \E d \in Devices : Restart(d)

Spec == Init /\ [][Next]_vars

(* The network answers in the end, one way or the other, and in the end stays   *)
(* up long enough for an acknowledgement to come back; the run loop drains the *)
(* main queue.  Nothing is assumed of the user, nor of restarts.              *)
Fairness ==
    /\ \A t \in Closures : WF_vars(Answer(t)) /\ WF_vars(MainQueueStep(t))
    /\ \A d \in Devices : WF_vars(Commit(d) \/ Reject(d)) /\ SF_vars(Acknowledge(d))

FairSpec == Spec /\ Fairness

-----------------------------------------------------------------------------
(* Properties.                                                                *)

InFlight(t) == closure[t].phase \notin Terminal \cup {"unused"}
CityRemoval(t) == closure[t].kind = "remove" /\ KindOf[closure[t].screen] = "city"

(* No copy of the favourites, on the server, in a cache, in a write or in a    *)
(* closure, ever lists a spot twice: the firstIndex test of the add, which     *)
(* runs on a snapshot that may be out of date, is enough for that, and the     *)
(* remove, which takes out one index only, depends on it.                      *)
NoDuplicates ==
    /\ IsInjective(document.ids)
    /\ \A d \in Devices :
         /\ IsInjective(cache[d].ids)
         /\ \A i \in DOMAIN pending[d] : IsInjective(pending[d][i].data.ids)
    /\ \A t \in Closures : IsInjective(closure[t].answer.ids) /\ IsInjective(closure[t].data.ids)

(* What the tap of closure record r writes, against what it read.             *)
OneToggle(r) ==
    LET read == ToSet(r.answer.ids)
        written == ToSet(r.data.ids)
    IN \/ r.kind = "remove" /\ \E x \in read : written = read \ {x}
       \/ r.kind = "add" /\ r.data # Bare /\ \E x \in Spots \ read : written = read \cup {x}
       \/ r.kind = "add" /\ r.data = Bare /\ read # {}

(* What a tap writes differs from what it read by one spot at most: an add     *)
(* keeps every id and adds at most one, a remove drops exactly one and no      *)
(* trace of it is left.                                                       *)
WriteIsOneToggle ==
    \A t \in Closures :
        closure[t].phase \in {"writing", "acked", "rejected"} => OneToggle(closure[t])

(* The promises of the screens below need a device whose HUD serves one        *)
(* screen.                                                                    *)
OneScreenPerDevice ==
    \A s1, s2 \in Screens : DeviceOf[s1] = DeviceOf[s2] => s1 = s2

(* A heart on the favourites screen can only be emptied: although a tap        *)
(* empties it, the HUD keeps it out of reach until a reload has filled it      *)
(* again, so no tap there ever runs the add path, which would not work there.  *)
FavoritesScreenOnlyRemoves ==
    \A t \in Closures :
        InFlight(t) /\ closure[t].kind = "add" => KindOf[closure[t].screen] = "city"

(* No HUD view is orphaned: whatever still covers a screen is the instance     *)
(* that hideLoading would dismiss.                                            *)
NoOrphanedHud == \A s \in Screens : covering[s] \subseteq {shared[DeviceOf[s]]}

(* A city screen can be touched only when its load is over and every spot has   *)
(* been answered: the answers come in any order, and each ends in a leave() or  *)
(* in an early return that keeps the notify block from ever running.           *)
TouchableCityIsLoaded ==
    \A s \in Screens : KindOf[s] = "city" /\ screen[s].open /\ ~Covered(s) =>
        /\ screen[s].awaiting = {}
        /\ \A t \in Closures :
              closure[t].kind = "load" /\ closure[t].screen = s => ~InFlight(t)

(* From tap to completion a removal on a city screen keeps the screen covered  *)
(* by its own HUD, and by no other.                                           *)
CityRemovalBlocksScreen ==
    \A t \in Closures :
        InFlight(t) /\ CityRemoval(t) => covering[closure[t].screen] = {t}

(* The closures read self.spot when they run, not when the heart was tapped;   *)
(* on a city screen the cell of a removal has not been reused in between.      *)
CityRemovalHitsTappedSpot ==
    \A t \in Closures : InFlight(t) /\ CityRemoval(t) => Shown(t) = closure[t].tapped

(* A removal that reached its success toast has taken its HUD away.            *)
SucceededRemovalUncovers ==
    \A t \in Closures, s \in Screens :
        closure[t].kind = "remove" /\ closure[t].phase = "done" => t \notin covering[s]

(* Every tap comes to an end: written, given up, or gone with the app.         *)
TapsSettle ==
    \A t \in Closures :
        (closure[t].phase = "reading" /\ closure[t].kind # "load")
            ~> closure[t].phase \in Terminal

(* A removal the server accepted gives the screen back to the user.            *)
AckedRemovalUncovers ==
    \A t \in Closures :
        (closure[t].phase = "acked" /\ closure[t].kind = "remove")
            ~> \A s \in Screens : t \notin covering[s]
=============================================================================
