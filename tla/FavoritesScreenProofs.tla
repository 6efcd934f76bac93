------------------------ MODULE FavoritesScreenProofs ------------------------
(***************************************************************************)
(* What Favorites promises the user in front of a screen, on devices that  *)
(* have one screen each: the shared HUD blocks what must be blocked and is *)
(* taken away again.  With two screens on a device HUD.shared.hud is       *)
(* overwritten by whichever asks last, and none of this holds.             *)
(***************************************************************************)
EXTENDS FavoritesProofs

-----------------------------------------------------------------------------
(* What makes the promises of the screens inductive on a device with one.      *)

(* A city screen is covered by the load or the removal that is under way, and  *)
(* by nothing else.                                                           *)
Blocks(t) ==
    InFlight(t) /\ closure[t].kind \in {"load", "remove"}
    /\ KindOf[closure[t].screen] = "city"

CityBlocked == \A t \in Closures : Blocks(t) => covering[closure[t].screen] = {t}

(* Only a city load waits for its group, and only a removal on the favourites  *)
(* screen puts a second block on the main queue.                              *)
PhasesOfKinds ==
    \A t \in Closures :
        /\ closure[t].phase = "finishing" =>
             closure[t].kind = "load" /\ KindOf[closure[t].screen] = "city"
        /\ closure[t].phase = "reloading" =>
             closure[t].kind = "remove" /\ KindOf[closure[t].screen] = "favorites"

(* A HUD lies over the screen its closure belongs to.                          *)
HudOnOwnScreen == \A s \in Screens : \A t \in covering[s] : closure[t].screen = s

(* A screen that was never opened lists nothing, and nothing covers it.        *)
ClosedIsEmpty ==
    /\ \A s \in Screens : ~screen[s].open =>
         screen[s].awaiting = {} /\ screen[s].listed = {} /\ covering[s] = {}
    /\ \A c \in Cells : cell[c].onScreen => screen[ScreenOf[c]].open
    /\ \A t \in Closures : InFlight(t) => screen[closure[t].screen].open

(* The one group of a city screen is not a spot's own.                         *)
OnlyFavoritesLeave == \A s \in Screens : KindOf[s] = "city" => screen[s].leaving = {}

(* A city screen that still waits for spots is covered by its load.            *)
LoadingIsCovered ==
    \A s \in Screens : KindOf[s] = "city" /\ screen[s].awaiting # {} =>
        \E t \in covering[s] : closure[t].kind = "load"

(* The cell of a city removal stays where it was touched.                      *)
RemovalKeepsCell ==
    \A t \in Closures : InFlight(t) /\ CityRemoval(t) =>
        cell[closure[t].cell].onScreen /\ Shown(t) = closure[t].tapped

(* An empty heart on the favourites screen is out of reach.                    *)
EmptyHeartsCovered ==
    \A c \in Cells :
        KindOf[ScreenOf[c]] = "favorites" /\ cell[c].onScreen /\ ~cell[c].isSelected
            => Covered(ScreenOf[c])

ScreenInv ==
    /\ NoOrphanedHud /\ HudOnOwnScreen /\ ClosedIsEmpty /\ OnlyFavoritesLeave
    /\ CityBlocked /\ PhasesOfKinds /\ LoadingIsCovered /\ RemovalKeepsCell
    /\ EmptyHeartsCovered /\ FavoritesScreenOnlyRemoves /\ SucceededRemovalUncovers

-----------------------------------------------------------------------------
(* What a record of a closure keeps while the closure is in flight.            *)
Keeps(new, old) ==
    /\ new.kind = old.kind /\ new.screen = old.screen
    /\ new.cell = old.cell /\ new.tapped = old.tapped

(* The phases a closure in flight may move to without its HUD's leave.         *)
MayEnter(t, phase) ==
    \/ phase \in {"answered", "writing", "acked", "rejected"}
    \/ phase = "finishing" /\ closure[t].kind = "load" /\ KindOf[closure[t].screen] = "city"
    \/ phase = "reloading" /\ closure[t].kind = "remove"
                           /\ KindOf[closure[t].screen] = "favorites"

(* A step of a closure that neither touches the HUD nor the cells.             *)
LEMMA QuietStep ==
    ASSUME TypeInv, ScreenInv, NEW t \in Closures,
           cell' = cell, covering' = covering, shared' = shared,
           closure' \in [Closures -> ClosureRecords],
           \A u \in Closures : u # t => closure'[u] = closure[u],
           InFlight(t),
           closure'[t].kind = closure[t].kind, closure'[t].screen = closure[t].screen,
           \/ closure'[t].phase = "failed"
           \/ closure'[t].phase = "done" /\ closure[t].kind # "remove"
           \/ Keeps(closure'[t], closure[t]) /\ MayEnter(t, closure'[t].phase),
           \A s \in Screens :
             /\ screen'[s].open = screen[s].open /\ screen'[s].leaving = screen[s].leaving
             /\ screen'[s].listed \subseteq screen[s].listed
             /\ \/ screen'[s].awaiting = screen[s].awaiting
                \/ KindOf[s] = "favorites" /\ screen[s].open
    PROVE  ScreenInv'
<1> USE DEF ScreenInv
<1>1. \A u \in Closures :
        /\ closure'[u].kind = closure[u].kind /\ closure'[u].screen = closure[u].screen
        /\ InFlight(u)' => InFlight(u) /\ Keeps(closure'[u], closure[u])
  BY DEF InFlight, Keeps, Terminal
<1>2. \A u \in Closures : closure[u].phase # "unused" => closure[u].screen \in Screens
  BY DEF TypeInv, TypeOK, ClosuresBound, ClosureRecords
<1>3. NoOrphanedHud' /\ HudOnOwnScreen' /\ OnlyFavoritesLeave' /\ EmptyHeartsCovered'
  BY <1>1 DEF TypeInv, TypeOK, NoOrphanedHud, HudOnOwnScreen, OnlyFavoritesLeave,
     EmptyHeartsCovered, Covered
<1>4. ClosedIsEmpty'
  <2>1. \A s \in Screens : ~screen'[s].open =>
          screen'[s].awaiting = {} /\ screen'[s].listed = {} /\ covering'[s] = {}
    BY DEF ClosedIsEmpty
  <2>2. \A c \in Cells : cell'[c].onScreen => screen'[ScreenOf[c]].open
    BY ScreensAssumption DEF ClosedIsEmpty
  <2>3. \A u \in Closures : InFlight(u)' => screen'[closure'[u].screen].open
    BY <1>1, <1>2 DEF ClosedIsEmpty, InFlight
  <2> QED BY <2>1, <2>2, <2>3 DEF ClosedIsEmpty
<1>5. CityBlocked'
  <2> SUFFICES ASSUME NEW u \in Closures, Blocks(u)'
               PROVE  covering'[closure'[u].screen] = {u}
    BY DEF CityBlocked
  <2>1. Blocks(u) /\ closure'[u].screen = closure[u].screen
    BY <1>1 DEF Blocks
  <2>2. covering[closure[u].screen] = {u}
    BY <2>1 DEF CityBlocked
  <2> QED BY <2>1, <2>2
<1>6. PhasesOfKinds'
  BY DEF PhasesOfKinds, MayEnter
<1>7. LoadingIsCovered'
  <2> SUFFICES ASSUME NEW s \in Screens, KindOf[s] = "city", screen'[s].awaiting # {}
               PROVE  \E u \in covering'[s] : closure'[u].kind = "load"
    BY DEF LoadingIsCovered
  <2>1. screen'[s].awaiting = screen[s].awaiting
    OBVIOUS
  <2>2. PICK u \in covering[s] : closure[u].kind = "load"
    BY <2>1 DEF LoadingIsCovered
  <2>3. u \in Closures
    BY <2>2 DEF TypeInv, TypeOK
  <2> QED BY <1>1, <2>2, <2>3
<1>8. RemovalKeepsCell'
  BY <1>1 DEF RemovalKeepsCell, CityRemoval, Shown, Keeps
<1>9. FavoritesScreenOnlyRemoves'
  BY <1>1 DEF FavoritesScreenOnlyRemoves
<1>10. SucceededRemovalUncovers'
  BY DEF SucceededRemovalUncovers, MayEnter
<1> QED BY <1>3, <1>4, <1>5, <1>6, <1>7, <1>8, <1>9, <1>10

(* On a device with one screen hideLoading uncovers that screen.               *)
LEMMA HideUncovers ==
    ASSUME OneScreenPerDevice, TypeOK, NoOrphanedHud, NEW s \in Screens,
           HideLoading(DeviceOf[s])
    PROVE  /\ shared' = shared /\ covering'[s] = {}
           /\ \A r \in Screens : r # s => covering'[r] = covering[r]
<1>1. shared' = shared
  BY DEF HideLoading
<1>2. covering'[s] = {}
  BY DEF HideLoading, NoOrphanedHud
<1>3. \A r \in Screens : r # s => covering'[r] = covering[r]
  BY DEF HideLoading, OneScreenPerDevice
<1> QED BY <1>1, <1>2, <1>3
LEMMA OpenScreen ==
    ASSUME OneScreenPerDevice, TypeInv, ScreenInv, NEW t \in Closures, NEW s \in Screens,
           Open(t, s)
    PROVE  ScreenInv'
<1> USE ScreensAssumption DEF ScreenInv
<1>1. /\ closure[t] = Unused /\ ~screen[s].open /\ cell' = cell
      /\ closure'[t] = Reading("load", s, None, None)
      /\ \A u \in Closures : u # t => closure'[u] = closure[u]
  BY DEF Open, TypeInv, TypeOK
<1>2. /\ closure'[t].phase = "reading" /\ closure'[t].kind = "load" /\ closure'[t].screen = s
      /\ closure[t].phase = "unused" /\ closure[t].screen = None /\ closure[t].kind = "load"
  BY <1>1 DEF Reading, Unused
<1>3. /\ screen'[s].open /\ screen'[s].listed = screen[s].listed
      /\ screen'[s].leaving = screen[s].leaving
      /\ \A r \in Screens : r # s => screen'[r] = screen[r]
  BY ScreenFields DEF Open, TypeInv, TypeOK, ScreenRecords
<1>4. /\ covering[s] = {} /\ covering'[s] = {t} /\ shared'[DeviceOf[s]] = t
      /\ \A r \in Screens : r # s =>
           covering'[r] = covering[r] /\ shared'[DeviceOf[r]] = shared[DeviceOf[r]]
  <2>1. covering[s] = {}
    BY <1>1 DEF ClosedIsEmpty
  <2>2. covering \in [Screens -> SUBSET Closures] /\ shared \in [Devices -> Closures \cup {None}]
    BY DEF TypeInv, TypeOK
  <2>3. /\ shared' = [shared EXCEPT ![DeviceOf[s]] = t]
        /\ covering' = [covering EXCEPT ![s] = covering[s] \cup {t}]
    BY DEF Open, ShowLoading
  <2>4. \A r \in Screens : r # s => DeviceOf[r] # DeviceOf[s]
    BY DEF OneScreenPerDevice
  <2> QED BY <2>1, <2>2, <2>3, <2>4
<1>5. \A u \in Closures : closure[u].phase # "unused" => closure[u].screen \in Screens
  BY DEF TypeInv, TypeOK, ClosuresBound, ClosureRecords
<1>6. \A u \in Closures : InFlight(u) => closure[u].screen # s
  BY <1>1, <1>5 DEF ClosedIsEmpty, InFlight
<1>7. NoOrphanedHud'
  BY <1>4 DEF NoOrphanedHud
<1>8. \A r \in Screens : \A u \in covering'[r] : u \in Closures /\ (r # s => u \in covering[r] /\ u # t)
  BY <1>2, <1>4, NoneAssumption DEF TypeInv, TypeOK, HudOnOwnScreen
<1>9. HudOnOwnScreen'
  BY <1>1, <1>2, <1>4, <1>8 DEF HudOnOwnScreen
<1>10. ClosedIsEmpty'
  <2>1. \A r \in Screens : ~screen'[r].open =>
          screen'[r].awaiting = {} /\ screen'[r].listed = {} /\ covering'[r] = {}
    BY <1>3, <1>4 DEF ClosedIsEmpty
  <2>2. \A c \in Cells : cell'[c].onScreen => screen'[ScreenOf[c]].open
    BY <1>1, <1>3 DEF ClosedIsEmpty
  <2>3. \A u \in Closures : InFlight(u)' => screen'[closure'[u].screen].open
    BY <1>1, <1>2, <1>3, <1>5 DEF ClosedIsEmpty, InFlight
  <2> QED BY <2>1, <2>2, <2>3 DEF ClosedIsEmpty
<1>11. OnlyFavoritesLeave'
  BY <1>3 DEF OnlyFavoritesLeave
<1>12. CityBlocked'
  BY <1>1, <1>2, <1>4, <1>5, <1>6 DEF CityBlocked, Blocks, InFlight
<1>13. PhasesOfKinds'
  BY <1>1, <1>2 DEF PhasesOfKinds
<1>14. LoadingIsCovered'
  BY <1>1, <1>2, <1>3, <1>4, <1>8 DEF LoadingIsCovered
<1>15. RemovalKeepsCell'
  BY <1>1, <1>2 DEF RemovalKeepsCell, CityRemoval, InFlight, Shown
<1>16. EmptyHeartsCovered'
  BY <1>1, <1>4 DEF EmptyHeartsCovered, Covered
<1>17. FavoritesScreenOnlyRemoves'
  BY <1>1, <1>2 DEF FavoritesScreenOnlyRemoves, InFlight
<1>18. SucceededRemovalUncovers'
  BY <1>1, <1>2, <1>4 DEF SucceededRemovalUncovers
<1> QED BY <1>7, <1>9, <1>10, <1>11, <1>12, <1>13, <1>14, <1>15, <1>16, <1>17, <1>18

LEMMA TapRemoveScreen ==
    ASSUME OneScreenPerDevice, TypeInv, ScreenInv, NEW t \in Closures, NEW c \in Cells,
           TapRemove(t, c)
    PROVE  ScreenInv'
<1> DEFINE s == ScreenOf[c]
<1> USE ScreensAssumption DEF ScreenInv
<1>1. /\ closure[t] = Unused /\ covering[s] = {} /\ s \in Screens /\ screen' = screen
      /\ closure'[t] = Reading("remove", s, c, cell[c].spot)
      /\ \A u \in Closures : u # t => closure'[u] = closure[u]
      /\ cell[c].onScreen
  BY DEF TapRemove, Touchable, Covered, TypeInv, TypeOK
<1>2. /\ closure'[t].phase = "reading" /\ closure'[t].kind = "remove" /\ closure'[t].screen = s
      /\ closure'[t].cell = c /\ closure'[t].tapped = cell[c].spot
      /\ closure[t].phase = "unused" /\ closure[t].screen = None /\ closure[t].kind = "load"
  BY <1>1 DEF Reading, Unused
<1>3. /\ \A e \in Cells : cell'[e].spot = cell[e].spot /\ cell'[e].onScreen = cell[e].onScreen
      /\ \A e \in Cells : e # c => cell'[e] = cell[e]
  BY DEF TapRemove, TypeInv, TypeOK, CellRecords
<1> HIDE DEF s
<1>4. /\ covering'[s] = {t} /\ shared'[DeviceOf[s]] = t
      /\ \A r \in Screens : r # s =>
           covering'[r] = covering[r] /\ shared'[DeviceOf[r]] = shared[DeviceOf[r]]
  BY <1>1 DEF TapRemove, ShowLoading, TypeInv, TypeOK, OneScreenPerDevice, s
<1>5. \A u \in Closures : closure[u].phase # "unused" => closure[u].screen \in Screens
  BY DEF TypeInv, TypeOK, ClosuresBound, ClosureRecords
<1>6. screen[s].open
  BY <1>1 DEF ClosedIsEmpty, s
<1>7. NoOrphanedHud'
  BY <1>4 DEF NoOrphanedHud
<1>8. \A r \in Screens : \A u \in covering'[r] : u \in Closures /\ (r # s => u \in covering[r] /\ u # t)
  BY <1>2, <1>4, NoneAssumption DEF TypeInv, TypeOK, HudOnOwnScreen
<1>9. HudOnOwnScreen'
  BY <1>1, <1>2, <1>4, <1>8 DEF HudOnOwnScreen
<1>10. ClosedIsEmpty'
  <2>1. \A r \in Screens : ~screen'[r].open =>
          screen'[r].awaiting = {} /\ screen'[r].listed = {} /\ covering'[r] = {}
    BY <1>1, <1>4, <1>6 DEF ClosedIsEmpty
  <2>2. \A e \in Cells : cell'[e].onScreen => screen'[ScreenOf[e]].open
    BY <1>1, <1>3 DEF ClosedIsEmpty
  <2>3. \A u \in Closures : InFlight(u)' => screen'[closure'[u].screen].open
    BY <1>1, <1>2, <1>5, <1>6 DEF ClosedIsEmpty, InFlight
  <2> QED BY <2>1, <2>2, <2>3 DEF ClosedIsEmpty
<1>11. OnlyFavoritesLeave'
  BY <1>1 DEF OnlyFavoritesLeave
<1>12. CityBlocked'
  <2> SUFFICES ASSUME NEW u \in Closures, Blocks(u)'
               PROVE  covering'[closure'[u].screen] = {u}
    BY DEF CityBlocked
  <2>1. CASE u = t
    BY <1>2, <1>4, <2>1
  <2>2. CASE u # t
    <3>1. closure'[u] = closure[u] /\ Blocks(u)
      BY <1>1, <2>2 DEF Blocks, InFlight
    <3>2. covering[closure[u].screen] = {u} /\ closure[u].screen \in Screens
      BY <1>5, <3>1 DEF CityBlocked, Blocks, InFlight
    <3> QED BY <1>1, <1>4, <3>1, <3>2
  <2> QED BY <2>1, <2>2
<1>13. PhasesOfKinds'
  BY <1>1, <1>2 DEF PhasesOfKinds
<1>14. LoadingIsCovered'
  <2>1. KindOf[s] = "city" => screen[s].awaiting = {}
    BY <1>1 DEF LoadingIsCovered
  <2> QED BY <1>1, <1>4, <1>8, <2>1 DEF LoadingIsCovered
<1>15. RemovalKeepsCell'
  <2>1. \A u \in Closures : u # t /\ InFlight(u) /\ closure[u].kind # "load" => closure[u].cell \in Cells
    BY ShownType
  <2> QED BY <1>1, <1>2, <1>3, <2>1 DEF RemovalKeepsCell, CityRemoval, InFlight, Shown
<1>16. EmptyHeartsCovered'
  BY <1>1, <1>3, <1>4 DEF EmptyHeartsCovered, Covered, s
<1>17. FavoritesScreenOnlyRemoves'
  BY <1>1, <1>2 DEF FavoritesScreenOnlyRemoves, InFlight
<1>18. SucceededRemovalUncovers'
  BY <1>1, <1>2, <1>4 DEF SucceededRemovalUncovers
<1> QED BY <1>7, <1>9, <1>10, <1>11, <1>12, <1>13, <1>14, <1>15, <1>16, <1>17, <1>18
(* Steps that leave the closures and the HUD alone.                            *)
LEMMA CellStep ==
    ASSUME TypeInv, ScreenInv, closure' = closure, screen' = screen,
           covering' = covering, shared' = shared,
           \A c \in Cells : cell'[c].onScreen =>
             /\ screen[ScreenOf[c]].open
             /\ \/ cell'[c].isSelected \/ KindOf[ScreenOf[c]] = "city"
                \/ cell[c].onScreen /\ ~cell[c].isSelected,
           \A t \in Closures : InFlight(t) /\ CityRemoval(t) =>
             /\ cell'[closure[t].cell].onScreen = cell[closure[t].cell].onScreen
             /\ cell'[closure[t].cell].spot = cell[closure[t].cell].spot
    PROVE  ScreenInv'
<1> USE ScreensAssumption DEF ScreenInv
<1>1. \A t \in Closures : InFlight(t)' <=> InFlight(t)
  BY DEF InFlight
<1>2. ClosedIsEmpty'
  BY <1>1 DEF ClosedIsEmpty
<1>3. CityBlocked' /\ PhasesOfKinds' /\ FavoritesScreenOnlyRemoves' /\ SucceededRemovalUncovers'
  BY <1>1 DEF CityBlocked, Blocks, PhasesOfKinds, FavoritesScreenOnlyRemoves,
     SucceededRemovalUncovers
<1>4. RemovalKeepsCell'
  BY <1>1 DEF RemovalKeepsCell, CityRemoval, Shown
<1>5. EmptyHeartsCovered'
  BY DEF EmptyHeartsCovered, Covered
<1>6. NoOrphanedHud' /\ HudOnOwnScreen' /\ OnlyFavoritesLeave' /\ LoadingIsCovered'
  BY DEF NoOrphanedHud, HudOnOwnScreen, OnlyFavoritesLeave, LoadingIsCovered
<1> QED BY <1>2, <1>3, <1>4, <1>5, <1>6

(* From its tap to its end a city removal keeps its cell: the screen is covered *)
(* and cannot be scrolled, and its load is over, so nothing reloads it.        *)
LEMMA RemovalCovers ==
    ASSUME TypeInv, ScreenInv, NEW t \in Closures, InFlight(t), CityRemoval(t)
    PROVE  /\ covering[closure[t].screen] = {t} /\ closure[t].screen \in Screens
           /\ closure[t].cell \in Cells /\ ScreenOf[closure[t].cell] = closure[t].screen
           /\ cell[closure[t].cell].onScreen
           /\ screen[closure[t].screen].awaiting = {}
<1>1. /\ closure[t].screen \in Screens /\ closure[t].cell \in Cells
      /\ ScreenOf[closure[t].cell] = closure[t].screen
  BY DEF TypeInv, TypeOK, ClosuresBound, ClosureRecords, InFlight, CityRemoval
<1>2. covering[closure[t].screen] = {t}
  BY DEF ScreenInv, CityBlocked, Blocks, CityRemoval
<1>3. cell[closure[t].cell].onScreen
  BY DEF ScreenInv, RemovalKeepsCell
<1>4. screen[closure[t].screen].awaiting = {}
  BY <1>1, <1>2 DEF ScreenInv, LoadingIsCovered, CityRemoval
<1> QED BY <1>1, <1>2, <1>3, <1>4

LEMMA ConfigureScreen ==
    ASSUME TypeInv, ScreenInv, NEW c \in Cells, NEW x \in Spots, Configure(c, x)
    PROVE  ScreenInv'
<1> USE ScreensAssumption
<1>1. /\ ~cell[c].onScreen /\ x \in screen[ScreenOf[c]].listed
      /\ \A e \in Cells : e # c => cell'[e] = cell[e]
      /\ cell'[c].isSelected \/ KindOf[ScreenOf[c]] = "city"
      /\ closure' = closure /\ screen' = screen /\ covering' = covering /\ shared' = shared
  BY DEF Configure, TypeInv, TypeOK
<1>2. screen[ScreenOf[c]].open
  BY <1>1 DEF ScreenInv, ClosedIsEmpty
<1>3. ASSUME NEW e \in Cells, cell'[e].onScreen
      PROVE  /\ screen[ScreenOf[e]].open
             /\ \/ cell'[e].isSelected \/ KindOf[ScreenOf[e]] = "city"
                \/ cell[e].onScreen /\ ~cell[e].isSelected
  <2>1. CASE e = c
    BY <1>1, <1>2, <2>1
  <2>2. CASE e # c
    <3>1. cell'[e] = cell[e] /\ cell[e].isSelected \in BOOLEAN
      BY <1>1, <2>2 DEF TypeInv, TypeOK, CellRecords
    <3> QED BY <1>3, <3>1 DEF ScreenInv, ClosedIsEmpty
  <2> QED BY <2>1, <2>2
<1>4. ASSUME NEW t \in Closures, InFlight(t), CityRemoval(t)
      PROVE  cell'[closure[t].cell] = cell[closure[t].cell]
  BY <1>1, <1>4, RemovalCovers
<1> QED BY <1>1, <1>3, <1>4, CellStep

LEMMA ScrollOffScreen ==
    ASSUME TypeInv, ScreenInv, NEW c \in Cells, ScrollOff(c)
    PROVE  ScreenInv'
<1> USE ScreensAssumption
<1>1. /\ covering[ScreenOf[c]] = {}
      /\ \A e \in Cells : e # c => cell'[e] = cell[e]
      /\ ~cell'[c].onScreen
      /\ closure' = closure /\ screen' = screen /\ covering' = covering /\ shared' = shared
  BY DEF ScrollOff, Covered, TypeInv, TypeOK, CellRecords
<1>2. ASSUME NEW e \in Cells, cell'[e].onScreen
      PROVE  /\ screen[ScreenOf[e]].open
             /\ \/ cell'[e].isSelected \/ KindOf[ScreenOf[e]] = "city"
                \/ cell[e].onScreen /\ ~cell[e].isSelected
  <2>1. e # c
    BY <1>1, <1>2
  <2>2. cell'[e] = cell[e] /\ cell[e].isSelected \in BOOLEAN
    BY <1>1, <2>1 DEF TypeInv, TypeOK, CellRecords
  <2> QED BY <1>2, <2>2 DEF ScreenInv, ClosedIsEmpty
<1>3. ASSUME NEW t \in Closures, InFlight(t), CityRemoval(t)
      PROVE  cell'[closure[t].cell] = cell[closure[t].cell]
  BY <1>1, <1>3, RemovalCovers
<1> QED BY <1>1, <1>2, <1>3, CellStep
LEMMA TapAddScreen ==
    ASSUME TypeInv, ScreenInv, NEW t \in Closures, NEW c \in Cells, TapAdd(t, c)
    PROVE  ScreenInv'
<1> DEFINE s == ScreenOf[c]
<1> USE ScreensAssumption
<1>1. /\ closure[t] = Unused /\ covering[s] = {} /\ s \in Screens
      /\ closure'[t] = Reading("add", s, c, cell[c].spot)
      /\ \A u \in Closures : u # t => closure'[u] = closure[u]
      /\ cell[c].onScreen /\ ~cell[c].isSelected
      /\ screen' = screen /\ covering' = covering /\ shared' = shared
  BY DEF TapAdd, Touchable, Covered, TypeInv, TypeOK
<1>2. /\ closure'[t].phase = "reading" /\ closure'[t].kind = "add" /\ closure'[t].screen = s
      /\ closure[t].phase = "unused" /\ closure[t].screen = None /\ closure[t].kind = "load"
  BY <1>1 DEF Reading, Unused
<1>3. /\ \A e \in Cells : cell'[e].spot = cell[e].spot /\ cell'[e].onScreen = cell[e].onScreen
      /\ \A e \in Cells : e # c => cell'[e] = cell[e]
  BY DEF TapAdd, TypeInv, TypeOK, CellRecords
<1>4. screen[s].open /\ KindOf[s] = "city"
  <2>1. KindOf[s] # "favorites"
    BY <1>1 DEF ScreenInv, EmptyHeartsCovered, Covered
  <2>2. KindOf[s] \in {"city", "favorites"}
    BY <1>1
  <2> QED BY <1>1, <2>1, <2>2 DEF ScreenInv, ClosedIsEmpty
<1> HIDE DEF s
<1> USE DEF ScreenInv
<1>5. \A u \in Closures : u # t => (InFlight(u)' <=> InFlight(u))
  BY <1>1 DEF InFlight
<1>6. \A r \in Screens : \A u \in covering'[r] : u \in Closures /\ u # t
  BY <1>1, <1>2, NoneAssumption DEF TypeInv, TypeOK, HudOnOwnScreen
<1>7. NoOrphanedHud' /\ HudOnOwnScreen' /\ OnlyFavoritesLeave' /\ LoadingIsCovered'
  BY <1>1, <1>6 DEF NoOrphanedHud, HudOnOwnScreen, OnlyFavoritesLeave, LoadingIsCovered
<1>8. ClosedIsEmpty'
  <2>1. \A r \in Screens : ~screen'[r].open =>
          screen'[r].awaiting = {} /\ screen'[r].listed = {} /\ covering'[r] = {}
    BY <1>1 DEF ClosedIsEmpty
  <2>2. \A e \in Cells : cell'[e].onScreen => screen'[ScreenOf[e]].open
    BY <1>1, <1>3 DEF ClosedIsEmpty
  <2>3. \A u \in Closures : InFlight(u)' => screen'[closure'[u].screen].open
    BY <1>1, <1>2, <1>4, <1>5 DEF ClosedIsEmpty
  <2> QED BY <2>1, <2>2, <2>3 DEF ClosedIsEmpty
<1>9. CityBlocked' /\ PhasesOfKinds'
  BY <1>1, <1>2, <1>5 DEF CityBlocked, Blocks, PhasesOfKinds
<1>10. RemovalKeepsCell'
  <2>1. \A u \in Closures : u # t /\ InFlight(u) /\ CityRemoval(u) => closure[u].cell \in Cells
    BY RemovalCovers
  <2> QED BY <1>1, <1>2, <1>3, <1>5, <2>1 DEF RemovalKeepsCell, CityRemoval, Shown
<1>11. EmptyHeartsCovered'
  BY <1>1, <1>3, <1>4 DEF EmptyHeartsCovered, Covered, s
<1>12. FavoritesScreenOnlyRemoves' /\ SucceededRemovalUncovers'
  BY <1>1, <1>2, <1>4, <1>5 DEF FavoritesScreenOnlyRemoves, SucceededRemovalUncovers
<1> QED BY <1>7, <1>8, <1>9, <1>10, <1>11, <1>12

LEMMA ReadyScreen ==
    ASSUME TypeInv, ScreenInv, NEW s \in Screens, NEW x \in Spots,
           SpotArrives(s, x) \/ SpotAbsent(s, x)
    PROVE  ScreenInv'
<1> USE ScreensAssumption
<1>1. /\ screen[s].awaiting # {} /\ closure' = closure
      /\ covering' = covering /\ shared' = shared
  BY DEF SpotArrives, SpotAbsent
<1>2. /\ screen'[s].open = screen[s].open /\ screen'[s].awaiting \subseteq screen[s].awaiting
      /\ KindOf[s] = "city" => screen'[s].leaving = screen[s].leaving
      /\ \A r \in Screens : r # s => screen'[r] = screen[r]
  <2> DEFINE X == screen[s].awaiting \ {x}
             Y == screen[s].listed \cup {x}
             Z == LeavingWith(s, x)
  <2>1. PICK new : /\ screen' = [screen EXCEPT ![s] = new]
                   /\ \/ new = [screen[s] EXCEPT !.awaiting = X, !.listed = Y, !.leaving = Z]
                      \/ new = [screen[s] EXCEPT !.awaiting = X, !.leaving = Z]
    BY DEF SpotArrives, SpotAbsent
  <2>2. screen'[s] = new /\ \A r \in Screens : r # s => screen'[r] = screen[r]
    BY <2>1 DEF TypeInv, TypeOK
  <2>3. /\ X \subseteq screen[s].awaiting /\ (KindOf[s] = "city" => Z = screen[s].leaving)
        /\ screen[s] \in ScreenRecords
    BY DEF LeavingWith, TypeInv, TypeOK
  <2> HIDE DEF X, Y, Z
  <2>4. new.open = screen[s].open /\ new.awaiting = X /\ new.leaving = Z
    BY <2>1, <2>3 DEF ScreenRecords
  <2> QED BY <2>2, <2>3, <2>4
<1>3. screen[s].open
  BY <1>1 DEF ScreenInv, ClosedIsEmpty
<1>4. \A c \in Cells :
        /\ cell'[c].isSelected = cell[c].isSelected /\ (cell'[c].onScreen => cell[c].onScreen)
        /\ cell'[c] = cell[c] \/ (ScreenOf[c] = s /\ KindOf[s] = "city")
  <2>1. CASE ReloadData(s) /\ KindOf[s] = "city"
    BY <2>1, ReloadFacts DEF TypeInv
  <2>2. CASE cell' = cell
    BY <2>2
  <2> QED BY <2>1, <2>2 DEF SpotArrives, SpotAbsent
<1> USE DEF ScreenInv
<1>5. \A t \in Closures : InFlight(t)' <=> InFlight(t)
  BY <1>1 DEF InFlight
<1>6. \A t \in Closures : InFlight(t) /\ CityRemoval(t) =>
        closure[t].cell \in Cells /\ cell'[closure[t].cell] = cell[closure[t].cell]
  BY <1>1, <1>4, RemovalCovers
<1>7. RemovalKeepsCell'
  BY <1>1, <1>5, <1>6 DEF RemovalKeepsCell, CityRemoval, Shown
<1>8. ClosedIsEmpty'
  <2>1. \A r \in Screens : ~screen'[r].open =>
          screen'[r].awaiting = {} /\ screen'[r].listed = {} /\ covering'[r] = {}
    BY <1>1, <1>2, <1>3 DEF ClosedIsEmpty
  <2>2. \A e \in Cells : cell'[e].onScreen => screen'[ScreenOf[e]].open
    BY <1>2, <1>4 DEF ClosedIsEmpty
  <2>3. \A u \in Closures : closure[u].phase # "unused" => closure[u].screen \in Screens
    BY DEF TypeInv, TypeOK, ClosuresBound, ClosureRecords
  <2>4. \A u \in Closures : InFlight(u)' => screen'[closure'[u].screen].open
    BY <1>1, <1>2, <1>5, <2>3 DEF ClosedIsEmpty, InFlight
  <2> QED BY <2>1, <2>2, <2>4 DEF ClosedIsEmpty
<1>9. OnlyFavoritesLeave'
  BY <1>2 DEF OnlyFavoritesLeave
<1>10. LoadingIsCovered'
  BY <1>1, <1>2 DEF LoadingIsCovered
<1>11. CityBlocked' /\ PhasesOfKinds' /\ FavoritesScreenOnlyRemoves' /\ SucceededRemovalUncovers'
  BY <1>1, <1>5 DEF CityBlocked, Blocks, PhasesOfKinds, FavoritesScreenOnlyRemoves,
     SucceededRemovalUncovers
<1>12. EmptyHeartsCovered' /\ NoOrphanedHud' /\ HudOnOwnScreen'
  BY <1>1, <1>4 DEF EmptyHeartsCovered, Covered, NoOrphanedHud, HudOnOwnScreen
<1> QED BY <1>7, <1>8, <1>9, <1>10, <1>11, <1>12

(* A step that hides the HUD of screen s, at the end of what it was shown for. *)
LEMMA HideStep ==
    ASSUME OneScreenPerDevice, TypeInv, ScreenInv, NEW s \in Screens, HideLoading(DeviceOf[s]),
           \A u \in Closures :
             /\ closure'[u].kind = closure[u].kind /\ closure'[u].screen = closure[u].screen
             /\ \/ closure'[u] = closure[u]
                \/ closure'[u].phase \in Terminal /\ closure[u].screen = s,
           \A u \in Closures : InFlight(u)' /\ Blocks(u) => closure[u].screen # s,
           \A r \in Screens :
             /\ screen'[r].open = screen[r].open /\ screen'[r].awaiting = screen[r].awaiting
             /\ screen'[r].listed = screen[r].listed
             /\ KindOf[r] = "city" => screen'[r].leaving = screen[r].leaving,
           KindOf[s] = "city" => screen[s].awaiting = {} /\ cell' = cell,
           KindOf[s] = "favorites" => ReloadData(s)
    PROVE  ScreenInv'
<1> USE ScreensAssumption
<1>1. /\ shared' = shared /\ covering'[s] = {}
      /\ \A r \in Screens : r # s => covering'[r] = covering[r]
  BY HideUncovers DEF TypeInv, ScreenInv
<1>2. \A u \in Closures : InFlight(u)' => InFlight(u) /\ closure'[u] = closure[u]
  BY DEF InFlight
<1>3. \A r \in Screens : covering'[r] \subseteq covering[r] /\ covering[r] \subseteq Closures
  BY <1>1 DEF TypeInv, TypeOK
<1>4. \A u \in Closures : closure[u].phase # "unused" => closure[u].screen \in Screens
  BY DEF TypeInv, TypeOK, ClosuresBound, ClosureRecords
<1>5. \A c \in Cells :
        /\ cell'[c].isSelected = cell[c].isSelected /\ (cell'[c].onScreen => cell[c].onScreen)
        /\ cell'[c] = cell[c] \/ (ScreenOf[c] = s /\ KindOf[s] = "favorites" /\ ~cell'[c].onScreen)
        /\ ScreenOf[c] = s /\ KindOf[s] = "favorites" => ~cell'[c].onScreen
  <2>1. CASE KindOf[s] = "city"
    BY <2>1
  <2>2. CASE KindOf[s] = "favorites"
    BY <2>2, ReloadFacts DEF TypeInv
  <2> QED BY <2>1, <2>2
<1> USE DEF ScreenInv
<1>6. NoOrphanedHud' /\ HudOnOwnScreen' /\ OnlyFavoritesLeave'
  BY <1>1, <1>3 DEF NoOrphanedHud, HudOnOwnScreen, OnlyFavoritesLeave
<1>7. ClosedIsEmpty'
  <2>1. \A r \in Screens : ~screen'[r].open =>
          screen'[r].awaiting = {} /\ screen'[r].listed = {} /\ covering'[r] = {}
    BY <1>1, <1>3 DEF ClosedIsEmpty
  <2>2. \A e \in Cells : cell'[e].onScreen => screen'[ScreenOf[e]].open
    BY <1>5 DEF ClosedIsEmpty
  <2>3. \A u \in Closures : InFlight(u)' => screen'[closure'[u].screen].open
    BY <1>2, <1>4 DEF ClosedIsEmpty, InFlight
  <2> QED BY <2>1, <2>2, <2>3 DEF ClosedIsEmpty
<1>8. CityBlocked'
  <2> SUFFICES ASSUME NEW u \in Closures, Blocks(u)'
               PROVE  covering'[closure'[u].screen] = {u}
    BY DEF CityBlocked
  <2>1. InFlight(u)' /\ closure'[u] = closure[u] /\ Blocks(u)
    BY <1>2 DEF Blocks
  <2>2. closure[u].screen # s /\ closure[u].screen \in Screens
    BY <1>4, <2>1 DEF Blocks, InFlight
  <2> QED BY <1>1, <2>1, <2>2 DEF CityBlocked
<1>9. PhasesOfKinds'
  BY DEF PhasesOfKinds, Terminal
<1>10. LoadingIsCovered'
  <2> SUFFICES ASSUME NEW r \in Screens, KindOf[r] = "city", screen'[r].awaiting # {}
               PROVE  \E u \in covering'[r] : closure'[u].kind = "load"
    BY DEF LoadingIsCovered
  <2>1. r # s /\ screen[r].awaiting # {}
    OBVIOUS
  <2>2. PICK u \in covering[r] : closure[u].kind = "load"
    BY <2>1 DEF LoadingIsCovered
  <2> QED BY <1>1, <1>3, <2>1, <2>2
<1>11. RemovalKeepsCell'
  <2> SUFFICES ASSUME NEW u \in Closures, InFlight(u)', CityRemoval(u)'
               PROVE  cell'[closure'[u].cell].onScreen /\ Shown(u)' = closure'[u].tapped
    BY DEF RemovalKeepsCell
  <2>1. closure'[u] = closure[u] /\ InFlight(u) /\ CityRemoval(u)
    BY <1>2 DEF CityRemoval
  <2>2. closure[u].cell \in Cells /\ KindOf[ScreenOf[closure[u].cell]] = "city"
    BY <2>1, RemovalCovers DEF CityRemoval
  <2>3. cell'[closure[u].cell] = cell[closure[u].cell]
    BY <1>5, <2>2
  <2> QED BY <2>1, <2>3 DEF RemovalKeepsCell, Shown
<1>12. EmptyHeartsCovered'
  BY <1>1, <1>5 DEF EmptyHeartsCovered, Covered
<1>13. FavoritesScreenOnlyRemoves'
  BY <1>2 DEF FavoritesScreenOnlyRemoves
<1>14. SucceededRemovalUncovers'
  BY <1>1, <1>3 DEF SucceededRemovalUncovers, HudOnOwnScreen
<1> QED BY <1>6, <1>7, <1>8, <1>9, <1>10, <1>11, <1>12, <1>13, <1>14
LEMMA FinishFacts ==
    ASSUME TypeOK, NEW t \in Closures, NEW phase \in Terminal, Finish(t, phase)
    PROVE  /\ closure' \in [Closures -> ClosureRecords]
           /\ \A u \in Closures : u # t => closure'[u] = closure[u]
           /\ closure'[t].phase = phase /\ closure'[t].kind = closure[t].kind
           /\ closure'[t].screen = closure[t].screen
<1> DEFINE r == Released(closure[t], phase)
<1>1. closure[t] \in ClosureRecords /\ phase \in Phases
  BY DEF TypeOK, Phases
<1>2. /\ r \in ClosureRecords /\ r.phase = phase /\ r.kind = closure[t].kind
      /\ r.screen = closure[t].screen
  BY <1>1, ClosureTypes
<1>3. closure' = [closure EXCEPT ![t] = r]
  BY DEF Finish
<1> HIDE DEF r
<1> QED BY <1>2, <1>3 DEF TypeOK

LEMMA FavoriteSpotNotifiedScreen ==
    ASSUME OneScreenPerDevice, TypeInv, ScreenInv, NEW s \in Screens, NEW x \in Spots,
           FavoriteSpotNotified(s, x)
    PROVE  ScreenInv'
<1> USE ScreensAssumption
<1>1. KindOf[s] = "favorites"
  BY DEF FavoriteSpotNotified, ScreenInv, OnlyFavoritesLeave
<1>2. HideLoading(DeviceOf[s]) /\ ReloadData(s) /\ closure' = closure
  BY DEF FavoriteSpotNotified
<1>3. \A r \in Screens :
        /\ screen'[r].open = screen[r].open /\ screen'[r].awaiting = screen[r].awaiting
        /\ screen'[r].listed = screen[r].listed
        /\ KindOf[r] = "city" => screen'[r].leaving = screen[r].leaving
  BY <1>1 DEF FavoriteSpotNotified, TypeInv, TypeOK, ScreenRecords
<1>4. \A u \in Closures : InFlight(u)' /\ Blocks(u) => closure[u].screen # s
  BY <1>1 DEF Blocks
<1> QED BY <1>1, <1>2, <1>3, <1>4, HideStep

LEMMA CityNotifiedScreen ==
    ASSUME OneScreenPerDevice, TypeInv, ScreenInv, NEW t \in Closures, CityNotified(t)
    PROVE  ScreenInv'
<1> DEFINE s == closure[t].screen
<1> USE ScreensAssumption
<1>1. /\ s \in Screens /\ KindOf[s] = "city" /\ closure[t].kind = "load"
      /\ closure[t].phase = "finishing"
  BY DEF CityNotified, ScreenInv, PhasesOfKinds, TypeInv, TypeOK, ClosuresBound, ClosureRecords
<1>2. /\ screen[s].awaiting = {} /\ cell' = cell /\ screen' = screen
      /\ HideLoading(DeviceOf[s]) /\ Finish(t, "done") /\ "done" \in Terminal
  BY DEF CityNotified, DeviceFor, Terminal
<1>3. /\ \A u \in Closures : u # t => closure'[u] = closure[u]
      /\ closure'[t].phase = "done" /\ closure'[t].kind = closure[t].kind
      /\ closure'[t].screen = closure[t].screen
  BY <1>2, FinishFacts DEF TypeInv
<1>4. covering[s] = {t}
  BY <1>1 DEF ScreenInv, CityBlocked, Blocks, InFlight, Terminal
<1>5. \A u \in Closures : InFlight(u)' /\ Blocks(u) => closure[u].screen # s
  BY <1>3, <1>4 DEF ScreenInv, CityBlocked, InFlight, Terminal
<1>6. \A u \in Closures :
        /\ closure'[u].kind = closure[u].kind /\ closure'[u].screen = closure[u].screen
        /\ \/ closure'[u] = closure[u]
           \/ closure'[u].phase \in Terminal /\ closure[u].screen = s
  BY <1>2, <1>3
<1> HIDE DEF s
<1> QED BY <1>1, <1>2, <1>5, <1>6, HideStep

LEMMA AnswerScreen ==
    ASSUME TypeInv, ScreenInv, NEW t \in Closures, Answer(t)
    PROVE  ScreenInv'
<1>1. PICK answer : Answered(t, answer)
  BY DEF Answer, AnswerFromServer, AnswerFromCache, AnswerWithError
<1>2. /\ closure[t].phase = "reading" /\ cell' = cell /\ screen' = screen
      /\ covering' = covering /\ shared' = shared
  BY DEF Answer, AnswerFromServer, AnswerFromCache, AnswerWithError
<1>3. InFlight(t)
  BY <1>2 DEF InFlight, Terminal
<1>4. /\ closure'[t].phase = "answered" /\ Keeps(closure'[t], closure[t])
      /\ \A u \in Closures : u # t => closure'[u] = closure[u]
  <2>1. closure' = [closure EXCEPT ![t] =
          [closure[t] EXCEPT !.phase = "answered", !.answer = answer]]
    BY <1>1 DEF Answered
  <2>2. closure[t] \in ClosureRecords
    BY DEF TypeInv, TypeOK
  <2> QED BY <2>1, <2>2 DEF TypeInv, TypeOK, ClosureRecords, Keeps
<1>5. closure' \in [Closures -> ClosureRecords]
  BY AnswerType DEF TypeInv, TypeOK
<1>6. closure'[t].kind = closure[t].kind /\ closure'[t].screen = closure[t].screen
  BY <1>4 DEF Keeps
<1>7. Keeps(closure'[t], closure[t]) /\ MayEnter(t, closure'[t].phase)
  BY <1>4 DEF MayEnter
<1> QED BY <1>2, <1>3, <1>4, <1>5, <1>6, <1>7, QuietStep

LEMMA NotifiedScreen ==
    ASSUME TypeInv, ScreenInv, NEW d \in Devices, Acknowledge(d) \/ Reject(d)
    PROVE  ScreenInv'
<1> DEFINE t == Head(pending[d]).callback
<1>1. /\ cell' = cell /\ screen' = screen /\ covering' = covering /\ shared' = shared
  BY DEF Acknowledge, Reject
<1>2. PICK phase \in {"acked", "rejected"} : NotifyUser(d, phase)
  BY DEF Acknowledge, Reject
<1>3. pending[d] \in Seq(Writes) /\ pending[d] # <<>>
  BY DEF Acknowledge, Reject, TypeInv, TypeOK, StageFollowsQueue
<1>4. Head(pending[d]) \in Writes /\ 1 \in DOMAIN pending[d] /\ pending[d][1] = Head(pending[d])
  BY <1>3
<1>5. CASE t = None
  <2>1. closure' = closure
    BY <1>2, <1>5 DEF NotifyUser
  <2>2. \A c \in Cells : cell'[c].onScreen =>
             /\ screen[ScreenOf[c]].open
             /\ \/ cell'[c].isSelected \/ KindOf[ScreenOf[c]] = "city"
                \/ cell[c].onScreen /\ ~cell[c].isSelected
    BY <1>1 DEF ScreenInv, ClosedIsEmpty, TypeInv, TypeOK, CellRecords
  <2> QED BY <1>1, <2>1, <2>2, CellStep
<1>6. CASE t # None
  <2>1. t \in Closures /\ closure[t].phase = "writing"
    BY <1>4, <1>6 DEF TypeInv, CallbacksTracked, Writes
  <2>2. closure' = [closure EXCEPT ![t].phase = phase]
    BY <1>2, <1>6 DEF NotifyUser
  <2> HIDE DEF t
  <2>3. /\ closure'[t].phase = phase /\ Keeps(closure'[t], closure[t])
        /\ \A u \in Closures : u # t => closure'[u] = closure[u]
    <3>1. closure[t] \in ClosureRecords
      BY <2>1 DEF TypeInv, TypeOK
    <3> QED BY <2>1, <2>2, <3>1 DEF TypeInv, TypeOK, ClosureRecords, Keeps
  <2>4. closure' \in [Closures -> ClosureRecords]
    BY AcknowledgeType, RejectType DEF TypeInv, TypeOK
  <2>5. closure'[t].kind = closure[t].kind /\ closure'[t].screen = closure[t].screen
    BY <2>3 DEF Keeps
  <2>6. InFlight(t) /\ Keeps(closure'[t], closure[t]) /\ MayEnter(t, closure'[t].phase)
    BY <2>1, <2>3 DEF MayEnter, InFlight, Terminal
  <2> QED BY <1>1, <2>1, <2>3, <2>4, <2>5, <2>6, QuietStep
<1> QED BY <1>5, <1>6
(* Closures that end without touching HUD or cells.                            *)
LEMMA QuietFinish ==
    ASSUME TypeInv, ScreenInv, NEW t \in Closures, InFlight(t),
           cell' = cell, covering' = covering, shared' = shared,
           \/ Finish(t, "failed")
           \/ Finish(t, "done") /\ closure[t].kind # "remove",
           \A s \in Screens :
             /\ screen'[s].open = screen[s].open /\ screen'[s].leaving = screen[s].leaving
             /\ screen'[s].listed \subseteq screen[s].listed
             /\ \/ screen'[s].awaiting = screen[s].awaiting
                \/ KindOf[s] = "favorites" /\ screen[s].open
    PROVE  ScreenInv'
<1>1. PICK phase \in {"failed", "done"} :
        Finish(t, phase) /\ (phase = "done" => closure[t].kind # "remove")
  OBVIOUS
<1>2. phase \in Terminal
  BY DEF Terminal
<1>3. /\ closure' \in [Closures -> ClosureRecords]
      /\ \A u \in Closures : u # t => closure'[u] = closure[u]
      /\ closure'[t].phase = phase /\ closure'[t].kind = closure[t].kind
      /\ closure'[t].screen = closure[t].screen
  BY <1>1, <1>2, FinishFacts DEF TypeInv
<1>4. \/ closure'[t].phase = "failed"
      \/ closure'[t].phase = "done" /\ closure[t].kind # "remove"
      \/ Keeps(closure'[t], closure[t]) /\ MayEnter(t, closure'[t].phase)
  BY <1>1, <1>3
<1> QED BY <1>3, <1>4, QuietStep

LEMMA LoadCallbackScreen ==
    ASSUME TypeInv, ScreenInv, NEW t \in Closures, LoadCallback(t)
    PROVE  ScreenInv'
<1> DEFINE s == closure[t].screen
<1>1. /\ closure[t].phase = "answered" /\ closure[t].kind = "load"
      /\ cell' = cell /\ covering' = covering /\ shared' = shared
  BY DEF LoadCallback, Callback
<1>2. /\ s \in Screens /\ InFlight(t)
  BY <1>1 DEF InFlight, Terminal, TypeInv, TypeOK, ClosuresBound, ClosureRecords
<1>3. screen[s].open /\ screen[s] \in ScreenRecords /\ closure[t] \in ClosureRecords
  BY <1>2 DEF ScreenInv, ClosedIsEmpty, TypeInv, TypeOK
<1>4. CASE Finish(t, "failed") /\ screen' = screen
  BY <1>1, <1>2, <1>4, QuietFinish
<1>5. CASE /\ KindOf[s] = "favorites" /\ Finish(t, "done")
           /\ screen' = [screen EXCEPT ![s].awaiting = ToSet(closure[t].answer.ids)]
  <2>1. \A r \in Screens :
          /\ screen'[r].open = screen[r].open /\ screen'[r].leaving = screen[r].leaving
          /\ screen'[r].listed \subseteq screen[r].listed
          /\ \/ screen'[r].awaiting = screen[r].awaiting
             \/ KindOf[r] = "favorites" /\ screen[r].open
    BY <1>2, <1>3, <1>5 DEF TypeInv, TypeOK, ScreenRecords
  <2> QED BY <1>1, <1>2, <1>5, <2>1, QuietFinish
<1>6. CASE /\ KindOf[s] = "city"
           /\ screen' = [screen EXCEPT ![s].heartIDs =
                 IF closure[t].answer.state = "array" THEN ToSet(closure[t].answer.ids) ELSE @]
           /\ closure' = [closure EXCEPT ![t] =
                 [@ EXCEPT !.phase = "finishing", !.answer = NoAnswer]]
  <2>1. \A r \in Screens :
          /\ screen'[r].open = screen[r].open /\ screen'[r].leaving = screen[r].leaving
          /\ screen'[r].listed \subseteq screen[r].listed
          /\ \/ screen'[r].awaiting = screen[r].awaiting
             \/ KindOf[r] = "favorites" /\ screen[r].open
    BY <1>2, <1>3, <1>6 DEF TypeInv, TypeOK, ScreenRecords
  <2>2. /\ closure'[t].phase = "finishing" /\ Keeps(closure'[t], closure[t])
        /\ \A u \in Closures : u # t => closure'[u] = closure[u]
    BY <1>3, <1>6 DEF TypeInv, TypeOK, ClosureRecords, Keeps
  <2>3. closure' \in [Closures -> ClosureRecords]
    BY LoadCallbackType DEF TypeInv, TypeOK
  <2>4. /\ closure'[t].kind = closure[t].kind /\ closure'[t].screen = closure[t].screen
        /\ Keeps(closure'[t], closure[t]) /\ MayEnter(t, closure'[t].phase)
    BY <1>1, <1>6, <2>2 DEF Keeps, MayEnter
  <2> QED BY <1>1, <1>2, <2>1, <2>2, <2>3, <2>4, QuietStep
<1> QED BY <1>4, <1>5, <1>6 DEF LoadCallback

LEMMA TapCallbackScreen ==
    ASSUME TypeInv, ScreenInv, NEW t \in Closures, AddCallback(t) \/ RemoveCallback(t)
    PROVE  ScreenInv'
<1>1. /\ closure[t].phase = "answered" /\ screen' = screen
      /\ cell' = cell /\ covering' = covering /\ shared' = shared
  BY DEF AddCallback, RemoveCallback, Callback
<1>2. InFlight(t)
  BY <1>1 DEF InFlight, Terminal
<1>3. CASE Finish(t, "failed")
  BY <1>1, <1>2, <1>3, QuietFinish
<1>4. CASE \E data : UpdateData(t, data)
  <2>1. PICK data : UpdateData(t, data)
    BY <1>4
  <2>2. closure' = [closure EXCEPT ![t] = [closure[t] EXCEPT !.phase = "writing", !.data = data]]
    BY <2>1 DEF UpdateData
  <2>3. closure[t] \in ClosureRecords
    BY DEF TypeInv, TypeOK
  <2>4. /\ closure'[t].phase = "writing" /\ Keeps(closure'[t], closure[t])
        /\ \A u \in Closures : u # t => closure'[u] = closure[u]
    BY <2>2, <2>3 DEF TypeInv, TypeOK, ClosureRecords, Keeps
  <2>5. closure' \in [Closures -> ClosureRecords]
    BY AddCallbackType, RemoveCallbackType DEF TypeInv, TypeOK
  <2>6. /\ closure'[t].kind = closure[t].kind /\ closure'[t].screen = closure[t].screen
        /\ Keeps(closure'[t], closure[t]) /\ MayEnter(t, closure'[t].phase)
    BY <2>4 DEF Keeps, MayEnter
  <2> QED BY <1>1, <1>2, <2>4, <2>5, <2>6, QuietStep
<1> QED BY <1>3, <1>4 DEF AddCallback, RemoveCallback

LEMMA AddCompletionScreen ==
    ASSUME TypeInv, ScreenInv, NEW t \in Closures, AddCompletion(t)
    PROVE  ScreenInv'
<1>1. /\ screen' = screen /\ cell' = cell /\ covering' = covering /\ shared' = shared
      /\ closure[t].kind # "remove" /\ InFlight(t)
      /\ Finish(t, "failed") \/ Finish(t, "done")
  BY DEF AddCompletion, InFlight, Terminal
<1> QED BY <1>1, QuietFinish

LEMMA CityRemoveCompletionScreen ==
    ASSUME OneScreenPerDevice, TypeInv, ScreenInv, NEW t \in Closures, CityRemoveCompletion(t)
    PROVE  ScreenInv'
<1> DEFINE s == closure[t].screen
<1>1. /\ closure[t].phase \in {"acked", "rejected"} /\ CityRemoval(t)
      /\ screen' = screen /\ cell' = cell
  BY DEF CityRemoveCompletion, CityRemoval
<1>2. InFlight(t)
  BY <1>1 DEF InFlight, Terminal
<1>3. CASE Finish(t, "failed") /\ shared' = shared /\ covering' = covering
  BY <1>1, <1>2, <1>3, QuietFinish
<1>4. CASE Finish(t, "done") /\ HideLoading(DeviceFor(t))
  <2>1. /\ covering[s] = {t} /\ s \in Screens /\ screen[s].awaiting = {} /\ KindOf[s] = "city"
    BY <1>1, <1>2, RemovalCovers DEF CityRemoval
  <2>2. HideLoading(DeviceOf[s]) /\ "done" \in Terminal
    BY <1>4 DEF DeviceFor, Terminal
  <2>3. /\ \A u \in Closures : u # t => closure'[u] = closure[u]
        /\ closure'[t].phase = "done" /\ closure'[t].kind = closure[t].kind
        /\ closure'[t].screen = closure[t].screen
    BY <1>4, <2>2, FinishFacts DEF TypeInv
  <2>4. \A u \in Closures : InFlight(u)' /\ Blocks(u) => closure[u].screen # s
    BY <2>1, <2>3 DEF ScreenInv, CityBlocked, InFlight, Terminal
  <2>5. \A u \in Closures :
          /\ closure'[u].kind = closure[u].kind /\ closure'[u].screen = closure[u].screen
          /\ \/ closure'[u] = closure[u]
             \/ closure'[u].phase \in Terminal /\ closure[u].screen = s
    BY <2>2, <2>3
  <2> HIDE DEF s
  <2> QED BY <1>1, <2>1, <2>2, <2>4, <2>5, HideStep
<1> QED BY <1>3, <1>4 DEF CityRemoveCompletion

LEMMA FavoritesRemoveCompletionScreen ==
    ASSUME TypeInv, ScreenInv, NEW t \in Closures, FavoritesRemoveCompletion(t)
    PROVE  ScreenInv'
<1> DEFINE s == closure[t].screen
           X == IF closure[t].phase = "acked" THEN screen[s].listed \ {Shown(t)}
                                              ELSE screen[s].listed
<1>1. /\ closure[t].phase \in {"acked", "rejected"} /\ closure[t].kind = "remove"
      /\ KindOf[s] = "favorites"
      /\ cell' = cell /\ covering' = covering /\ shared' = shared
      /\ closure' = [closure EXCEPT ![t].phase = "reloading"]
      /\ screen' = [screen EXCEPT ![s].listed = X]
  BY DEF FavoritesRemoveCompletion
<1>2. InFlight(t) /\ closure[t] \in ClosureRecords /\ s \in Screens
  BY <1>1 DEF InFlight, Terminal, TypeInv, TypeOK, ClosuresBound, ClosureRecords
<1>3. /\ closure'[t].phase = "reloading" /\ Keeps(closure'[t], closure[t])
      /\ \A u \in Closures : u # t => closure'[u] = closure[u]
  BY <1>1, <1>2 DEF TypeInv, TypeOK, ClosureRecords, Keeps
<1>4. closure' \in [Closures -> ClosureRecords]
  BY FavoritesRemoveCompletionType DEF TypeInv, TypeOK
<1>5. /\ closure'[t].kind = closure[t].kind /\ closure'[t].screen = closure[t].screen
      /\ Keeps(closure'[t], closure[t]) /\ MayEnter(t, closure'[t].phase)
  BY <1>1, <1>3 DEF Keeps, MayEnter
<1>6. X \subseteq screen[s].listed
  OBVIOUS
<1> HIDE DEF X
<1>7. \A r \in Screens :
        /\ screen'[r].open = screen[r].open /\ screen'[r].leaving = screen[r].leaving
        /\ screen'[r].listed \subseteq screen[r].listed
        /\ \/ screen'[r].awaiting = screen[r].awaiting
           \/ KindOf[r] = "favorites" /\ screen[r].open
  BY <1>1, <1>2, <1>6 DEF TypeInv, TypeOK, ScreenRecords
<1> QED BY <1>1, <1>2, <1>3, <1>4, <1>5, <1>7, QuietStep

LEMMA ReloadBlockScreen ==
    ASSUME OneScreenPerDevice, TypeInv, ScreenInv, NEW t \in Closures, ReloadBlock(t)
    PROVE  ScreenInv'
<1> DEFINE s == closure[t].screen
<1>1. /\ s \in Screens /\ KindOf[s] = "favorites" /\ KindOf[s] # "city" /\ screen' = screen
  BY DEF ReloadBlock, ScreenInv, PhasesOfKinds, TypeInv, TypeOK, ClosuresBound, ClosureRecords
<1>2. HideLoading(DeviceOf[s]) /\ ReloadData(s) /\ Finish(t, "done") /\ "done" \in Terminal
  BY DEF ReloadBlock, DeviceFor, Terminal
<1>3. /\ \A u \in Closures : u # t => closure'[u] = closure[u]
      /\ closure'[t].phase = "done" /\ closure'[t].kind = closure[t].kind
      /\ closure'[t].screen = closure[t].screen
  BY <1>2, FinishFacts DEF TypeInv
<1>4. \A u \in Closures : InFlight(u)' /\ Blocks(u) => closure[u].screen # s
  BY <1>1 DEF Blocks
<1>5. \A u \in Closures :
        /\ closure'[u].kind = closure[u].kind /\ closure'[u].screen = closure[u].screen
        /\ \/ closure'[u] = closure[u]
           \/ closure'[u].phase \in Terminal /\ closure[u].screen = s
  BY <1>2, <1>3
<1> HIDE DEF s
<1> QED BY <1>1, <1>2, <1>4, <1>5, HideStep
LEMMA RestartScreen ==
    ASSUME TypeInv, ScreenInv, NEW d \in Devices, Restart(d)
    PROVE  ScreenInv'
<1> DEFINE own == {s \in Screens : DeviceOf[s] = d}
<1> USE ScreensAssumption
<1>1. \A u \in Closures :
        /\ closure'[u].kind = closure[u].kind /\ closure'[u].screen = closure[u].screen
        /\ \/ closure'[u] = closure[u] /\ closure[u].screen \notin own
           \/ closure'[u].phase = "dead" /\ closure[u].screen \in own
  <2>1. \A u \in Closures : closure[u] \in ClosureRecords
    BY DEF TypeInv, TypeOK
  <2>2. "dead" \in Phases
    BY DEF Phases, Terminal
  <2>3. \A u \in Closures :
          closure'[u] = IF closure[u].screen \in own THEN Released(closure[u], "dead") ELSE closure[u]
    BY DEF Restart
  <2> HIDE DEF own
  <2> QED BY <2>1, <2>2, <2>3, ClosureTypes
<1>2. /\ \A s \in own : screen'[s] = ClosedScreen /\ covering'[s] = {}
      /\ \A s \in Screens \ own : /\ screen'[s] = screen[s] /\ covering'[s] = covering[s]
                                  /\ shared'[DeviceOf[s]] = shared[DeviceOf[s]]
      /\ \A c \in Cells : IF ScreenOf[c] \in own THEN cell'[c] = EmptyCell ELSE cell'[c] = cell[c]
  BY DEF Restart, TypeInv, TypeOK
<1>3. /\ ~ClosedScreen.open /\ ClosedScreen.awaiting = {} /\ ClosedScreen.listed = {}
      /\ ClosedScreen.leaving = {} /\ ~EmptyCell.onScreen
  BY DEF ClosedScreen, EmptyCell
<1>4. \A u \in Closures : closure[u].phase # "unused" => closure[u].screen \in Screens
  BY DEF TypeInv, TypeOK, ClosuresBound, ClosureRecords
<1>5. \A u \in Closures : InFlight(u)' =>
        /\ InFlight(u) /\ closure'[u] = closure[u] /\ closure[u].screen \in Screens \ own
  BY <1>1, <1>4 DEF InFlight, Terminal
<1>6. \A s \in Screens : covering'[s] \subseteq covering[s] /\ covering[s] \subseteq Closures
  BY <1>2 DEF TypeInv, TypeOK
<1> HIDE DEF own
<1> USE DEF ScreenInv
<1>7. NoOrphanedHud' /\ HudOnOwnScreen' /\ OnlyFavoritesLeave'
  BY <1>1, <1>2, <1>3, <1>6 DEF NoOrphanedHud, HudOnOwnScreen, OnlyFavoritesLeave
<1>8. ClosedIsEmpty'
  <2>1. \A s \in Screens : ~screen'[s].open =>
          screen'[s].awaiting = {} /\ screen'[s].listed = {} /\ covering'[s] = {}
    BY <1>2, <1>3 DEF ClosedIsEmpty
  <2>2. \A c \in Cells : cell'[c].onScreen => screen'[ScreenOf[c]].open
    BY <1>2, <1>3 DEF ClosedIsEmpty
  <2>3. \A u \in Closures : InFlight(u)' => screen'[closure'[u].screen].open
    BY <1>2, <1>5 DEF ClosedIsEmpty
  <2> QED BY <2>1, <2>2, <2>3 DEF ClosedIsEmpty
<1>9. CityBlocked'
  BY <1>2, <1>5 DEF CityBlocked, Blocks
<1>10. PhasesOfKinds'
  BY <1>1 DEF PhasesOfKinds
<1>11. LoadingIsCovered'
  <2> SUFFICES ASSUME NEW s \in Screens, KindOf[s] = "city", screen'[s].awaiting # {}
               PROVE  \E u \in covering'[s] : closure'[u].kind = "load"
    BY DEF LoadingIsCovered
  <2>1. s \notin own /\ screen[s].awaiting # {} /\ covering'[s] = covering[s]
    BY <1>2, <1>3
  <2>2. PICK u \in covering[s] : closure[u].kind = "load"
    BY <2>1 DEF LoadingIsCovered
  <2> QED BY <1>1, <1>6, <2>1, <2>2
<1>12. RemovalKeepsCell'
  <2> SUFFICES ASSUME NEW u \in Closures, InFlight(u)', CityRemoval(u)'
               PROVE  cell'[closure'[u].cell].onScreen /\ Shown(u)' = closure'[u].tapped
    BY DEF RemovalKeepsCell
  <2>1. /\ closure'[u] = closure[u] /\ InFlight(u) /\ CityRemoval(u)
        /\ closure[u].screen \notin own
    BY <1>5 DEF CityRemoval
  <2>2. closure[u].cell \in Cells /\ ScreenOf[closure[u].cell] = closure[u].screen
    BY <2>1, RemovalCovers
  <2>3. cell'[closure[u].cell] = cell[closure[u].cell]
    BY <1>2, <2>1, <2>2
  <2> QED BY <2>1, <2>3 DEF RemovalKeepsCell, Shown
<1>13. EmptyHeartsCovered'
  BY <1>2, <1>3 DEF EmptyHeartsCovered, Covered
<1>14. FavoritesScreenOnlyRemoves'
  BY <1>5 DEF FavoritesScreenOnlyRemoves
<1>15. SucceededRemovalUncovers'
  BY <1>1, <1>6 DEF SucceededRemovalUncovers
<1> QED BY <1>7, <1>8, <1>9, <1>10, <1>11, <1>12, <1>13, <1>14, <1>15

-----------------------------------------------------------------------------
LEMMA InitScreen == Init => ScreenInv
<1> SUFFICES ASSUME Init PROVE ScreenInv
  OBVIOUS
<1> USE ScreensAssumption DEF Init, Unused, EmptyCell, ClosedScreen, InFlight
<1>1. NoOrphanedHud /\ HudOnOwnScreen /\ ClosedIsEmpty /\ OnlyFavoritesLeave
  BY DEF NoOrphanedHud, HudOnOwnScreen, ClosedIsEmpty, OnlyFavoritesLeave
<1>2. CityBlocked /\ PhasesOfKinds /\ LoadingIsCovered /\ RemovalKeepsCell
  BY DEF CityBlocked, Blocks, PhasesOfKinds, LoadingIsCovered, RemovalKeepsCell
<1>3. EmptyHeartsCovered /\ FavoritesScreenOnlyRemoves /\ SucceededRemovalUncovers
  BY DEF EmptyHeartsCovered, FavoritesScreenOnlyRemoves, SucceededRemovalUncovers
<1> QED BY <1>1, <1>2, <1>3 DEF ScreenInv

LEMMA IdleScreen ==
    ASSUME ScreenInv, closure' = closure, cell' = cell, screen' = screen, shared' = shared,
           covering' = covering
    PROVE  ScreenInv'
BY DEF ScreenInv, NoOrphanedHud, HudOnOwnScreen, ClosedIsEmpty, OnlyFavoritesLeave,
    CityBlocked, Blocks, PhasesOfKinds, LoadingIsCovered, RemovalKeepsCell, CityRemoval,
    Shown, EmptyHeartsCovered, Covered, FavoritesScreenOnlyRemoves,
    SucceededRemovalUncovers, InFlight

LEMMA NextScreen ==
    ASSUME OneScreenPerDevice
    PROVE  TypeInv /\ ScreenInv /\ [Next]_vars => ScreenInv'
<1> SUFFICES ASSUME TypeInv, ScreenInv, [Next]_vars PROVE ScreenInv'
  OBVIOUS
<1>1. CASE UserStep
  BY <1>1, OpenScreen, TapAddScreen, TapRemoveScreen, ScrollOffScreen DEF UserStep
<1>2. CASE ScreenStep
  BY <1>2, ReadyScreen, FavoriteSpotNotifiedScreen, CityNotifiedScreen, ConfigureScreen
     DEF ScreenStep
<1>3. CASE FirestoreStep
  <2>1. ASSUME NEW d \in Devices, Commit(d) \/ LoseAck(d)
        PROVE  ScreenInv'
    BY <2>1, IdleScreen DEF Commit, LoseAck
  <2> QED BY <1>3, <2>1, AnswerScreen, NotifiedScreen DEF FirestoreStep
<1>4. CASE \E t \in Closures : MainQueueStep(t)
  BY <1>4, LoadCallbackScreen, TapCallbackScreen, AddCompletionScreen,
     CityRemoveCompletionScreen, FavoritesRemoveCompletionScreen, ReloadBlockScreen
     DEF MainQueueStep
<1>5. CASE \E d \in Devices : Restart(d)
  BY <1>5, RestartScreen
<1>6. CASE UNCHANGED vars
  BY <1>6, IdleScreen DEF vars
<1> QED BY <1>1, <1>2, <1>3, <1>4, <1>5, <1>6 DEF Next

LEMMA ScreenInvHolds ==
    ASSUME OneScreenPerDevice
    PROVE  Spec => [](TypeInv /\ ScreenInv)
<1>1. Init => TypeInv /\ ScreenInv
  BY InitType, InitScreen
<1>2. TypeInv /\ ScreenInv /\ [Next]_vars => (TypeInv /\ ScreenInv)'
  BY NextType, NextScreen
<1> QED BY <1>1, <1>2, PTL DEF Spec

(* HUD.shared.hud is overwritten by every showLoading, yet no HUD is lost: a    *)
(* screen that is covered cannot be tapped, so nothing asks for another.       *)
THEOREM NoHudIsOrphaned ==
    ASSUME OneScreenPerDevice
    PROVE  Spec => []NoOrphanedHud
<1>1. TypeInv /\ ScreenInv => NoOrphanedHud
  BY DEF ScreenInv
<1> QED BY <1>1, ScreenInvHolds, PTL

(* While anything of a city is still to come, its screen is covered.           *)
THEOREM TouchableCitiesAreLoaded ==
    ASSUME OneScreenPerDevice
    PROVE  Spec => []TouchableCityIsLoaded
<1>1. TypeInv /\ ScreenInv => TouchableCityIsLoaded
  <2> SUFFICES ASSUME ScreenInv, NEW s \in Screens, KindOf[s] = "city", covering[s] = {}
               PROVE  /\ screen[s].awaiting = {}
                      /\ \A t \in Closures :
                            closure[t].kind = "load" /\ closure[t].screen = s => ~InFlight(t)
    BY DEF TouchableCityIsLoaded, Covered
  <2>1. screen[s].awaiting = {}
    BY DEF ScreenInv, LoadingIsCovered
  <2>2. ASSUME NEW t \in Closures, closure[t].kind = "load", closure[t].screen = s
        PROVE  ~InFlight(t)
    BY <2>2 DEF ScreenInv, CityBlocked, Blocks
  <2> QED BY <2>1, <2>2
<1> QED BY <1>1, ScreenInvHolds, PTL

(* A removal on a city screen has the screen to itself from tap to completion.  *)
THEOREM RemovalBlocksItsScreen ==
    ASSUME OneScreenPerDevice
    PROVE  Spec => []CityRemovalBlocksScreen
<1>1. TypeInv /\ ScreenInv => CityRemovalBlocksScreen
  BY DEF ScreenInv, CityBlocked, Blocks, CityRemovalBlocksScreen, CityRemoval
<1> QED BY <1>1, ScreenInvHolds, PTL

(* self.spot, read by the two closures of a city removal, is the spot that was  *)
(* tapped: the HUD keeps the user from scrolling the cell away, and the load,  *)
(* whose reloads would return the cell to the pool, ended before the tap.      *)
THEOREM RemovalHitsTappedSpot ==
    ASSUME OneScreenPerDevice
    PROVE  Spec => []CityRemovalHitsTappedSpot
<1>1. TypeInv /\ ScreenInv => CityRemovalHitsTappedSpot
  BY DEF ScreenInv, RemovalKeepsCell, CityRemovalHitsTappedSpot
<1> QED BY <1>1, ScreenInvHolds, PTL

(* The favourites screen never runs the add path: an emptied heart is covered   *)
(* until a reload fills it, even when hideLoading comes early.                 *)
THEOREM FavoritesScreenNeverAdds ==
    ASSUME OneScreenPerDevice
    PROVE  Spec => []FavoritesScreenOnlyRemoves
<1>1. TypeInv /\ ScreenInv => FavoritesScreenOnlyRemoves
  BY DEF ScreenInv
<1> QED BY <1>1, ScreenInvHolds, PTL

(* A removal that ended well has taken its HUD away, on either kind of screen.  *)
THEOREM SucceededRemovalsUncover ==
    ASSUME OneScreenPerDevice
    PROVE  Spec => []SucceededRemovalUncovers
<1>1. TypeInv /\ ScreenInv => SucceededRemovalUncovers
  BY DEF ScreenInv
<1> QED BY <1>1, ScreenInvHolds, PTL
=============================================================================
