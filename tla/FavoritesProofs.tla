--------------------------- MODULE FavoritesProofs ---------------------------
(***************************************************************************)
(* Favorites keeps its types, and no copy of the favourites lists a spot   *)
(* twice, for every number of devices, screens, cells, spots and taps.     *)
(***************************************************************************)
EXTENDS Favorites, SequenceTheorems, WellFoundedInduction, TLAPS

LEMMA LeastExists ==
    ASSUME NEW T, T \subseteq Nat, T # {}
    PROVE  \E x \in T : \A y \in T : x <= y
<1> DEFINE R == OpToRel(<, Nat)
<1>1. IsWellFoundedOn(R, Nat)
  BY NatLessThanWellFounded
<1>2. PICK x \in T : \A y \in T : ~ (<<y, x>> \in R)
  <2> HIDE DEF R
  <2> QED BY <1>1, WFMin
<1>3. \A y \in T : y < x => <<y, x>> \in R
  BY DEF OpToRel
<1> HIDE DEF R
<1>4. \A y \in T : ~ (y < x)
  BY <1>2, <1>3
<1>5. \A y \in T : x <= y
  BY <1>4
<1> QED BY <1>5

LEMMA GreatestExists ==
    ASSUME NEW n \in Nat, NEW T, T \subseteq 1..n, T # {}
    PROVE  \E x \in T : \A y \in T : y <= x
<1> DEFINE U == {n - x : x \in T}
<1>1. U \subseteq Nat
  OBVIOUS
<1>2. U # {}
  <2>1. PICK x \in T : TRUE
    OBVIOUS
  <2>2. n - x \in U
    BY <2>1
  <2> QED BY <2>2
<1>3. PICK u \in U : \A v \in U : u <= v
  <2> HIDE DEF U
  <2> QED BY <1>1, <1>2, LeastExists
<1>4. PICK x \in T : u = n - x
  BY <1>3
<1>5. \A y \in T : n - x <= n - y
  BY <1>3, <1>4
<1> QED BY <1>5

(* firstIndex(of:) of an array that contains the spot.                        *)
LEMMA FirstIndexExists ==
    ASSUME NEW S, NEW ids \in Seq(S), NEW x, Contains(ids, x)
    PROVE  /\ FirstIndex(ids, x) \in 1..Len(ids)
           /\ IsFirstIndex(ids, x, FirstIndex(ids, x))
<1> DEFINE T == {i \in 1..Len(ids) : ids[i] = x}
<1>1. T \subseteq Nat /\ T # {}
  BY DEF Contains
<1>2. PICK i \in T : \A j \in T : i <= j
  <2> HIDE DEF T
  <2> QED BY <1>1, LeastExists
<1>3. i \in DOMAIN ids /\ IsFirstIndex(ids, x, i)
  BY <1>2 DEF IsFirstIndex
<1> QED BY <1>3 DEF FirstIndex

LEMMA LastAssignmentExists ==
    ASSUME NEW q \in Seq(Writes), NEW i \in DOMAIN q, q[i].data.state = "array"
    PROVE  \E j \in DOMAIN q : IsLastAssignment(q, j)
<1> DEFINE T == {j \in 1..Len(q) : q[j].data.state = "array"}
<1>1. T \subseteq 1..Len(q) /\ T # {} /\ Len(q) \in Nat
  OBVIOUS
<1>2. PICK j \in T : \A k \in T : k <= j
  <2> HIDE DEF T
  <2> QED BY <1>1, GreatestExists
<1> QED BY <1>2 DEF IsLastAssignment

-----------------------------------------------------------------------------
(* Types of the operators.                                                    *)

LEMMA ConstantTypes ==
    /\ Missing \in Documents /\ Bare \in Documents
    /\ NoAnswer \in Answers /\ Error \in Answers
    /\ Documents \subseteq Answers
    /\ \A ids \in Seq(Spots) : Array(ids) \in Documents
    /\ ClosedScreen \in ScreenRecords
    /\ EmptyCell \in CellRecords
BY EmptySeq DEF Missing, Bare, NoAnswer, Error, Array, Documents, Answers, ClosedScreen,
    ScreenRecords, EmptyCell, CellRecords

LEMMA ClosureTypes ==
    /\ Unused \in ClosureRecords
    /\ \A kind \in {"load", "add", "remove"}, s \in Screens, c \in Cells \cup {None},
          x \in Spots \cup {None} :
          /\ Reading(kind, s, c, x) \in ClosureRecords
          /\ Reading(kind, s, c, x).phase = "reading"
          /\ Reading(kind, s, c, x).kind = kind
          /\ Reading(kind, s, c, x).screen = s
          /\ Reading(kind, s, c, x).cell = c
          /\ Reading(kind, s, c, x).tapped = x
          /\ Reading(kind, s, c, x).answer = NoAnswer
          /\ Reading(kind, s, c, x).data = Bare
    /\ \A r \in ClosureRecords, phase \in Phases :
          /\ Released(r, phase) \in ClosureRecords
          /\ Released(r, phase).phase = phase
          /\ Released(r, phase).kind = r.kind
          /\ Released(r, phase).screen = r.screen
          /\ Released(r, phase).answer = NoAnswer
          /\ Released(r, phase).data = Bare
<1>1. Unused \in ClosureRecords
  BY ConstantTypes DEF Unused, ClosureRecords, Phases
<1>2. ASSUME NEW kind \in {"load", "add", "remove"}, NEW s \in Screens,
             NEW c \in Cells \cup {None}, NEW x \in Spots \cup {None}
      PROVE  /\ Reading(kind, s, c, x) \in ClosureRecords
             /\ Reading(kind, s, c, x).phase = "reading"
             /\ Reading(kind, s, c, x).kind = kind
             /\ Reading(kind, s, c, x).screen = s
             /\ Reading(kind, s, c, x).cell = c
             /\ Reading(kind, s, c, x).tapped = x
             /\ Reading(kind, s, c, x).answer = NoAnswer
             /\ Reading(kind, s, c, x).data = Bare
  BY ConstantTypes DEF Reading, ClosureRecords, Phases
<1>3. ASSUME NEW r \in ClosureRecords, NEW phase \in Phases
      PROVE  /\ Released(r, phase) \in ClosureRecords
             /\ Released(r, phase).phase = phase
             /\ Released(r, phase).kind = r.kind
             /\ Released(r, phase).screen = r.screen
             /\ Released(r, phase).answer = NoAnswer
             /\ Released(r, phase).data = Bare
  BY ConstantTypes DEF Released, ClosureRecords
<1> QED BY <1>1, <1>2, <1>3

(* What a copy of the user document always is: its array lists no spot twice,  *)
(* and without an array there is nothing listed.                              *)
WellFormed(doc) == IsInjective(doc.ids) /\ (doc.state # "array" => doc.ids = <<>>)

LEMMA PatchType ==
    ASSUME NEW doc \in Documents, NEW data \in Documents
    PROVE  /\ Patch(doc, data) \in Documents
           /\ WellFormed(doc) /\ WellFormed(data) => WellFormed(Patch(doc, data))
BY DEF Patch

LEMMA OverlayType ==
    ASSUME NEW doc \in Documents, NEW q \in Seq(Writes)
    PROVE  /\ Overlay(doc, q) \in Documents
           /\ WellFormed(doc) /\ (\A i \in DOMAIN q : WellFormed(q[i].data))
                => WellFormed(Overlay(doc, q))
<1>1. CASE doc.state # "missing" /\ \E i \in DOMAIN q : IsLastAssignment(q, i)
  <2> DEFINE j == CHOOSE i \in DOMAIN q : IsLastAssignment(q, i)
  <2>1. j \in DOMAIN q
    BY <1>1
  <2>2. q[j] \in Writes
    BY <2>1
  <2>3. Overlay(doc, q) = q[j].data
    BY <1>1 DEF Overlay
  <2> QED BY <2>1, <2>2, <2>3 DEF Writes
<1>2. CASE ~ (doc.state # "missing" /\ \E i \in DOMAIN q : IsLastAssignment(q, i))
  BY <1>2 DEF Overlay
<1> QED BY <1>1, <1>2

LEMMA AddDataType ==
    ASSUME NEW answer \in Answers, NEW x \in Spots
    PROVE  /\ AddData(answer, x) \in Documents
           /\ WellFormed(answer) => WellFormed(AddData(answer, x))
<1>1. answer.ids \in Seq(Spots)
  BY DEF Answers
<1>2. CASE answer.state = "bare"
  BY <1>2 DEF AddData, Array, Documents, IsInjective, WellFormed
<1>3. CASE answer.state # "bare" /\ Contains(answer.ids, x)
  BY <1>3, EmptySeq DEF AddData, Bare, Documents, IsInjective, WellFormed
<1>4. CASE answer.state # "bare" /\ ~Contains(answer.ids, x)
  <2> DEFINE new == Append(answer.ids, x)
  <2>1. AddData(answer, x) = Array(new)
    BY <1>4 DEF AddData
  <2>2. /\ new \in Seq(Spots) /\ Len(new) = Len(answer.ids) + 1
        /\ DOMAIN new = 1..Len(answer.ids) + 1
        /\ \A i \in 1..Len(answer.ids) : new[i] = answer.ids[i]
        /\ new[Len(answer.ids) + 1] = x
    BY <1>1
  <2>3. \A i \in 1..Len(answer.ids) : answer.ids[i] # x
    BY <1>4 DEF Contains
  <2>4. IsInjective(answer.ids) => IsInjective(new)
    <3> HIDE DEF new
    <3> QED BY <1>1, <2>2, <2>3 DEF IsInjective
  <2> QED BY <2>1, <2>2, <2>4 DEF Array, Documents, WellFormed
<1> QED BY <1>2, <1>3, <1>4

LEMMA RemoveAtType ==
    ASSUME NEW S, NEW s \in Seq(S), NEW i \in 1..Len(s)
    PROVE  /\ RemoveAt(s, i) \in Seq(S)
           /\ Len(RemoveAt(s, i)) = Len(s) - 1
           /\ \A j \in 1..Len(s) - 1 : RemoveAt(s, i)[j] = s[IF j < i THEN j ELSE j + 1]
<1> DEFINE a == SubSeq(s, 1, i - 1)
           b == SubSeq(s, i + 1, Len(s))
<1>1. /\ a \in Seq(S) /\ Len(a) = i - 1
      /\ \A j \in 1..i - 1 : a[j] = s[j]
  OBVIOUS
<1>2. /\ b \in Seq(S) /\ Len(b) = Len(s) - i
      /\ \A j \in 1..Len(s) - i : b[j] = s[i + j]
  OBVIOUS
<1>3. RemoveAt(s, i) = a \o b
  BY DEF RemoveAt
<1> HIDE DEF a, b
<1>4. /\ a \o b \in Seq(S)
      /\ Len(a \o b) = Len(a) + Len(b)
      /\ \A j \in 1..Len(a) + Len(b) :
           (a \o b)[j] = IF j <= Len(a) THEN a[j] ELSE b[j - Len(a)]
  BY <1>1, <1>2, ConcatProperties
<1>5. ASSUME NEW j \in 1..Len(s) - 1
      PROVE  (a \o b)[j] = s[IF j < i THEN j ELSE j + 1]
  <2>1. CASE j < i
    BY <1>1, <1>2, <1>4, <2>1
  <2>2. CASE ~(j < i)
    <3> DEFINE k == j - (i - 1)
    <3>1. k \in 1..Len(s) - i /\ j \in 1..Len(a) + Len(b) /\ ~(j <= Len(a)) /\ k = j - Len(a)
      BY <1>1, <1>2, <2>2
    <3>2. (a \o b)[j] = b[k]
      BY <1>4, <3>1
    <3>3. b[k] = s[i + k] /\ i + k = j + 1
      BY <1>2, <3>1
    <3> QED BY <2>2, <3>2, <3>3
  <2> QED BY <2>1, <2>2
<1>6. Len(RemoveAt(s, i)) = Len(s) - 1
  BY <1>1, <1>2, <1>3, <1>4
<1> QED BY <1>3, <1>4, <1>5, <1>6

LEMMA RemoveDataType ==
    ASSUME NEW answer \in Answers, NEW x \in Spots, Contains(answer.ids, x)
    PROVE  /\ RemoveData(answer, x) \in Documents
           /\ WellFormed(answer) => WellFormed(RemoveData(answer, x))
<1> DEFINE ids == answer.ids
           i == FirstIndex(ids, x)
<1>1. ids \in Seq(Spots)
  BY DEF Answers
<1>2. i \in 1..Len(ids)
  BY <1>1, FirstIndexExists
<1>3. /\ RemoveAt(ids, i) \in Seq(Spots)
      /\ Len(RemoveAt(ids, i)) = Len(ids) - 1
      /\ \A j \in 1..Len(ids) - 1 : RemoveAt(ids, i)[j] = ids[IF j < i THEN j ELSE j + 1]
  <2> HIDE DEF ids, i
  <2> QED BY <1>1, <1>2, RemoveAtType
<1>4. IsInjective(ids) => IsInjective(RemoveAt(ids, i))
  <2> HIDE DEF ids, i
  <2> SUFFICES ASSUME IsInjective(ids),
                      NEW p \in 1..Len(ids) - 1, NEW q \in 1..Len(ids) - 1,
                      RemoveAt(ids, i)[p] = RemoveAt(ids, i)[q]
               PROVE  p = q
    <3>1. DOMAIN RemoveAt(ids, i) = 1..Len(ids) - 1
      BY <1>1, <1>3
    <3> QED BY <3>1 DEF IsInjective
  <2> DEFINE At(j) == IF j < i THEN j ELSE j + 1
  <2>1. At(p) \in DOMAIN ids /\ At(q) \in DOMAIN ids /\ ids[At(p)] = ids[At(q)]
    BY <1>1, <1>2, <1>3
  <2>2. At(p) = At(q)
    BY <2>1 DEF IsInjective
  <2> QED BY <1>1, <1>2, <2>2
<1> QED BY <1>3, <1>4 DEF RemoveData, Array, Documents, WellFormed

-----------------------------------------------------------------------------
(* What makes TypeOK inductive.                                               *)

(* A closure in use belongs to a screen; one that a tap started captures a     *)
(* cell of that screen, and the cell shows a spot for as long as it may run.   *)
ClosuresBound ==
    \A t \in Closures :
        /\ closure[t].phase # "unused" => closure[t].screen # None
        /\ InFlight(t) /\ closure[t].kind # "load" =>
             /\ closure[t].cell # None
             /\ ScreenOf[closure[t].cell] = closure[t].screen
             /\ Shown(t) # None

CellsFilled == \A c \in Cells : cell[c].onScreen => cell[c].spot # None

StageFollowsQueue == \A d \in Devices : stage[d] # "waiting" => pending[d] # <<>>

(* A pending write with a callback is the only one of a tap that is writing.   *)
CallbacksTracked ==
    \A d \in Devices : \A i \in DOMAIN pending[d] :
        LET t == pending[d][i].callback IN
        t # None =>
            /\ closure[t].phase = "writing" /\ closure[t].kind # "load"
            /\ DeviceFor(t) = d
            /\ \A j \in DOMAIN pending[d] : pending[d][j].callback = t => j = i

TypeInv == TypeOK /\ ClosuresBound /\ CellsFilled /\ StageFollowsQueue /\ CallbacksTracked

LEMMA RecordUpdates ==
    /\ \A r \in CellRecords, b \in BOOLEAN :
         /\ [r EXCEPT !.isSelected = b] \in CellRecords
         /\ [r EXCEPT !.onScreen = b] \in CellRecords
    /\ \A r \in ScreenRecords, X \in SUBSET Spots :
         [r EXCEPT !.open = TRUE, !.awaiting = X] \in ScreenRecords
BY DEF CellRecords, ScreenRecords

LEMMA OpenType ==
    ASSUME TypeInv, NEW t \in Closures, NEW s \in Screens, Open(t, s)
    PROVE  TypeInv'
<1> USE ScreensAssumption DEF TypeInv, Open, ShowLoading
<1>1. closure' \in [Closures -> ClosureRecords]
  BY ClosureTypes DEF TypeOK
<1>2. screen' \in [Screens -> ScreenRecords]
  BY RecordUpdates DEF TypeOK
<1>3. shared' \in [Devices -> Closures \cup {None}] /\ covering' \in [Screens -> SUBSET Closures]
  BY DEF TypeOK
<1>4. TypeOK'
  BY <1>1, <1>2, <1>3 DEF TypeOK
<1>5. ClosuresBound'
  BY ClosureTypes, NoneAssumption DEF TypeOK, ClosuresBound, InFlight, Shown
<1>6. CallbacksTracked'
  BY DEF TypeOK, CallbacksTracked, DeviceFor, Unused
<1> QED BY <1>4, <1>5, <1>6 DEF CellsFilled, StageFollowsQueue

LEMMA TapAddType ==
    ASSUME TypeInv, NEW t \in Closures, NEW c \in Cells, TapAdd(t, c)
    PROVE  TypeInv'
<1> USE ScreensAssumption DEF TypeInv, TapAdd, Touchable
<1>1. cell[c].spot \in Spots /\ ScreenOf[c] \in Screens
  BY DEF TypeOK, CellRecords, CellsFilled
<1>2. closure' \in [Closures -> ClosureRecords]
  BY <1>1, ClosureTypes DEF TypeOK
<1>3. cell' \in [Cells -> CellRecords]
  BY RecordUpdates DEF TypeOK
<1>4. TypeOK'
  BY <1>2, <1>3 DEF TypeOK
<1>5. /\ closure'[t] = Reading("add", ScreenOf[c], c, cell[c].spot)
      /\ \A u \in Closures : u # t => closure'[u] = closure[u]
      /\ \A e \in Cells : cell'[e].spot = cell[e].spot /\ cell'[e].onScreen = cell[e].onScreen
  BY DEF TypeOK, CellRecords
<1>6. ClosuresBound'
  <2> SUFFICES ASSUME NEW u \in Closures
               PROVE  ClosuresBound!(u)'
    BY DEF ClosuresBound
  <2>1. CASE u = t
    BY <1>1, <1>5, <2>1, ClosureTypes, NoneAssumption DEF Shown
  <2>2. CASE u # t
    BY <1>5, <2>2 DEF ClosuresBound, InFlight, Shown, TypeOK, ClosureRecords
  <2> QED BY <2>1, <2>2
<1>7. CallbacksTracked'
  BY <1>5 DEF TypeOK, CallbacksTracked, DeviceFor, Unused
<1>8. CellsFilled'
  BY <1>5 DEF CellsFilled
<1> QED BY <1>4, <1>6, <1>7, <1>8 DEF StageFollowsQueue


LEMMA ReloadFacts ==
    ASSUME TypeOK, NEW s \in Screens, ReloadData(s)
    PROVE  /\ cell' \in [Cells -> CellRecords]
           /\ \A c \in Cells :
                /\ cell'[c].spot = cell[c].spot
                /\ cell'[c].isSelected = cell[c].isSelected
                /\ cell'[c].onScreen => cell[c].onScreen
                /\ ScreenOf[c] = s => ~cell'[c].onScreen
                /\ ScreenOf[c] # s => cell'[c] = cell[c]
<1>1. ASSUME NEW c \in Cells
      PROVE  /\ cell'[c] \in CellRecords
             /\ cell'[c].spot = cell[c].spot
             /\ cell'[c].isSelected = cell[c].isSelected
             /\ cell'[c].onScreen => cell[c].onScreen
             /\ ScreenOf[c] = s => ~cell'[c].onScreen
             /\ ScreenOf[c] # s => cell'[c] = cell[c]
  <2>1. cell[c] \in CellRecords
    BY DEF TypeOK
  <2>2. CASE ScreenOf[c] = s
    <3>1. cell'[c] = [cell[c] EXCEPT !.onScreen = FALSE]
      BY <2>2 DEF ReloadData
    <3>2. [cell[c] EXCEPT !.onScreen = FALSE] \in CellRecords
      BY <2>1 DEF CellRecords
    <3>3. /\ cell'[c].spot = cell[c].spot
          /\ cell'[c].isSelected = cell[c].isSelected
          /\ cell'[c].onScreen = FALSE
      BY <2>1, <3>1 DEF CellRecords
    <3> QED BY <2>2, <3>1, <3>2, <3>3
  <2>3. CASE ScreenOf[c] # s
    BY <2>1, <2>3 DEF ReloadData
  <2> QED BY <2>2, <2>3
<1>2. cell' \in [Cells -> CellRecords]
  BY <1>1 DEF ReloadData
<1> QED BY <1>1, <1>2

LEMMA HideFacts ==
    ASSUME TypeOK, NEW d \in Devices, HideLoading(d)
    PROVE  /\ shared' = shared
           /\ covering' \in [Screens -> SUBSET Closures]
           /\ \A s \in Screens :
                covering'[s] = IF DeviceOf[s] = d THEN covering[s] \ {shared[d]} ELSE covering[s]
BY DEF HideLoading, TypeOK

LEMMA BoundFrame ==
    ASSUME TypeInv, closure' = closure, pending' = pending,
           \A c \in Cells : cell'[c].spot = cell[c].spot
    PROVE  ClosuresBound' /\ CallbacksTracked'
<1>1. ClosuresBound'
  BY DEF TypeInv, TypeOK, ClosuresBound, InFlight, Shown, ClosureRecords
<1>2. CallbacksTracked'
  BY DEF TypeInv, CallbacksTracked, DeviceFor
<1> QED BY <1>1, <1>2

LEMMA AdvanceFrame ==
    ASSUME TypeInv, NEW t \in Closures, NEW r \in ClosureRecords,
           closure' = [closure EXCEPT ![t] = r], pending' = pending,
           r.phase # "unused", r.screen = closure[t].screen,
           closure[t].phase \notin {"unused", "writing"},
           r.phase \in Terminal
             \/ (InFlight(t) /\ r.kind = closure[t].kind /\ r.cell = closure[t].cell),
           \A c \in Cells : cell'[c].spot = cell[c].spot
    PROVE  closure' \in [Closures -> ClosureRecords] /\ ClosuresBound' /\ CallbacksTracked'
<1> USE DEF TypeInv
<1>1. /\ closure' \in [Closures -> ClosureRecords]
      /\ closure'[t] = r
      /\ \A u \in Closures : u # t => closure'[u] = closure[u]
  BY DEF TypeOK
<1>2. ClosuresBound'
  <2> SUFFICES ASSUME NEW u \in Closures
               PROVE  ClosuresBound!(u)'
    BY DEF ClosuresBound
  <2>1. CASE u = t /\ r.phase \in Terminal
    BY <1>1, <2>1 DEF ClosuresBound, InFlight, ClosureRecords
  <2>2. CASE u = t /\ InFlight(t) /\ r.kind = closure[t].kind /\ r.cell = closure[t].cell
    <3>1. closure[t].kind # "load" =>
            /\ closure[t].cell # None /\ ScreenOf[closure[t].cell] = closure[t].screen
            /\ Shown(t) # None
      BY <2>2 DEF ClosuresBound
    <3>2. closure[t].kind # "load" => closure[t].cell \in Cells
      BY <3>1 DEF TypeOK, ClosureRecords
    <3>3. closure[t].kind # "load" => Shown(t)' = Shown(t)
      BY <1>1, <2>2, <3>2 DEF Shown
    <3>4. closure'[t].phase # "unused" => closure'[t].screen # None
      BY <1>1 DEF ClosuresBound
    <3> QED BY <1>1, <2>2, <3>1, <3>3, <3>4
  <2>3. CASE u # t
    BY <1>1, <2>3 DEF ClosuresBound, InFlight, Shown, TypeOK, ClosureRecords
  <2> QED BY <2>1, <2>2, <2>3
<1>3. CallbacksTracked'
  BY <1>1 DEF TypeOK, CallbacksTracked, DeviceFor
<1> QED BY <1>1, <1>2, <1>3

LEMMA FinishFrame ==
    ASSUME TypeInv, NEW t \in Closures, NEW phase \in Terminal, Finish(t, phase),
           closure[t].phase \notin {"unused", "writing"}, pending' = pending,
           \A c \in Cells : cell'[c].spot = cell[c].spot
    PROVE  closure' \in [Closures -> ClosureRecords] /\ ClosuresBound' /\ CallbacksTracked'
<1> DEFINE r == Released(closure[t], phase)
<1>1. /\ r \in ClosureRecords /\ r.phase = phase /\ r.screen = closure[t].screen
      /\ phase # "unused"
  BY ClosureTypes DEF TypeInv, TypeOK, Phases, Terminal
<1>2. closure' = [closure EXCEPT ![t] = r]
  BY DEF Finish
<1> HIDE DEF r
<1>3. r.phase # "unused" /\ r.phase \in Terminal
  BY <1>1
<1>4. r.phase \in Terminal
        \/ (InFlight(t) /\ r.kind = closure[t].kind /\ r.cell = closure[t].cell)
  BY <1>3
<1> QED BY <1>1, <1>2, <1>3, <1>4, AdvanceFrame, Zenon

LEMMA ScreenFields ==
    ASSUME TypeOK, NEW s \in Screens
    PROVE  /\ screen[s] \in ScreenRecords
           /\ screen[s].heartIDs \in SUBSET Spots /\ screen[s].listed \in SUBSET Spots
           /\ screen[s].awaiting \in SUBSET Spots /\ screen[s].leaving \in SUBSET Spots
BY DEF TypeOK, ScreenRecords

LEMMA SpotArrivesType ==
    ASSUME TypeInv, NEW s \in Screens, NEW x \in Spots, SpotArrives(s, x)
    PROVE  TypeInv'
<1> USE DEF TypeInv, SpotArrives
<1> DEFINE X == screen[s].awaiting \ {x}
           Y == screen[s].listed \cup {x}
           Z == LeavingWith(s, x)
<1>1. screen' \in [Screens -> ScreenRecords]
  <2>1. X \in SUBSET Spots /\ Y \in SUBSET Spots /\ Z \in SUBSET Spots
    BY ScreenFields DEF LeavingWith
  <2>2. screen' = [screen EXCEPT ![s] =
          [screen[s] EXCEPT !.awaiting = X, !.listed = Y, !.leaving = Z]]
    BY DEF SpotArrives
  <2>3. [screen[s] EXCEPT !.awaiting = X, !.listed = Y, !.leaving = Z] \in ScreenRecords
    <3> HIDE DEF X, Y, Z
    <3> QED BY <2>1, ScreenFields DEF ScreenRecords
  <2> HIDE DEF X, Y, Z
  <2> QED BY <2>2, <2>3 DEF TypeOK
<1>2. /\ cell' \in [Cells -> CellRecords]
      /\ \A c \in Cells : cell'[c].spot = cell[c].spot /\ (cell'[c].onScreen => cell[c].onScreen)
  BY ReloadFacts DEF TypeOK
<1>3. TypeOK'
  BY <1>1, <1>2 DEF TypeOK
<1> QED BY <1>2, <1>3, BoundFrame DEF CellsFilled, StageFollowsQueue

LEMMA SpotAbsentType ==
    ASSUME TypeInv, NEW s \in Screens, NEW x \in Spots, SpotAbsent(s, x)
    PROVE  TypeInv'
<1> USE DEF TypeInv, SpotAbsent
<1> DEFINE X == screen[s].awaiting \ {x}
           Z == LeavingWith(s, x)
<1>1. screen' \in [Screens -> ScreenRecords]
  <2>1. X \in SUBSET Spots /\ Z \in SUBSET Spots
    BY ScreenFields DEF LeavingWith
  <2>2. screen' = [screen EXCEPT ![s] =
          [screen[s] EXCEPT !.awaiting = X, !.leaving = Z]]
    BY DEF SpotAbsent
  <2>3. [screen[s] EXCEPT !.awaiting = X, !.leaving = Z] \in ScreenRecords
    <3> HIDE DEF X, Z
    <3> QED BY <2>1, ScreenFields DEF ScreenRecords
  <2> HIDE DEF X, Z
  <2> QED BY <2>2, <2>3 DEF TypeOK
<1>2. TypeOK'
  BY <1>1 DEF TypeOK
<1> QED BY <1>2, BoundFrame DEF CellsFilled, StageFollowsQueue

LEMMA FavoriteSpotNotifiedType ==
    ASSUME TypeInv, NEW s \in Screens, NEW x \in Spots, FavoriteSpotNotified(s, x)
    PROVE  TypeInv'
<1> USE DEF TypeInv, FavoriteSpotNotified
<1>1. screen' \in [Screens -> ScreenRecords]
  <2> DEFINE X == screen[s].leaving \ {x}
  <2>1. X \in SUBSET Spots /\ screen' = [screen EXCEPT ![s] = [screen[s] EXCEPT !.leaving = X]]
    BY ScreenFields
  <2>2. [screen[s] EXCEPT !.leaving = X] \in ScreenRecords
    <3> HIDE DEF X
    <3> QED BY <2>1, ScreenFields DEF ScreenRecords
  <2> QED BY <2>1, <2>2 DEF TypeOK
<1>2. /\ cell' \in [Cells -> CellRecords]
      /\ \A c \in Cells : cell'[c].spot = cell[c].spot /\ (cell'[c].onScreen => cell[c].onScreen)
  BY ReloadFacts
<1>3. DeviceOf[s] \in Devices
  BY ScreensAssumption
<1>4. covering' \in [Screens -> SUBSET Closures] /\ shared' = shared
  BY <1>3, HideFacts
<1>5. TypeOK'
  BY <1>1, <1>2, <1>4 DEF TypeOK
<1> QED BY <1>2, <1>5, BoundFrame DEF CellsFilled, StageFollowsQueue

LEMMA DeviceForType ==
    ASSUME TypeOK, NEW t \in Closures, closure[t].screen # None
    PROVE  closure[t].screen \in Screens /\ DeviceFor(t) \in Devices
BY ScreensAssumption DEF TypeOK, ClosureRecords, DeviceFor

LEMMA CityNotifiedType ==
    ASSUME TypeInv, NEW t \in Closures, CityNotified(t)
    PROVE  TypeInv'
<1> USE DEF TypeInv, CityNotified
<1>1. DeviceFor(t) \in Devices
  BY DeviceForType DEF ClosuresBound
<1>2. covering' \in [Screens -> SUBSET Closures] /\ shared' = shared
  BY <1>1, HideFacts
<1>3. closure' \in [Closures -> ClosureRecords] /\ ClosuresBound' /\ CallbacksTracked'
  BY FinishFrame DEF Terminal
<1>4. TypeOK'
  BY <1>2, <1>3 DEF TypeOK
<1> QED BY <1>3, <1>4 DEF CellsFilled, StageFollowsQueue

LEMMA ConfigureType ==
    ASSUME TypeInv, NEW c \in Cells, NEW x \in Spots, Configure(c, x)
    PROVE  TypeInv'
<1> USE DEF TypeInv, Configure
<1>1. cell' \in [Cells -> CellRecords]
  BY DEF TypeOK, CellRecords
<1>2. TypeOK'
  BY <1>1 DEF TypeOK
<1>3. x # None
  BY NoneAssumption
<1>4. CellsFilled'
  BY <1>3 DEF TypeOK, CellsFilled, CellRecords
<1>5. ClosuresBound'
  BY <1>3 DEF TypeOK, ClosuresBound, InFlight, Shown, ClosureRecords, CellRecords
<1> QED BY <1>2, <1>4, <1>5 DEF CallbacksTracked, StageFollowsQueue, DeviceFor

LEMMA ScrollOffType ==
    ASSUME TypeInv, NEW c \in Cells, ScrollOff(c)
    PROVE  TypeInv'
<1> USE DEF TypeInv, ScrollOff
<1>1. cell' \in [Cells -> CellRecords]
  BY RecordUpdates DEF TypeOK
<1>2. \A e \in Cells : cell'[e].spot = cell[e].spot /\ (cell'[e].onScreen => cell[e].onScreen)
  BY DEF TypeOK, CellRecords
<1>3. TypeOK'
  BY <1>1 DEF TypeOK
<1> QED BY <1>1, <1>2, <1>3, BoundFrame DEF CellsFilled, StageFollowsQueue

LEMMA TapRemoveType ==
    ASSUME TypeInv, NEW t \in Closures, NEW c \in Cells, TapRemove(t, c)
    PROVE  TypeInv'
<1> USE ScreensAssumption DEF TypeInv, TapRemove, Touchable, ShowLoading
<1>1. cell[c].spot \in Spots /\ ScreenOf[c] \in Screens
  BY DEF TypeOK, CellRecords, CellsFilled
<1>2. closure' \in [Closures -> ClosureRecords]
  BY <1>1, ClosureTypes DEF TypeOK
<1>3. cell' \in [Cells -> CellRecords]
  BY RecordUpdates DEF TypeOK
<1>4. shared' \in [Devices -> Closures \cup {None}] /\ covering' \in [Screens -> SUBSET Closures]
  BY DEF TypeOK
<1>5. TypeOK'
  BY <1>2, <1>3, <1>4 DEF TypeOK
<1>6. /\ closure'[t] = Reading("remove", ScreenOf[c], c, cell[c].spot)
      /\ \A u \in Closures : u # t => closure'[u] = closure[u]
      /\ \A e \in Cells : cell'[e].spot = cell[e].spot /\ cell'[e].onScreen = cell[e].onScreen
  BY DEF TypeOK, CellRecords
<1>7. ClosuresBound'
  <2> SUFFICES ASSUME NEW u \in Closures
               PROVE  ClosuresBound!(u)'
    BY DEF ClosuresBound
  <2>1. CASE u = t
    BY <1>1, <1>6, <2>1, ClosureTypes, NoneAssumption DEF Shown
  <2>2. CASE u # t
    BY <1>6, <2>2 DEF ClosuresBound, InFlight, Shown, TypeOK, ClosureRecords
  <2> QED BY <2>1, <2>2
<1>8. CallbacksTracked'
  BY <1>6 DEF TypeOK, CallbacksTracked, DeviceFor, Unused
<1>9. CellsFilled'
  BY <1>6 DEF CellsFilled
<1> QED BY <1>5, <1>7, <1>8, <1>9 DEF StageFollowsQueue

LEMMA AnsweredType ==
    ASSUME TypeInv, NEW t \in Closures, NEW answer \in Answers,
           closure[t].phase = "reading", Answered(t, answer), pending' = pending,
           cell' = cell
    PROVE  /\ closure' \in [Closures -> ClosureRecords] /\ ClosuresBound' /\ CallbacksTracked'
           /\ mainQueue' \in [Devices -> Seq(Closures)]
<1> DEFINE r == [closure[t] EXCEPT !.phase = "answered", !.answer = answer]
<1>1. closure[t] \in ClosureRecords /\ closure[t].screen # None
  BY DEF TypeInv, TypeOK, ClosuresBound
<1>2. r \in ClosureRecords
  BY <1>1 DEF ClosureRecords, Phases
<1>3. /\ r.phase = "answered" /\ r.screen = closure[t].screen
      /\ r.kind = closure[t].kind /\ r.cell = closure[t].cell
  BY <1>1 DEF ClosureRecords
<1>4. closure' = [closure EXCEPT ![t] = r]
  BY DEF Answered
<1> HIDE DEF r
<1>5. InFlight(t)
  BY DEF InFlight, Terminal
<1>6. r.phase # "unused" /\ closure[t].phase \notin {"unused", "writing"}
  BY <1>3
<1>7. r.phase \in Terminal
        \/ (InFlight(t) /\ r.kind = closure[t].kind /\ r.cell = closure[t].cell)
  BY <1>3, <1>5
<1>8. \A c \in Cells : cell'[c].spot = cell[c].spot
  OBVIOUS
<1>9. mainQueue' \in [Devices -> Seq(Closures)]
  <2>1. DeviceFor(t) \in Devices /\ mainQueue[DeviceFor(t)] \in Seq(Closures)
    BY <1>1, DeviceForType DEF TypeInv, TypeOK
  <2> QED BY <2>1 DEF Answered, Enqueue, TypeInv, TypeOK
<1> QED BY <1>2, <1>3, <1>4, <1>6, <1>7, <1>8, <1>9, AdvanceFrame, Zenon

LEMMA AnswerType ==
    ASSUME TypeInv, NEW t \in Closures, Answer(t)
    PROVE  TypeInv'
<1> DEFINE d == DeviceFor(t)
<1>1. closure[t].phase = "reading" /\ closure[t].screen # None
  BY DEF Answer, AnswerFromServer, AnswerFromCache, AnswerWithError, TypeInv, ClosuresBound
<1>2. d \in Devices /\ pending[d] \in Seq(Writes) /\ cache[d] \in Documents /\ document \in Documents
  BY <1>1, DeviceForType DEF TypeInv, TypeOK
<1>3. Overlay(document, pending[d]) \in Documents /\ Overlay(cache[d], pending[d]) \in Documents
  BY <1>2, OverlayType
<1>4. CASE AnswerFromServer(t)
  <2>1. /\ closure' \in [Closures -> ClosureRecords] /\ ClosuresBound' /\ CallbacksTracked'
        /\ mainQueue' \in [Devices -> Seq(Closures)]
    BY <1>1, <1>3, <1>4, AnsweredType, ConstantTypes DEF AnswerFromServer
  <2>2. /\ cache' \in [Devices -> Documents]
        /\ stage' \in [Devices -> {"waiting", "applied", "seen"}]
        /\ \A e \in Devices : stage'[e] # "waiting" => stage[e] # "waiting"
    BY <1>2, <1>4 DEF AnswerFromServer, TypeInv, TypeOK
  <2> QED BY <1>4, <2>1, <2>2 DEF AnswerFromServer, TypeInv, TypeOK, CellsFilled, StageFollowsQueue
<1>5. CASE AnswerFromCache(t)
  <2>1. (IF cache[d] = Missing THEN Error ELSE Overlay(cache[d], pending[d])) \in Answers
    BY <1>3, ConstantTypes
  <2>2. /\ closure' \in [Closures -> ClosureRecords] /\ ClosuresBound' /\ CallbacksTracked'
        /\ mainQueue' \in [Devices -> Seq(Closures)]
    BY <1>1, <2>1, <1>5, AnsweredType DEF AnswerFromCache
  <2> QED BY <1>5, <2>2 DEF AnswerFromCache, TypeInv, TypeOK, CellsFilled, StageFollowsQueue
<1>6. CASE AnswerWithError(t)
  <2>1. /\ closure' \in [Closures -> ClosureRecords] /\ ClosuresBound' /\ CallbacksTracked'
        /\ mainQueue' \in [Devices -> Seq(Closures)]
    BY <1>1, <1>6, AnsweredType, ConstantTypes DEF AnswerWithError
  <2> QED BY <1>6, <2>1 DEF AnswerWithError, TypeInv, TypeOK, CellsFilled, StageFollowsQueue
<1> QED BY <1>4, <1>5, <1>6 DEF Answer

LEMMA CommitType ==
    ASSUME TypeInv, NEW d \in Devices, Commit(d)
    PROVE  TypeInv'
<1>1. Head(pending[d]) \in Writes
  BY DEF TypeInv, TypeOK, Commit
<1>2. Patch(document, Head(pending[d]).data) \in Documents
  BY <1>1, PatchType DEF TypeInv, TypeOK, Writes
<1>3. TypeOK'
  BY <1>2 DEF TypeInv, TypeOK, Commit
<1>4. ClosuresBound' /\ CallbacksTracked'
  BY BoundFrame DEF Commit
<1>5. StageFollowsQueue'
  BY DEF TypeInv, TypeOK, StageFollowsQueue, Commit
<1> QED BY <1>3, <1>4, <1>5 DEF TypeInv, CellsFilled, Commit

LEMMA LoseAckType ==
    ASSUME TypeInv, NEW d \in Devices, LoseAck(d)
    PROVE  TypeInv'
<1>1. ClosuresBound' /\ CallbacksTracked'
  BY BoundFrame DEF LoseAck
<1>2. TypeOK' /\ StageFollowsQueue'
  BY DEF TypeInv, TypeOK, StageFollowsQueue, LoseAck
<1> QED BY <1>1, <1>2 DEF TypeInv, CellsFilled, LoseAck

(* The answer to the first write releases it from the queue, and its callback  *)
(* with it.                                                                   *)
LEMMA NotifyFrame ==
    ASSUME TypeInv, NEW d \in Devices, NEW phase \in {"acked", "rejected"},
           pending[d] # <<>>, NotifyUser(d, phase),
           pending' = [pending EXCEPT ![d] = Tail(@)], cell' = cell
    PROVE  /\ closure' \in [Closures -> ClosureRecords] /\ ClosuresBound' /\ CallbacksTracked'
           /\ mainQueue' \in [Devices -> Seq(Closures)]
           /\ pending' \in [Devices -> Seq(Writes)]
<1> DEFINE q == pending[d]
           t == Head(q).callback
<1>1. /\ q \in Seq(Writes) /\ Head(q) \in Writes /\ 1 \in DOMAIN q /\ q[1] = Head(q)
      /\ Tail(q) \in Seq(Writes)
      /\ \A i \in DOMAIN Tail(q) : i + 1 \in DOMAIN q /\ Tail(q)[i] = q[i + 1] /\ i \in Nat \ {0}
  BY DEF TypeInv, TypeOK
<1>2. /\ pending' \in [Devices -> Seq(Writes)]
      /\ pending'[d] = Tail(q)
      /\ \A e \in Devices : e # d => pending'[e] = pending[e]
  BY <1>1 DEF TypeInv, TypeOK
<1>3. CASE t = None
  <2>1. closure' = closure /\ mainQueue' = mainQueue
    BY <1>3 DEF NotifyUser
  <2>2. ClosuresBound'
    BY <2>1 DEF TypeInv, ClosuresBound, InFlight, Shown
  <2>3. CallbacksTracked'
    <3> SUFFICES ASSUME NEW e \in Devices, NEW i \in DOMAIN pending'[e],
                        pending'[e][i].callback # None
                 PROVE  CallbacksTracked!(e)!(i)'
      BY DEF CallbacksTracked
    <3>1. CASE e # d
      BY <1>2, <2>1, <3>1 DEF TypeInv, CallbacksTracked, DeviceFor
    <3>2. CASE e = d
      <4> HIDE DEF q, t
      <4> QED BY <1>1, <1>2, <2>1, <3>2 DEF TypeInv, CallbacksTracked, DeviceFor, q
    <3> QED BY <3>1, <3>2
  <2> QED BY <1>2, <2>1, <2>2, <2>3 DEF TypeInv, TypeOK
<1>4. CASE t # None
  <2>1. /\ t \in Closures /\ closure[t].phase = "writing" /\ DeviceFor(t) = d
        /\ \A i \in DOMAIN q : q[i].callback = t => i = 1
    BY <1>1, <1>4 DEF TypeInv, CallbacksTracked, Writes
  <2>2. \A e \in Devices : e # d => \A i \in DOMAIN pending[e] : pending[e][i].callback # t
    BY <1>4, <2>1 DEF TypeInv, CallbacksTracked
  <2>3. /\ closure' = [closure EXCEPT ![t].phase = phase]
        /\ mainQueue' = [mainQueue EXCEPT ![d] = Append(@, t)]
    BY <1>4 DEF NotifyUser, Enqueue
  <2> HIDE DEF t, q
  <2>4. /\ closure' \in [Closures -> ClosureRecords]
        /\ \A u \in Closures : u # t => closure'[u] = closure[u]
        /\ closure'[t].phase = phase /\ closure'[t].kind = closure[t].kind
        /\ closure'[t].screen = closure[t].screen /\ closure'[t].cell = closure[t].cell
    <3> DEFINE r == [closure[t] EXCEPT !.phase = phase]
    <3>1. closure[t] \in ClosureRecords
      BY <2>1 DEF TypeInv, TypeOK
    <3>2. /\ r \in ClosureRecords /\ r.phase = phase /\ r.kind = closure[t].kind
          /\ r.screen = closure[t].screen /\ r.cell = closure[t].cell
      BY <3>1 DEF ClosureRecords, Phases
    <3>3. closure' = [closure EXCEPT ![t] = r]
      BY <2>3
    <3> HIDE DEF r
    <3> QED BY <2>1, <3>2, <3>3 DEF TypeInv, TypeOK
  <2>5. mainQueue' \in [Devices -> Seq(Closures)]
    BY <2>1, <2>3 DEF TypeInv, TypeOK
  <2>6. ClosuresBound'
    BY <2>1, <2>4 DEF TypeInv, ClosuresBound, InFlight, Shown, Terminal
  <2>7. CallbacksTracked'
    <3> SUFFICES ASSUME NEW e \in Devices, NEW i \in DOMAIN pending'[e],
                        pending'[e][i].callback # None
                 PROVE  CallbacksTracked!(e)!(i)'
      BY DEF CallbacksTracked
    <3> DEFINE u == pending'[e][i].callback
    <3>1. CASE e # d
      <4>1. pending'[e] = pending[e] /\ i \in DOMAIN pending[e] /\ u # t
        BY <1>2, <2>2, <3>1
      <4>2. u \in Closures
        <5>1. pending[e][i] \in Writes
          BY <4>1 DEF TypeInv, TypeOK
        <5> QED BY <4>1, <5>1 DEF Writes
      <4>3. closure'[u] = closure[u]
        BY <2>4, <4>1, <4>2
      <4>4. /\ closure[u].phase = "writing" /\ closure[u].kind # "load" /\ DeviceFor(u) = e
            /\ \A j \in DOMAIN pending[e] : pending[e][j].callback = u => j = i
        BY <4>1 DEF TypeInv, CallbacksTracked
      <4> QED BY <4>1, <4>3, <4>4 DEF DeviceFor
    <3>2. CASE e = d
      <4>1. /\ pending'[e] = Tail(q) /\ i + 1 \in DOMAIN q /\ u = q[i + 1].callback
            /\ i \in Nat \ {0}
        BY <1>1, <1>2, <3>2
      <4>2. u # t
        BY <2>1, <4>1
      <4>3. u \in Closures
        <5>1. q[i + 1] \in Writes
          BY <1>1, <4>1
        <5> QED BY <4>1, <5>1 DEF Writes
      <4>4. closure'[u] = closure[u]
        BY <2>4, <4>2, <4>3
      <4>5. /\ closure[u].phase = "writing" /\ closure[u].kind # "load" /\ DeviceFor(u) = d
            /\ \A j \in DOMAIN q : q[j].callback = u => j = i + 1
        BY <4>1 DEF TypeInv, CallbacksTracked, q
      <4>6. \A j \in DOMAIN Tail(q) : Tail(q)[j].callback = u => j = i
        BY <1>1, <4>1, <4>5
      <4> QED BY <3>2, <4>1, <4>4, <4>5, <4>6 DEF DeviceFor
    <3> QED BY <3>1, <3>2
  <2> QED BY <1>2, <2>4, <2>5, <2>6, <2>7
<1> QED BY <1>3, <1>4

LEMMA AcknowledgeType ==
    ASSUME TypeInv, NEW d \in Devices, Acknowledge(d)
    PROVE  TypeInv'
<1>1. pending[d] # <<>>
  BY DEF TypeInv, StageFollowsQueue, Acknowledge
<1>2. /\ closure' \in [Closures -> ClosureRecords] /\ ClosuresBound' /\ CallbacksTracked'
      /\ mainQueue' \in [Devices -> Seq(Closures)]
      /\ pending' \in [Devices -> Seq(Writes)]
  BY <1>1, NotifyFrame DEF Acknowledge
<1>3. cache' \in [Devices -> Documents]
  <2>1. Head(pending[d]) \in Writes /\ cache[d] \in Documents
    BY <1>1 DEF TypeInv, TypeOK
  <2>2. Patch(cache[d], Head(pending[d]).data) \in Documents
    BY <2>1, PatchType DEF Writes
  <2> QED BY <2>2 DEF Acknowledge, TypeInv, TypeOK
<1>4. TypeOK'
  BY <1>2, <1>3 DEF TypeInv, TypeOK, Acknowledge
<1>5. StageFollowsQueue'
  BY DEF TypeInv, TypeOK, StageFollowsQueue, Acknowledge
<1> QED BY <1>2, <1>4, <1>5 DEF TypeInv, CellsFilled, Acknowledge

LEMMA RejectType ==
    ASSUME TypeInv, NEW d \in Devices, Reject(d)
    PROVE  TypeInv'
<1>1. /\ closure' \in [Closures -> ClosureRecords] /\ ClosuresBound' /\ CallbacksTracked'
      /\ mainQueue' \in [Devices -> Seq(Closures)]
      /\ pending' \in [Devices -> Seq(Writes)]
  BY NotifyFrame DEF Reject
<1>2. TypeOK'
  BY <1>1 DEF TypeInv, TypeOK, Reject
<1>3. StageFollowsQueue'
  BY DEF TypeInv, TypeOK, StageFollowsQueue, Reject
<1> QED BY <1>1, <1>2, <1>3 DEF TypeInv, CellsFilled, Reject

LEMMA DeliveredType ==
    ASSUME TypeOK, NEW t \in Closures, Delivered(t)
    PROVE  /\ closure[t].screen # None /\ closure[t].screen \in Screens
           /\ DeviceFor(t) \in Devices
           /\ mainQueue' \in [Devices -> Seq(Closures)]
<1>1. /\ closure[t].screen # None /\ closure[t].screen \in Screens
      /\ DeviceFor(t) \in Devices
  BY DeviceForType DEF Delivered
<1>2. Tail(mainQueue[DeviceFor(t)]) \in Seq(Closures)
  BY <1>1 DEF TypeOK, Delivered
<1> QED BY <1>1, <1>2 DEF TypeOK, Delivered

LEMMA UpdateFrame ==
    ASSUME TypeInv, NEW t \in Closures, NEW data \in Documents,
           closure[t].phase = "answered", closure[t].kind # "load", UpdateData(t, data),
           cell' = cell
    PROVE  /\ closure' \in [Closures -> ClosureRecords] /\ ClosuresBound' /\ CallbacksTracked'
           /\ pending' \in [Devices -> Seq(Writes)]
           /\ \A e \in Devices : pending[e] # <<>> => pending'[e] # <<>>
<1> DEFINE d == DeviceFor(t)
           w == [data |-> data, callback |-> t]
           q == Append(pending[d], w)
           n == Len(pending[d])
<1>1. d \in Devices /\ pending[d] \in Seq(Writes) /\ closure[t] \in ClosureRecords
  BY DeviceForType DEF TypeInv, TypeOK, ClosuresBound
<1>2. w \in Writes
  BY DEF Writes
<1>3. /\ q \in Seq(Writes) /\ q # <<>> /\ n \in Nat /\ DOMAIN q = 1..n + 1 /\ DOMAIN pending[d] = 1..n
      /\ \A i \in 1..n : q[i] = pending[d][i]
      /\ q[n + 1] = w
  <2> HIDE DEF w, d
  <2> QED BY <1>1, <1>2
<1>4. /\ pending' \in [Devices -> Seq(Writes)] /\ pending'[d] = q
      /\ \A e \in Devices : e # d => pending'[e] = pending[e]
  BY <1>1, <1>3 DEF UpdateData, TypeInv, TypeOK
<1>5. /\ closure' \in [Closures -> ClosureRecords]
      /\ \A u \in Closures : u # t => closure'[u] = closure[u]
      /\ closure'[t].phase = "writing" /\ closure'[t].kind = closure[t].kind
      /\ closure'[t].screen = closure[t].screen /\ closure'[t].cell = closure[t].cell
  <2> DEFINE r == [closure[t] EXCEPT !.phase = "writing", !.data = data]
  <2>1. r \in ClosureRecords
    BY <1>1 DEF ClosureRecords, Phases
  <2>2. /\ r.phase = "writing" /\ r.kind = closure[t].kind
        /\ r.screen = closure[t].screen /\ r.cell = closure[t].cell
    BY <1>1 DEF ClosureRecords
  <2>3. closure' = [closure EXCEPT ![t] = r]
    BY DEF UpdateData
  <2> HIDE DEF r
  <2> QED BY <2>1, <2>2, <2>3 DEF TypeInv, TypeOK
<1>6. ClosuresBound'
  BY <1>5 DEF TypeInv, ClosuresBound, InFlight, Shown, Terminal
<1>7. CallbacksTracked'
  <2>1. \A e \in Devices : \A i \in DOMAIN pending[e] : pending[e][i].callback # t
    BY NoneAssumption DEF TypeInv, CallbacksTracked
  <2>2. DeviceFor(t)' = d
    BY <1>5 DEF DeviceFor
  <2> HIDE DEF d, q, w
  <2> SUFFICES ASSUME NEW e \in Devices, NEW i \in DOMAIN pending'[e],
                      pending'[e][i].callback # None
               PROVE  CallbacksTracked!(e)!(i)'
    BY DEF CallbacksTracked
  <2> DEFINE u == pending'[e][i].callback
  <2>3. CASE e = d /\ i = n + 1
    <3>1. u = t
      BY <1>3, <1>4, <2>3 DEF w
    <3>2. \A j \in DOMAIN q : q[j].callback = t => j = n + 1
      BY <1>1, <1>3, <2>1
    <3> QED BY <1>4, <1>5, <2>2, <2>3, <3>1, <3>2
  <2>4. CASE ~(e = d /\ i = n + 1)
    <3>1. i \in DOMAIN pending[e] /\ pending'[e][i] = pending[e][i] /\ u # t
      BY <1>3, <1>4, <2>1, <2>4
    <3>2. u \in Closures
      <4>1. pending[e][i] \in Writes
        BY <3>1 DEF TypeInv, TypeOK
      <4> QED BY <3>1, <4>1 DEF Writes
    <3>3. closure'[u] = closure[u]
      BY <1>5, <3>1, <3>2
    <3>4. /\ closure[u].phase = "writing" /\ closure[u].kind # "load" /\ DeviceFor(u) = e
          /\ \A j \in DOMAIN pending[e] : pending[e][j].callback = u => j = i
      BY <3>1 DEF TypeInv, CallbacksTracked
    <3>5. \A j \in DOMAIN pending'[e] : pending'[e][j].callback = u => j = i
      <4>1. CASE e # d
        BY <1>4, <3>4, <4>1
      <4>2. CASE e = d
        <5>1. \A j \in 1..n : pending'[e][j] = pending[e][j]
          BY <1>3, <1>4, <4>2
        <5>2. pending'[e][n + 1].callback = t
          BY <1>3, <1>4, <4>2 DEF w
        <5>3. DOMAIN pending'[e] = 1..n + 1 /\ DOMAIN pending[e] = 1..n
          BY <1>3, <1>4, <4>2
        <5>4. \A j \in 1..n + 1 : j \in 1..n \/ j = n + 1
          BY <1>3
        <5> HIDE DEF u, n
        <5> QED BY <3>1, <3>4, <5>1, <5>2, <5>3, <5>4
      <4> QED BY <4>1, <4>2
    <3> QED BY <3>3, <3>4, <3>5 DEF DeviceFor
  <2> QED BY <2>3, <2>4
<1> QED BY <1>3, <1>4, <1>5, <1>6, <1>7

(* self.spot of a closure that still runs.                                    *)
LEMMA ShownType ==
    ASSUME TypeInv, NEW t \in Closures, InFlight(t), closure[t].kind # "load"
    PROVE  closure[t].cell \in Cells /\ Shown(t) \in Spots
BY DEF TypeInv, TypeOK, ClosuresBound, ClosureRecords, CellRecords, Shown

LEMMA AddCallbackType ==
    ASSUME TypeInv, NEW t \in Closures, AddCallback(t)
    PROVE  TypeInv'
<1> DEFINE answer == closure[t].answer
<1>1. /\ closure[t].phase = "answered" /\ closure[t].kind = "add" /\ Delivered(t)
      /\ answer \in Answers
  BY DEF AddCallback, Callback, TypeInv, TypeOK, ClosureRecords
<1>2. mainQueue' \in [Devices -> Seq(Closures)]
  BY <1>1, DeliveredType DEF TypeInv
<1>3. Shown(t) \in Spots
  BY <1>1, ShownType DEF InFlight, Terminal
<1>4. /\ closure' \in [Closures -> ClosureRecords] /\ ClosuresBound' /\ CallbacksTracked'
      /\ pending' \in [Devices -> Seq(Writes)]
      /\ \A e \in Devices : pending[e] # <<>> => pending'[e] # <<>>
  <2>1. CASE answer.state \in {"error", "missing"}
    <3>1. Finish(t, "failed") /\ pending' = pending /\ cell' = cell /\ "failed" \in Terminal
      BY <2>1 DEF AddCallback, Terminal
    <3> QED BY <1>1, <3>1, FinishFrame DEF TypeInv, TypeOK
  <2>2. CASE answer.state \notin {"error", "missing"}
    <3>1. AddData(answer, Shown(t)) \in Documents
      BY <1>1, <1>3, AddDataType
    <3>2. UpdateData(t, AddData(answer, Shown(t))) /\ cell' = cell
      BY <2>2 DEF AddCallback
    <3> QED BY <1>1, <3>1, <3>2, UpdateFrame
  <2> QED BY <2>1, <2>2
<1>5. TypeOK'
  BY <1>2, <1>4 DEF TypeInv, TypeOK, AddCallback
<1> QED BY <1>4, <1>5 DEF TypeInv, CellsFilled, StageFollowsQueue, AddCallback

LEMMA RemoveCallbackType ==
    ASSUME TypeInv, NEW t \in Closures, RemoveCallback(t)
    PROVE  TypeInv'
<1> DEFINE answer == closure[t].answer
<1>1. /\ closure[t].phase = "answered" /\ closure[t].kind = "remove" /\ Delivered(t)
      /\ answer \in Answers
  BY DEF RemoveCallback, Callback, TypeInv, TypeOK, ClosureRecords
<1>2. mainQueue' \in [Devices -> Seq(Closures)]
  BY <1>1, DeliveredType DEF TypeInv
<1>3. Shown(t) \in Spots
  BY <1>1, ShownType DEF InFlight, Terminal
<1>4. /\ closure' \in [Closures -> ClosureRecords] /\ ClosuresBound' /\ CallbacksTracked'
      /\ pending' \in [Devices -> Seq(Writes)]
      /\ \A e \in Devices : pending[e] # <<>> => pending'[e] # <<>>
  <2>1. CASE ~(answer.state = "array" /\ Contains(answer.ids, Shown(t)))
    <3>1. Finish(t, "failed") /\ pending' = pending /\ cell' = cell /\ "failed" \in Terminal
      BY <2>1 DEF RemoveCallback, Terminal
    <3> QED BY <1>1, <3>1, FinishFrame DEF TypeInv, TypeOK
  <2>2. CASE answer.state = "array" /\ Contains(answer.ids, Shown(t))
    <3>1. RemoveData(answer, Shown(t)) \in Documents
      BY <1>1, <1>3, <2>2, RemoveDataType
    <3>2. UpdateData(t, RemoveData(answer, Shown(t))) /\ cell' = cell
      BY <2>2 DEF RemoveCallback
    <3> QED BY <1>1, <3>1, <3>2, UpdateFrame
  <2> QED BY <2>1, <2>2
<1>5. TypeOK'
  BY <1>2, <1>4 DEF TypeInv, TypeOK, RemoveCallback
<1> QED BY <1>4, <1>5 DEF TypeInv, CellsFilled, StageFollowsQueue, RemoveCallback

(* A closure that moves on without touching what it has captured.              *)
LEMMA AdvanceInFlight ==
    ASSUME TypeInv, NEW t \in Closures, NEW r \in ClosureRecords,
           closure' = [closure EXCEPT ![t] = r], pending' = pending, cell' = cell,
           r.phase # "unused", r.screen = closure[t].screen,
           r.kind = closure[t].kind, r.cell = closure[t].cell,
           closure[t].phase \in {"answered", "acked", "rejected"}
    PROVE  closure' \in [Closures -> ClosureRecords] /\ ClosuresBound' /\ CallbacksTracked'
<1>1. closure[t].phase \notin {"unused", "writing"} /\ InFlight(t)
  BY DEF InFlight, Terminal
<1>2. r.phase \in Terminal
        \/ (InFlight(t) /\ r.kind = closure[t].kind /\ r.cell = closure[t].cell)
  BY <1>1
<1>3. \A c \in Cells : cell'[c].spot = cell[c].spot
  OBVIOUS
<1> QED BY <1>1, <1>2, <1>3, AdvanceFrame, Zenon

LEMMA LoadCallbackType ==
    ASSUME TypeInv, NEW t \in Closures, LoadCallback(t)
    PROVE  TypeInv'
<1> DEFINE answer == closure[t].answer
           s == closure[t].screen
           ids == ToSet(answer.ids)
<1>1. /\ closure[t].phase = "answered" /\ Delivered(t)
      /\ closure[t] \in ClosureRecords /\ answer \in Answers
  BY DEF LoadCallback, Callback, TypeInv, TypeOK, ClosureRecords
<1>2. mainQueue' \in [Devices -> Seq(Closures)] /\ s \in Screens
  BY <1>1, DeliveredType DEF TypeInv
<1>3. ids \in SUBSET Spots
  BY <1>1 DEF Answers, ToSet
<1>4. /\ pending' = pending /\ cell' = cell
      /\ \A c \in Cells : cell'[c].spot = cell[c].spot
      /\ screen[s] \in ScreenRecords
  BY <1>2 DEF LoadCallback, TypeInv, TypeOK
<1>5. /\ closure' \in [Closures -> ClosureRecords] /\ ClosuresBound' /\ CallbacksTracked'
      /\ screen' \in [Screens -> ScreenRecords]
  <2>1. CASE answer.state = "error"
    <3>1. Finish(t, "failed") /\ "failed" \in Terminal /\ screen' = screen
      BY <2>1 DEF LoadCallback, Terminal
    <3> QED BY <1>1, <1>4, <3>1, FinishFrame DEF TypeInv, TypeOK
  <2>2. CASE answer.state # "error" /\ KindOf[s] = "city"
    <3> DEFINE r == [closure[t] EXCEPT !.phase = "finishing", !.answer = NoAnswer]
               X == IF answer.state = "array" THEN ids ELSE screen[s].heartIDs
    <3>1. closure' = [closure EXCEPT ![t] = r]
      BY <2>2 DEF LoadCallback
    <3>2. r \in ClosureRecords
      BY <1>1, ConstantTypes DEF ClosureRecords, Phases
    <3>3. /\ r.phase # "unused" /\ r.screen = closure[t].screen
          /\ r.kind = closure[t].kind /\ r.cell = closure[t].cell
      BY <1>1 DEF ClosureRecords
    <3>4. screen' = [screen EXCEPT ![s].heartIDs = X]
      BY <2>2 DEF LoadCallback
    <3>5. X \in SUBSET Spots
      BY <1>2, <1>3, ScreenFields DEF TypeInv
    <3>6. [screen[s] EXCEPT !.heartIDs = X] \in ScreenRecords
      <4> HIDE DEF X, s
      <4> QED BY <1>4, <3>5 DEF ScreenRecords
    <3> HIDE DEF r, X
    <3>7. screen' \in [Screens -> ScreenRecords]
      BY <1>2, <3>4, <3>6 DEF TypeInv, TypeOK
    <3>8. closure[t].phase \in {"answered", "acked", "rejected"}
      BY <1>1
    <3>9. closure' \in [Closures -> ClosureRecords] /\ ClosuresBound' /\ CallbacksTracked'
      BY <1>4, <3>1, <3>2, <3>3, <3>8, AdvanceInFlight
    <3> QED BY <3>7, <3>9
  <2>3. CASE answer.state # "error" /\ KindOf[s] = "favorites"
    <3>1. Finish(t, "done") /\ "done" \in Terminal
      BY <2>3 DEF LoadCallback, Terminal
    <3>2. screen' = [screen EXCEPT ![s].awaiting = ids]
      BY <2>3 DEF LoadCallback
    <3>3. [screen[s] EXCEPT !.awaiting = ids] \in ScreenRecords
      <4> HIDE DEF ids, s
      <4> QED BY <1>3, <1>4 DEF ScreenRecords
    <3>4. screen' \in [Screens -> ScreenRecords]
      <4> HIDE DEF ids
      <4> QED BY <1>2, <3>2, <3>3 DEF TypeInv, TypeOK
    <3> QED BY <1>1, <1>4, <3>1, <3>4, FinishFrame
  <2> QED BY <2>1, <2>2, <2>3 DEF LoadCallback
<1>6. TypeOK'
  BY <1>2, <1>4, <1>5 DEF TypeInv, TypeOK, LoadCallback
<1> QED BY <1>4, <1>5, <1>6 DEF TypeInv, CellsFilled, StageFollowsQueue, LoadCallback

LEMMA AddCompletionType ==
    ASSUME TypeInv, NEW t \in Closures, AddCompletion(t)
    PROVE  TypeInv'
<1>1. mainQueue' \in [Devices -> Seq(Closures)]
  BY DeliveredType DEF TypeInv, AddCompletion
<1>2. PICK phase \in Terminal : Finish(t, phase)
  BY DEF AddCompletion, Terminal
<1>3. closure' \in [Closures -> ClosureRecords] /\ ClosuresBound' /\ CallbacksTracked'
  <2>1. closure[t].phase \notin {"unused", "writing"} /\ pending' = pending /\ cell' = cell
    BY DEF AddCompletion
  <2> QED BY <1>2, <2>1, FinishFrame
<1>4. TypeOK'
  BY <1>1, <1>3 DEF TypeInv, TypeOK, AddCompletion
<1> QED BY <1>3, <1>4 DEF TypeInv, CellsFilled, StageFollowsQueue, AddCompletion

LEMMA CityRemoveCompletionType ==
    ASSUME TypeInv, NEW t \in Closures, CityRemoveCompletion(t)
    PROVE  TypeInv'
<1>1. mainQueue' \in [Devices -> Seq(Closures)] /\ DeviceFor(t) \in Devices
  BY DeliveredType DEF TypeInv, CityRemoveCompletion
<1>2. PICK phase \in Terminal : Finish(t, phase)
  BY DEF CityRemoveCompletion, Terminal
<1>3. closure' \in [Closures -> ClosureRecords] /\ ClosuresBound' /\ CallbacksTracked'
  <2>1. closure[t].phase \notin {"unused", "writing"} /\ pending' = pending /\ cell' = cell
    BY DEF CityRemoveCompletion
  <2> QED BY <1>2, <2>1, FinishFrame
<1>4. covering' \in [Screens -> SUBSET Closures] /\ shared' = shared
  BY <1>1, HideFacts DEF TypeInv, TypeOK, CityRemoveCompletion
<1>5. TypeOK'
  BY <1>1, <1>3, <1>4 DEF TypeInv, TypeOK, CityRemoveCompletion
<1> QED BY <1>3, <1>5 DEF TypeInv, CellsFilled, StageFollowsQueue, CityRemoveCompletion

LEMMA FavoritesRemoveCompletionType ==
    ASSUME TypeInv, NEW t \in Closures, FavoritesRemoveCompletion(t)
    PROVE  TypeInv'
<1> DEFINE s == closure[t].screen
           d == DeviceFor(t)
           r == [closure[t] EXCEPT !.phase = "reloading"]
           X == IF closure[t].phase = "acked" THEN screen[s].listed \ {Shown(t)}
                                              ELSE screen[s].listed
<1>1. /\ closure[t].phase \in {"answered", "acked", "rejected"}
      /\ closure[t] \in ClosureRecords /\ s \in Screens /\ d \in Devices
  BY DeviceForType DEF FavoritesRemoveCompletion, TypeInv, TypeOK, ClosuresBound
<1>2. mainQueue' \in [Devices -> Seq(Closures)]
  <2>1. Append(Tail(mainQueue[d]), t) \in Seq(Closures)
    BY <1>1 DEF FavoritesRemoveCompletion, TypeInv, TypeOK
  <2> QED BY <1>1, <2>1 DEF FavoritesRemoveCompletion, TypeInv, TypeOK
<1>3. screen' \in [Screens -> ScreenRecords]
  <2>1. X \in SUBSET Spots /\ screen[s] \in ScreenRecords
    BY <1>1, ScreenFields DEF TypeInv
  <2>2. screen' = [screen EXCEPT ![s].listed = X]
    BY DEF FavoritesRemoveCompletion
  <2>3. [screen[s] EXCEPT !.listed = X] \in ScreenRecords
    <3> HIDE DEF X, s
    <3> QED BY <2>1 DEF ScreenRecords
  <2> HIDE DEF X
  <2> QED BY <1>1, <2>2, <2>3 DEF TypeInv, TypeOK
<1>4. /\ r \in ClosureRecords /\ r.phase # "unused" /\ r.screen = closure[t].screen
      /\ r.kind = closure[t].kind /\ r.cell = closure[t].cell
  BY <1>1 DEF ClosureRecords, Phases
<1>5. closure' = [closure EXCEPT ![t] = r] /\ pending' = pending /\ cell' = cell
  BY DEF FavoritesRemoveCompletion
<1>6. closure' \in [Closures -> ClosureRecords] /\ ClosuresBound' /\ CallbacksTracked'
  <2> HIDE DEF r, X
  <2> QED BY <1>1, <1>4, <1>5, AdvanceInFlight
<1>7. TypeOK'
  BY <1>2, <1>3, <1>6 DEF TypeInv, TypeOK, FavoritesRemoveCompletion
<1> QED BY <1>6, <1>7 DEF TypeInv, CellsFilled, StageFollowsQueue, FavoritesRemoveCompletion

LEMMA ReloadBlockType ==
    ASSUME TypeInv, NEW t \in Closures, ReloadBlock(t)
    PROVE  TypeInv'
<1>1. /\ mainQueue' \in [Devices -> Seq(Closures)] /\ DeviceFor(t) \in Devices
      /\ closure[t].screen \in Screens
  BY DeliveredType DEF TypeInv, ReloadBlock
<1>2. /\ cell' \in [Cells -> CellRecords]
      /\ \A c \in Cells : cell'[c].spot = cell[c].spot /\ (cell'[c].onScreen => cell[c].onScreen)
  BY <1>1, ReloadFacts DEF TypeInv, ReloadBlock
<1>3. covering' \in [Screens -> SUBSET Closures] /\ shared' = shared
  BY <1>1, HideFacts DEF TypeInv, ReloadBlock
<1>4. closure' \in [Closures -> ClosureRecords] /\ ClosuresBound' /\ CallbacksTracked'
  <2>1. /\ closure[t].phase \notin {"unused", "writing"} /\ pending' = pending
        /\ Finish(t, "done") /\ "done" \in Terminal
    BY DEF ReloadBlock, Terminal
  <2> QED BY <1>2, <2>1, FinishFrame
<1>5. TypeOK'
  BY <1>1, <1>2, <1>3, <1>4 DEF TypeInv, TypeOK, ReloadBlock
<1> QED BY <1>2, <1>4, <1>5 DEF TypeInv, CellsFilled, StageFollowsQueue, ReloadBlock

LEMMA WithoutCallbacksType ==
    ASSUME NEW q \in Seq(Writes)
    PROVE  /\ WithoutCallbacks(q) \in Seq(Writes)
           /\ DOMAIN WithoutCallbacks(q) = DOMAIN q
           /\ \A i \in DOMAIN q : /\ WithoutCallbacks(q)[i].callback = None
                                  /\ WithoutCallbacks(q)[i].data = q[i].data
<1>1. ASSUME NEW i \in DOMAIN q
      PROVE  [data |-> q[i].data, callback |-> None] \in Writes
  <2>1. q[i] \in Writes
    OBVIOUS
  <2> QED BY <2>1 DEF Writes
<1>2. DOMAIN q = 1..Len(q) /\ Len(q) \in Nat
  OBVIOUS
<1> QED BY <1>1, <1>2 DEF WithoutCallbacks

LEMMA RestartType ==
    ASSUME TypeInv, NEW d \in Devices, Restart(d)
    PROVE  TypeInv'
<1> DEFINE own == {s \in Screens : DeviceOf[s] = d}
<1>1. /\ closure' \in [Closures -> ClosureRecords]
      /\ \A t \in Closures :
           IF closure[t].screen \in own
           THEN closure'[t].phase = "dead" /\ closure'[t].screen = closure[t].screen
           ELSE closure'[t] = closure[t]
  <2>1. closure' = [t \in Closures |->
          IF closure[t].screen \in own THEN Released(closure[t], "dead") ELSE closure[t]]
    BY DEF Restart
  <2>2. "dead" \in Phases /\ \A t \in Closures : closure[t] \in ClosureRecords
    BY DEF TypeInv, TypeOK, Phases, Terminal
  <2> HIDE DEF own
  <2> QED BY <2>1, <2>2, ClosureTypes
<1>2. /\ cell' \in [Cells -> CellRecords]
      /\ \A c \in Cells : IF ScreenOf[c] \in own THEN ~cell'[c].onScreen ELSE cell'[c] = cell[c]
  BY ConstantTypes DEF Restart, TypeInv, TypeOK, EmptyCell
<1>3. /\ pending' \in [Devices -> Seq(Writes)]
      /\ \A e \in Devices : e # d => pending'[e] = pending[e]
      /\ \A i \in DOMAIN pending'[d] : pending'[d][i].callback = None
  <2>1. pending[d] \in Seq(Writes)
    BY DEF TypeInv, TypeOK
  <2>2. /\ WithoutCallbacks(pending[d]) \in Seq(Writes)
        /\ \A i \in DOMAIN WithoutCallbacks(pending[d]) :
             WithoutCallbacks(pending[d])[i].callback = None
    BY <2>1, WithoutCallbacksType
  <2> QED BY <2>2 DEF Restart, TypeInv, TypeOK
<1>4. /\ mainQueue' \in [Devices -> Seq(Closures)]
      /\ stage' \in [Devices -> {"waiting", "applied", "seen"}]
      /\ \A e \in Devices : stage'[e] # "waiting" => e # d /\ stage[e] # "waiting"
      /\ shared' \in [Devices -> Closures \cup {None}]
      /\ restarts' \in 0..MaxRestarts
  BY EmptySeq, RestartsAssumption DEF Restart, TypeInv, TypeOK
<1>5. screen' \in [Screens -> ScreenRecords] /\ covering' \in [Screens -> SUBSET Closures]
  BY ConstantTypes DEF Restart, TypeInv, TypeOK
<1>6. TypeOK'
  BY <1>1, <1>2, <1>3, <1>4, <1>5 DEF Restart, TypeInv, TypeOK
<1>7. ClosuresBound'
  <2> SUFFICES ASSUME NEW u \in Closures
               PROVE  ClosuresBound!(u)'
    BY DEF ClosuresBound
  <2>1. CASE closure[u].screen \in own
    <3>1. closure'[u].phase = "dead" /\ closure'[u].screen \in Screens
      BY <1>1, <2>1
    <3> QED BY <3>1, NoneAssumption DEF InFlight, Terminal
  <2>2. CASE closure[u].screen \notin own
    <3>1. closure'[u] = closure[u]
      BY <1>1, <2>2
    <3>2. InFlight(u) /\ closure[u].kind # "load" =>
            /\ closure[u].cell # None /\ ScreenOf[closure[u].cell] = closure[u].screen
            /\ Shown(u) # None /\ closure[u].cell \in Cells
      BY DEF TypeInv, TypeOK, ClosuresBound, ClosureRecords
    <3>3. InFlight(u) /\ closure[u].kind # "load" => Shown(u)' = Shown(u)
      BY <1>2, <2>2, <3>1, <3>2 DEF Shown
    <3>4. closure[u].phase # "unused" => closure[u].screen # None
      BY DEF TypeInv, ClosuresBound
    <3> HIDE DEF own
    <3> QED BY <3>1, <3>2, <3>3, <3>4 DEF InFlight
  <2> QED BY <2>1, <2>2
<1>8. CallbacksTracked'
  <2> SUFFICES ASSUME NEW e \in Devices, NEW i \in DOMAIN pending'[e],
                      pending'[e][i].callback # None
               PROVE  CallbacksTracked!(e)!(i)'
    BY DEF CallbacksTracked
  <2> DEFINE u == pending'[e][i].callback
  <2>1. e # d /\ pending'[e] = pending[e]
    BY <1>3
  <2>2. u \in Closures
    <3>1. pending[e][i] \in Writes
      BY <2>1 DEF TypeInv, TypeOK
    <3> QED BY <2>1, <3>1 DEF Writes
  <2>3. /\ closure[u].phase = "writing" /\ closure[u].kind # "load" /\ DeviceFor(u) = e
        /\ \A j \in DOMAIN pending[e] : pending[e][j].callback = u => j = i
    BY <2>1 DEF TypeInv, CallbacksTracked
  <2>4. closure'[u] = closure[u]
    BY <1>1, <2>1, <2>2, <2>3 DEF DeviceFor
  <2> QED BY <2>1, <2>3, <2>4 DEF DeviceFor
<1>9. CellsFilled' /\ StageFollowsQueue'
  BY <1>2, <1>3, <1>4 DEF TypeInv, CellsFilled, StageFollowsQueue
<1> QED BY <1>6, <1>7, <1>8, <1>9 DEF TypeInv

-----------------------------------------------------------------------------
LEMMA InitType == Init => TypeInv
<1> SUFFICES ASSUME Init PROVE TypeInv
  OBVIOUS
<1>1. document \in Documents
  BY ConstantTypes, SavedAssumption DEF Init
<1>2. TypeOK
  BY <1>1, ConstantTypes, ClosureTypes, EmptySeq, RestartsAssumption DEF Init, TypeOK
<1>3. ClosuresBound /\ CellsFilled /\ StageFollowsQueue /\ CallbacksTracked
  BY DEF Init, ClosuresBound, CellsFilled, StageFollowsQueue, CallbacksTracked, InFlight,
     Unused, EmptyCell
<1> QED BY <1>2, <1>3 DEF TypeInv

LEMMA NextType == TypeInv /\ [Next]_vars => TypeInv'
<1> SUFFICES ASSUME TypeInv, [Next]_vars PROVE TypeInv'
  OBVIOUS
<1>1. CASE UserStep
  BY <1>1, OpenType, TapAddType, TapRemoveType, ScrollOffType DEF UserStep
<1>2. CASE ScreenStep
  BY <1>2, SpotArrivesType, SpotAbsentType, FavoriteSpotNotifiedType, CityNotifiedType,
     ConfigureType DEF ScreenStep
<1>3. CASE FirestoreStep
  BY <1>3, AnswerType, CommitType, LoseAckType, AcknowledgeType, RejectType DEF FirestoreStep
<1>4. CASE \E t \in Closures : MainQueueStep(t)
  BY <1>4, LoadCallbackType, AddCallbackType, RemoveCallbackType, AddCompletionType,
     CityRemoveCompletionType, FavoritesRemoveCompletionType, ReloadBlockType DEF MainQueueStep
<1>5. CASE \E d \in Devices : Restart(d)
  BY <1>5, RestartType
<1>6. CASE UNCHANGED vars
  BY <1>6 DEF vars, TypeInv, TypeOK, ClosuresBound, CellsFilled, StageFollowsQueue,
     CallbacksTracked, InFlight, Shown, DeviceFor
<1> QED BY <1>1, <1>2, <1>3, <1>4, <1>5, <1>6 DEF Next

(* Type correctness.  TypeOK alone is not inductive: the completion closures   *)
(* read the cell and the device of the tap they belong to, and NotifyUser      *)
(* the closure a write names, so these must be there.                         *)
THEOREM TypeCorrect == Spec => []TypeOK
<1>1. TypeInv => TypeOK
  BY DEF TypeInv
<1> QED BY <1>1, InitType, NextType, PTL DEF Spec

-----------------------------------------------------------------------------
(* No copy of the favourites lists a spot twice.                              *)

(* NoDuplicates, strengthened: a reply to an add reads the ids of a document   *)
(* that has no array, and these must be none.                                 *)
CopiesWellFormed ==
    /\ WellFormed(document)
    /\ \A d \in Devices :
         /\ WellFormed(cache[d])
         /\ \A i \in DOMAIN pending[d] : WellFormed(pending[d][i].data)
    /\ \A t \in Closures : WellFormed(closure[t].answer) /\ WellFormed(closure[t].data)

LEMMA NothingTwice ==
    /\ IsInjective(<<>>)
    /\ WellFormed(Missing) /\ WellFormed(Bare) /\ WellFormed(NoAnswer) /\ WellFormed(Error)
BY DEF IsInjective, WellFormed, Missing, Bare, NoAnswer, Error

LEMMA OnlyClosures ==
    ASSUME CopiesWellFormed, document' = document, cache' = cache, pending' = pending,
           \A t \in Closures :
             WellFormed(closure'[t].answer) /\ WellFormed(closure'[t].data)
    PROVE  CopiesWellFormed'
BY DEF CopiesWellFormed

LEMMA FinishWellFormed ==
    ASSUME TypeOK, CopiesWellFormed, NEW t \in Closures, NEW phase \in Terminal,
           Finish(t, phase), document' = document, cache' = cache, pending' = pending
    PROVE  CopiesWellFormed'
<1>1. /\ closure' = [closure EXCEPT ![t] = Released(closure[t], phase)]
      /\ Released(closure[t], phase).answer = NoAnswer /\ Released(closure[t], phase).data = Bare
  <2>1. closure[t] \in ClosureRecords /\ phase \in Phases
    BY DEF TypeOK, Phases
  <2> QED BY <2>1, ClosureTypes DEF Finish
<1>2. ASSUME NEW u \in Closures
      PROVE  WellFormed(closure'[u].answer) /\ WellFormed(closure'[u].data)
  <2>1. CASE u = t
    BY <1>1, <2>1, NothingTwice DEF TypeOK, NoAnswer, Bare
  <2>2. CASE u # t
    BY <1>1, <2>2 DEF TypeOK, CopiesWellFormed
  <2> QED BY <2>1, <2>2
<1> QED BY <1>2, OnlyClosures

LEMMA StartWellFormed ==
    ASSUME TypeOK, CopiesWellFormed, NEW t \in Closures, NEW r \in ClosureRecords,
           r.answer = NoAnswer, r.data = Bare, closure' = [closure EXCEPT ![t] = r],
           document' = document, cache' = cache, pending' = pending
    PROVE  CopiesWellFormed'
<1>1. ASSUME NEW u \in Closures
      PROVE  WellFormed(closure'[u].answer) /\ WellFormed(closure'[u].data)
  <2>1. CASE u = t
    BY <2>1, NothingTwice DEF TypeOK, NoAnswer, Bare
  <2>2. CASE u # t
    BY <2>2 DEF TypeOK, CopiesWellFormed
  <2> QED BY <2>1, <2>2
<1> QED BY <1>1, OnlyClosures

LEMMA AnswerWellFormed ==
    ASSUME TypeInv, CopiesWellFormed, NEW t \in Closures, Answer(t)
    PROVE  CopiesWellFormed'
<1> DEFINE d == DeviceFor(t)
<1>1. closure[t].phase = "reading" /\ closure[t].screen # None /\ closure[t] \in ClosureRecords
  BY DEF Answer, AnswerFromServer, AnswerFromCache, AnswerWithError, TypeInv, TypeOK, ClosuresBound
<1>2. d \in Devices /\ pending[d] \in Seq(Writes) /\ cache[d] \in Documents /\ document \in Documents
  BY <1>1, DeviceForType DEF TypeInv, TypeOK
<1>3. /\ WellFormed(document) /\ WellFormed(cache[d])
      /\ \A i \in DOMAIN pending[d] : WellFormed(pending[d][i].data)
  BY <1>2 DEF CopiesWellFormed
<1>4. /\ WellFormed(Overlay(document, pending[d]))
      /\ WellFormed(Overlay(cache[d], pending[d]))
      /\ WellFormed(Error)
  BY <1>2, <1>3, OverlayType, NothingTwice DEF Error
<1>5. PICK answer : Answered(t, answer) /\ WellFormed(answer)
  BY <1>4 DEF Answer, AnswerFromServer, AnswerFromCache, AnswerWithError
<1>6. ASSUME NEW u \in Closures
      PROVE  WellFormed(closure'[u].answer) /\ WellFormed(closure'[u].data)
  <2>1. closure' = [closure EXCEPT ![t] =
          [closure[t] EXCEPT !.phase = "answered", !.answer = answer]]
    BY <1>5 DEF Answered
  <2>2. CASE u = t
    <3>1. closure'[t].answer = answer /\ closure'[t].data = closure[t].data
      BY <1>1, <2>1 DEF TypeInv, TypeOK, ClosureRecords
    <3> QED BY <1>5, <2>2, <3>1 DEF CopiesWellFormed
  <2>3. CASE u # t
    BY <2>1, <2>3 DEF TypeInv, TypeOK, CopiesWellFormed
  <2> QED BY <2>2, <2>3
<1>7. /\ document' = document /\ pending' = pending
      /\ cache' = cache \/ cache' = [cache EXCEPT ![d] = document]
  BY DEF Answer, AnswerFromServer, AnswerFromCache, AnswerWithError
<1>8. \A e \in Devices : WellFormed(cache'[e])
  BY <1>2, <1>3, <1>7 DEF TypeInv, TypeOK, CopiesWellFormed
<1> QED BY <1>6, <1>7, <1>8 DEF CopiesWellFormed

LEMMA NotifyWellFormed ==
    ASSUME TypeInv, CopiesWellFormed, NEW d \in Devices, NEW phase \in {"acked", "rejected"},
           pending[d] # <<>>, NotifyUser(d, phase),
           pending' = [pending EXCEPT ![d] = Tail(@)]
    PROVE  /\ \A e \in Devices : \A i \in DOMAIN pending'[e] : WellFormed(pending'[e][i].data)
           /\ \A t \in Closures :
                WellFormed(closure'[t].answer) /\ WellFormed(closure'[t].data)
<1> DEFINE q == pending[d]
           t == Head(q).callback
<1>1. /\ q \in Seq(Writes) /\ Head(q) \in Writes /\ 1 \in DOMAIN q
      /\ \A i \in DOMAIN Tail(q) : i + 1 \in DOMAIN q /\ Tail(q)[i] = q[i + 1]
  BY DEF TypeInv, TypeOK
<1>2. \A i \in DOMAIN Tail(q) : WellFormed(Tail(q)[i].data)
  BY <1>1 DEF CopiesWellFormed
<1>3. ASSUME NEW u \in Closures
      PROVE  WellFormed(closure'[u].answer) /\ WellFormed(closure'[u].data)
  <2>1. closure' = closure \/ (t \in Closures /\ closure' = [closure EXCEPT ![t].phase = phase])
    BY <1>1 DEF NotifyUser, Writes
  <2> HIDE DEF t
  <2>2. closure'[u].answer = closure[u].answer /\ closure'[u].data = closure[u].data
    <3>1. CASE closure' = closure
      BY <3>1
    <3>2. CASE t \in Closures /\ closure' = [closure EXCEPT ![t].phase = phase]
      <4>1. closure \in [Closures -> ClosureRecords] /\ closure[u] \in ClosureRecords
        BY DEF TypeInv, TypeOK
      <4> QED BY <3>2, <4>1 DEF ClosureRecords
    <3> QED BY <2>1, <3>1, <3>2
  <2> QED BY <2>2 DEF CopiesWellFormed
<1>4. \A e \in Devices : \A i \in DOMAIN pending'[e] : WellFormed(pending'[e][i].data)
  <2> HIDE DEF q
  <2> QED BY <1>2 DEF TypeInv, TypeOK, CopiesWellFormed, q
<1> QED BY <1>3, <1>4

LEMMA AcknowledgeWellFormed ==
    ASSUME TypeInv, CopiesWellFormed, NEW d \in Devices, Acknowledge(d)
    PROVE  CopiesWellFormed'
<1>1. pending[d] # <<>> /\ document' = document
  BY DEF TypeInv, StageFollowsQueue, Acknowledge
<1>2. /\ \A e \in Devices : \A i \in DOMAIN pending'[e] : WellFormed(pending'[e][i].data)
      /\ \A t \in Closures :
           WellFormed(closure'[t].answer) /\ WellFormed(closure'[t].data)
  BY <1>1, NotifyWellFormed DEF Acknowledge
<1>3. WellFormed(Patch(cache[d], Head(pending[d]).data))
  <2>1. /\ Head(pending[d]) \in Writes /\ Head(pending[d]) = pending[d][1]
        /\ 1 \in DOMAIN pending[d] /\ cache[d] \in Documents
    BY <1>1 DEF TypeInv, TypeOK
  <2>2. WellFormed(Head(pending[d]).data) /\ WellFormed(cache[d])
    BY <2>1 DEF CopiesWellFormed
  <2> QED BY <2>1, <2>2, PatchType DEF Writes
<1>4. \A e \in Devices : WellFormed(cache'[e])
  BY <1>3 DEF Acknowledge, TypeInv, TypeOK, CopiesWellFormed
<1> QED BY <1>1, <1>2, <1>4 DEF CopiesWellFormed

LEMMA UpdateWellFormed ==
    ASSUME TypeInv, CopiesWellFormed, NEW t \in Closures, NEW data \in Documents,
           closure[t].phase = "answered", WellFormed(data), UpdateData(t, data),
           document' = document, cache' = cache
    PROVE  CopiesWellFormed'
<1> DEFINE d == DeviceFor(t)
           w == [data |-> data, callback |-> t]
           q == Append(pending[d], w)
<1>1. d \in Devices /\ pending[d] \in Seq(Writes) /\ closure[t] \in ClosureRecords
  BY DeviceForType DEF TypeInv, TypeOK, ClosuresBound
<1>2. w \in Writes
  BY DEF Writes
<1>3. \A i \in DOMAIN q : (i \in DOMAIN pending[d] /\ q[i] = pending[d][i]) \/ q[i] = w
  <2> HIDE DEF w, d
  <2> QED BY <1>1, <1>2
<1>4. \A i \in DOMAIN q : WellFormed(q[i].data)
  <2>1. \A i \in DOMAIN pending[d] : WellFormed(pending[d][i].data)
    BY <1>1 DEF CopiesWellFormed
  <2>2. WellFormed(w.data)
    OBVIOUS
  <2> HIDE DEF q, w, d
  <2> QED BY <1>3, <2>1, <2>2
<1>5. \A e \in Devices : \A i \in DOMAIN pending'[e] : WellFormed(pending'[e][i].data)
  <2>1. pending' = [pending EXCEPT ![d] = q]
    BY DEF UpdateData
  <2> HIDE DEF q, d
  <2> QED BY <1>1, <1>4, <2>1 DEF TypeInv, TypeOK, CopiesWellFormed
<1>6. ASSUME NEW u \in Closures
      PROVE  WellFormed(closure'[u].answer) /\ WellFormed(closure'[u].data)
  <2>1. closure' = [closure EXCEPT ![t] = [closure[t] EXCEPT !.phase = "writing", !.data = data]]
    BY DEF UpdateData
  <2>2. CASE u = t
    <3>1. closure'[t].data = data /\ closure'[t].answer = closure[t].answer
      BY <1>1, <2>1 DEF TypeInv, TypeOK, ClosureRecords
    <3> QED BY <2>2, <3>1 DEF CopiesWellFormed
  <2>3. CASE u # t
    BY <2>1, <2>3 DEF TypeInv, TypeOK, CopiesWellFormed
  <2> QED BY <2>2, <2>3
<1> QED BY <1>5, <1>6 DEF CopiesWellFormed

LEMMA RestartWellFormed ==
    ASSUME TypeInv, CopiesWellFormed, NEW d \in Devices, Restart(d)
    PROVE  CopiesWellFormed'
<1>1. document' = document /\ cache' = cache
  BY DEF Restart
<1>2. \A e \in Devices : \A i \in DOMAIN pending'[e] : WellFormed(pending'[e][i].data)
  <2>1. /\ DOMAIN WithoutCallbacks(pending[d]) = DOMAIN pending[d]
        /\ \A i \in DOMAIN pending[d] : WithoutCallbacks(pending[d])[i].data = pending[d][i].data
    BY WithoutCallbacksType DEF TypeInv, TypeOK
  <2> QED BY <2>1 DEF Restart, TypeInv, TypeOK, CopiesWellFormed
<1>3. ASSUME NEW u \in Closures
      PROVE  WellFormed(closure'[u].answer) /\ WellFormed(closure'[u].data)
  <2>1. closure'[u] = closure[u] \/ closure'[u] = Released(closure[u], "dead")
    BY DEF Restart
  <2>2. Released(closure[u], "dead").answer = NoAnswer /\ Released(closure[u], "dead").data = Bare
    <3>1. closure[u] \in ClosureRecords /\ "dead" \in Phases
      BY DEF TypeInv, TypeOK, Phases, Terminal
    <3> QED BY <3>1, ClosureTypes
  <2>3. WellFormed(NoAnswer) /\ WellFormed(Bare)
    BY NothingTwice DEF NoAnswer, Bare
  <2> QED BY <2>1, <2>2, <2>3 DEF CopiesWellFormed
<1> QED BY <1>1, <1>2, <1>3 DEF CopiesWellFormed

LEMMA CommitWellFormed ==
    ASSUME TypeInv, CopiesWellFormed, NEW d \in Devices, Commit(d)
    PROVE  CopiesWellFormed'
<1>1. WellFormed(Patch(document, Head(pending[d]).data))
  <2>1. /\ Head(pending[d]) \in Writes /\ Head(pending[d]) = pending[d][1]
        /\ 1 \in DOMAIN pending[d] /\ document \in Documents
    BY DEF TypeInv, TypeOK, Commit
  <2>2. WellFormed(Head(pending[d]).data) /\ WellFormed(document)
    BY <2>1 DEF CopiesWellFormed
  <2> QED BY <2>1, <2>2, PatchType DEF Writes
<1> QED BY <1>1 DEF Commit, CopiesWellFormed

LEMMA LoadCallbackWellFormed ==
    ASSUME TypeInv, CopiesWellFormed, NEW t \in Closures, LoadCallback(t)
    PROVE  CopiesWellFormed'
<1>1. document' = document /\ cache' = cache /\ pending' = pending
  BY DEF LoadCallback
<1>2. CASE \E phase \in Terminal : Finish(t, phase)
  BY <1>1, <1>2, FinishWellFormed DEF TypeInv
<1>3. CASE closure' = [closure EXCEPT ![t] =
             [@ EXCEPT !.phase = "finishing", !.answer = NoAnswer]]
  <2> SUFFICES ASSUME NEW u \in Closures
               PROVE  WellFormed(closure'[u].answer) /\ WellFormed(closure'[u].data)
    BY <1>1, OnlyClosures
  <2>1. CASE u = t
    <3>1. closure'[t].answer = NoAnswer /\ closure'[t].data = closure[t].data
      BY <1>3 DEF TypeInv, TypeOK, ClosureRecords
    <3> QED BY <2>1, <3>1, NothingTwice DEF NoAnswer, CopiesWellFormed
  <2>2. CASE u # t
    BY <1>3, <2>2 DEF TypeInv, TypeOK, CopiesWellFormed
  <2> QED BY <2>1, <2>2
<1> QED BY <1>2, <1>3 DEF LoadCallback, Terminal

LEMMA UserStepWellFormed ==
    ASSUME TypeInv, CopiesWellFormed, UserStep
    PROVE  CopiesWellFormed'
<1> USE ScreensAssumption DEF TypeInv
<1>1. ASSUME NEW t \in Closures, NEW s \in Screens, Open(t, s)
      PROVE  CopiesWellFormed'
  <2> DEFINE r == Reading("load", s, None, None)
  <2>1. r \in ClosureRecords /\ r.answer = NoAnswer /\ r.data = Bare
    <3>1. "load" \in {"load", "add", "remove"} /\ None \in Cells \cup {None}
          /\ None \in Spots \cup {None}
      OBVIOUS
    <3> QED BY ONLY <3>1, ClosureTypes
  <2>2. /\ closure' = [closure EXCEPT ![t] = r]
        /\ document' = document /\ cache' = cache /\ pending' = pending
    BY <1>1 DEF Open
  <2> HIDE DEF r
  <2> QED BY <2>1, <2>2, StartWellFormed
<1>2. ASSUME NEW t \in Closures, NEW c \in Cells, TapAdd(t, c) \/ TapRemove(t, c)
      PROVE  CopiesWellFormed'
  <2>1. cell[c].spot \in Spots /\ ScreenOf[c] \in Screens
    BY <1>2 DEF TypeOK, CellRecords, CellsFilled, TapAdd, TapRemove, Touchable
  <2>2. PICK kind \in {"add", "remove"} :
          closure' = [closure EXCEPT ![t] = Reading(kind, ScreenOf[c], c, cell[c].spot)]
    BY <1>2 DEF TapAdd, TapRemove
  <2> DEFINE r == Reading(kind, ScreenOf[c], c, cell[c].spot)
  <2>3. r \in ClosureRecords /\ r.answer = NoAnswer /\ r.data = Bare
    BY <2>1, ClosureTypes
  <2>4. document' = document /\ cache' = cache /\ pending' = pending
    BY <1>2 DEF TapAdd, TapRemove
  <2> HIDE DEF r
  <2> QED BY <2>2, <2>3, <2>4, StartWellFormed DEF r
<1>3. ASSUME NEW c \in Cells, ScrollOff(c)
      PROVE  CopiesWellFormed'
  BY <1>3 DEF ScrollOff, CopiesWellFormed
<1> QED BY <1>1, <1>2, <1>3 DEF UserStep

LEMMA ScreenStepWellFormed ==
    ASSUME TypeInv, CopiesWellFormed, ScreenStep
    PROVE  CopiesWellFormed'
<1>1. ASSUME NEW s \in Screens, NEW x \in Spots,
             SpotArrives(s, x) \/ SpotAbsent(s, x) \/ FavoriteSpotNotified(s, x)
      PROVE  CopiesWellFormed'
  BY <1>1 DEF SpotArrives, SpotAbsent, FavoriteSpotNotified, CopiesWellFormed
<1>2. ASSUME NEW t \in Closures, CityNotified(t)
      PROVE  CopiesWellFormed'
  BY <1>2, FinishWellFormed DEF CityNotified, TypeInv, Terminal
<1>3. ASSUME NEW c \in Cells, NEW x \in Spots, Configure(c, x)
      PROVE  CopiesWellFormed'
  BY <1>3 DEF Configure, CopiesWellFormed
<1> QED BY <1>1, <1>2, <1>3 DEF ScreenStep

LEMMA FirestoreStepWellFormed ==
    ASSUME TypeInv, CopiesWellFormed, FirestoreStep
    PROVE  CopiesWellFormed'
<1>1. ASSUME NEW d \in Devices, LoseAck(d)
      PROVE  CopiesWellFormed'
  BY <1>1 DEF LoseAck, CopiesWellFormed
<1>2. ASSUME NEW d \in Devices, Reject(d)
      PROVE  CopiesWellFormed'
  <2>1. /\ \A e \in Devices : \A i \in DOMAIN pending'[e] : WellFormed(pending'[e][i].data)
        /\ \A t \in Closures :
             WellFormed(closure'[t].answer) /\ WellFormed(closure'[t].data)
    BY <1>2, NotifyWellFormed DEF Reject
  <2> QED BY <1>2, <2>1 DEF Reject, CopiesWellFormed
<1> QED BY <1>1, <1>2, AnswerWellFormed, CommitWellFormed, AcknowledgeWellFormed
        DEF FirestoreStep

LEMMA MainQueueStepWellFormed ==
    ASSUME TypeInv, CopiesWellFormed, NEW t \in Closures, MainQueueStep(t)
    PROVE  CopiesWellFormed'
<1> DEFINE answer == closure[t].answer
<1>1. /\ closure[t] \in ClosureRecords /\ answer \in Answers /\ WellFormed(answer)
      /\ closure[t].phase = "answered" /\ closure[t].kind # "load" => Shown(t) \in Spots
  BY ShownType DEF TypeInv, TypeOK, ClosureRecords, CopiesWellFormed, InFlight, Terminal
<1>2. CASE AddCallback(t)
  <2>1. /\ document' = document /\ cache' = cache
        /\ closure[t].phase = "answered" /\ closure[t].kind = "add"
    BY <1>2 DEF AddCallback, Callback
  <2>2. CASE answer.state \in {"error", "missing"}
    BY <1>2, <2>1, <2>2, FinishWellFormed DEF AddCallback, TypeInv, Terminal
  <2>3. CASE answer.state \notin {"error", "missing"}
    <3>1. AddData(answer, Shown(t)) \in Documents /\ WellFormed(AddData(answer, Shown(t)))
      BY <1>1, <2>1, AddDataType
    <3>2. UpdateData(t, AddData(answer, Shown(t)))
      BY <1>2, <2>3 DEF AddCallback
    <3> QED BY <2>1, <3>1, <3>2, UpdateWellFormed
  <2> QED BY <2>2, <2>3
<1>3. CASE RemoveCallback(t)
  <2>1. /\ document' = document /\ cache' = cache
        /\ closure[t].phase = "answered" /\ closure[t].kind = "remove"
    BY <1>3 DEF RemoveCallback, Callback
  <2>2. CASE ~(answer.state = "array" /\ Contains(answer.ids, Shown(t)))
    BY <1>3, <2>1, <2>2, FinishWellFormed DEF RemoveCallback, TypeInv, Terminal
  <2>3. CASE answer.state = "array" /\ Contains(answer.ids, Shown(t))
    <3>1. /\ RemoveData(answer, Shown(t)) \in Documents
          /\ WellFormed(RemoveData(answer, Shown(t)))
      BY <1>1, <2>1, <2>3, RemoveDataType
    <3>2. UpdateData(t, RemoveData(answer, Shown(t)))
      BY <1>3, <2>3 DEF RemoveCallback
    <3> QED BY <2>1, <3>1, <3>2, UpdateWellFormed
  <2> QED BY <2>2, <2>3
<1>4. CASE AddCompletion(t) \/ CityRemoveCompletion(t) \/ ReloadBlock(t)
  <2>1. PICK phase \in Terminal : Finish(t, phase)
    BY <1>4 DEF AddCompletion, CityRemoveCompletion, ReloadBlock, Terminal
  <2>2. document' = document /\ cache' = cache /\ pending' = pending
    BY <1>4 DEF AddCompletion, CityRemoveCompletion, ReloadBlock
  <2> QED BY <2>1, <2>2, FinishWellFormed DEF TypeInv
<1>5. CASE FavoritesRemoveCompletion(t)
  <2> SUFFICES ASSUME NEW u \in Closures
               PROVE  WellFormed(closure'[u].answer) /\ WellFormed(closure'[u].data)
    BY <1>5, OnlyClosures DEF FavoritesRemoveCompletion
  <2>1. closure'[u].answer = closure[u].answer /\ closure'[u].data = closure[u].data
    BY <1>5 DEF FavoritesRemoveCompletion, TypeInv, TypeOK, ClosureRecords
  <2> QED BY <2>1 DEF CopiesWellFormed
<1> QED BY <1>2, <1>3, <1>4, <1>5, LoadCallbackWellFormed DEF MainQueueStep

LEMMA InitWellFormed == Init => CopiesWellFormed
<1> SUFFICES ASSUME Init PROVE CopiesWellFormed
  OBVIOUS
<1>1. WellFormed(document)
  BY SavedAssumption, NothingTwice DEF Init, Array, WellFormed
<1> QED BY <1>1, NothingTwice DEF Init, CopiesWellFormed, Unused

LEMMA NextWellFormed ==
    TypeInv /\ CopiesWellFormed /\ [Next]_vars => (TypeInv /\ CopiesWellFormed)'
<1> SUFFICES ASSUME TypeInv, CopiesWellFormed, [Next]_vars
             PROVE  CopiesWellFormed'
  BY NextType
<1>1. CASE \E t \in Closures : MainQueueStep(t)
  BY <1>1, MainQueueStepWellFormed
<1>2. CASE \E d \in Devices : Restart(d)
  BY <1>2, RestartWellFormed
<1>3. CASE UNCHANGED vars
  BY <1>3 DEF vars, CopiesWellFormed
<1> QED BY <1>1, <1>2, <1>3, UserStepWellFormed, ScreenStepWellFormed,
        FirestoreStepWellFormed DEF Next

(* No spot is ever listed twice, on the server, in a cache, in a pending write *)
(* or in a closure: each of these holds a copy of one of the others, extended  *)
(* or shortened by AddData and RemoveData, which keep it injective; only a tap *)
(* in a well-typed state can show which spot is meant, hence TypeInv.         *)
THEOREM NothingListedTwice == Spec => []NoDuplicates
<1>1. Init => TypeInv /\ CopiesWellFormed
  BY InitType, InitWellFormed
<1>2. CopiesWellFormed => NoDuplicates
  BY DEF CopiesWellFormed, WellFormed, NoDuplicates
<1> QED BY <1>1, <1>2, NextWellFormed, PTL DEF Spec

-----------------------------------------------------------------------------
(* What a tap writes is what it read, toggled at one spot.                    *)

LEMMA AddDataToggles ==
    ASSUME NEW answer \in Answers, NEW x \in Spots, WellFormed(answer)
    PROVE  \/ /\ AddData(answer, x).state = "array" /\ AddData(answer, x) # Bare
              /\ x \notin ToSet(answer.ids)
              /\ ToSet(AddData(answer, x).ids) = ToSet(answer.ids) \cup {x}
           \/ AddData(answer, x) = Bare /\ x \in ToSet(answer.ids)
<1>1. answer.ids \in Seq(Spots)
  BY DEF Answers
<1>2. CASE answer.state = "bare"
  <2>1. AddData(answer, x) = Array(<<x>>) /\ answer.ids = <<>>
    BY <1>2 DEF AddData, WellFormed
  <2>2. ToSet(answer.ids) = {} /\ ToSet(<<x>>) = {x}
    BY <2>1 DEF ToSet
  <2> QED BY <2>1, <2>2 DEF Array, Bare
<1>3. CASE answer.state # "bare" /\ Contains(answer.ids, x)
  <2>1. \E i \in 1..Len(answer.ids) : answer.ids[i] = x
    BY <1>3 DEF Contains
  <2>2. x \in ToSet(answer.ids)
    BY <1>1, <2>1 DEF ToSet
  <2> QED BY <1>3, <2>2 DEF AddData
<1>4. CASE answer.state # "bare" /\ ~Contains(answer.ids, x)
  <2> DEFINE ids == answer.ids
             new == Append(ids, x)
  <2>1. AddData(answer, x) = Array(new)
    BY <1>4 DEF AddData
  <2>2. \A i \in 1..Len(ids) : ids[i] # x
    BY <1>4 DEF Contains
  <2>3. /\ DOMAIN ids = 1..Len(ids) /\ Len(ids) \in Nat
        /\ DOMAIN new = 1..Len(ids) + 1
        /\ \A i \in 1..Len(ids) : new[i] = ids[i]
        /\ new[Len(ids) + 1] = x
    BY <1>1
  <2> HIDE DEF ids, new
  <2>4. x \notin ToSet(ids)
    BY <2>2, <2>3 DEF ToSet
  <2>5. ToSet(new) \subseteq ToSet(ids) \cup {x}
    BY <2>3 DEF ToSet
  <2>6. ToSet(ids) \cup {x} \subseteq ToSet(new)
    BY <2>3 DEF ToSet
  <2> QED BY <2>1, <2>4, <2>5, <2>6 DEF Array, Bare, ids
<1> QED BY <1>2, <1>3, <1>4

LEMMA RemoveDataToggles ==
    ASSUME NEW answer \in Answers, NEW x \in Spots, Contains(answer.ids, x),
           IsInjective(answer.ids)
    PROVE  /\ x \in ToSet(answer.ids)
           /\ ToSet(RemoveData(answer, x).ids) = ToSet(answer.ids) \ {x}
<1> DEFINE ids == answer.ids
           i == FirstIndex(ids, x)
           left == RemoveAt(ids, i)
<1>1. ids \in Seq(Spots)
  BY DEF Answers
<1>2. i \in 1..Len(ids) /\ ids[i] = x
  BY <1>1, FirstIndexExists DEF IsFirstIndex
<1>3. /\ left \in Seq(Spots)
      /\ Len(left) = Len(ids) - 1
      /\ \A j \in 1..Len(ids) - 1 : left[j] = ids[IF j < i THEN j ELSE j + 1]
  <2> HIDE DEF ids, i
  <2> QED BY <1>1, <1>2, RemoveAtType
<1>4. RemoveData(answer, x).ids = left
  BY DEF RemoveData, Array
<1>5. DOMAIN ids = 1..Len(ids) /\ DOMAIN left = 1..Len(ids) - 1 /\ Len(ids) \in Nat
  <2> HIDE DEF ids, left
  <2> QED BY <1>1, <1>3
<1>6. \A j \in DOMAIN ids : ids[j] = x => j = i
  BY <1>2, <1>5 DEF IsInjective
<1> HIDE DEF ids, i, left
<1>7. x \in ToSet(ids)
  BY <1>2, <1>5 DEF ToSet
<1>8. ASSUME NEW j \in DOMAIN left
      PROVE  left[j] \in ToSet(ids) \ {x}
  <2> DEFINE k == IF j < i THEN j ELSE j + 1
  <2>1. k \in DOMAIN ids /\ k # i /\ left[j] = ids[k]
    BY <1>2, <1>3, <1>5
  <2> QED BY <1>6, <2>1 DEF ToSet
<1>9. ASSUME NEW k \in DOMAIN ids, ids[k] # x
      PROVE  ids[k] \in ToSet(left)
  <2> DEFINE j == IF k < i THEN k ELSE k - 1
  <2>1. k # i
    BY <1>2, <1>9
  <2>2. j \in DOMAIN left /\ left[j] = ids[k]
    BY <1>2, <1>3, <1>5, <2>1
  <2> QED BY <2>2 DEF ToSet
<1>10. ToSet(left) = ToSet(ids) \ {x}
  BY <1>8, <1>9 DEF ToSet
<1> QED BY <1>4, <1>7, <1>10 DEF ids

Written == {"writing", "acked", "rejected"}

(* One closure changes: it is not writing now, or what it writes is a toggle.  *)
LEMMA OneClosureToggles ==
    ASSUME TypeOK, WriteIsOneToggle, NEW t \in Closures, NEW r,
           closure' = [closure EXCEPT ![t] = r],
           r.phase \in Written => OneToggle(r)
    PROVE  WriteIsOneToggle'
<1> SUFFICES ASSUME NEW u \in Closures, closure'[u].phase \in Written
             PROVE  OneToggle(closure'[u])
  BY DEF WriteIsOneToggle, OneToggle, Written
<1>1. CASE u = t
  BY <1>1 DEF TypeOK
<1>2. CASE u # t
  <2>1. closure'[u] = closure[u]
    BY <1>2 DEF TypeOK
  <2> QED BY <2>1 DEF WriteIsOneToggle, Written
<1> QED BY <1>1, <1>2

LEMMA SameClosuresToggle ==
    ASSUME WriteIsOneToggle, closure' = closure
    PROVE  WriteIsOneToggle'
BY DEF WriteIsOneToggle, OneToggle

LEMMA FinishToggles ==
    ASSUME TypeOK, WriteIsOneToggle, NEW t \in Closures, NEW phase \in Terminal,
           Finish(t, phase)
    PROVE  WriteIsOneToggle'
<1>1. closure[t] \in ClosureRecords /\ phase \in Phases
  BY DEF TypeOK, Phases
<1>2. Released(closure[t], phase).phase \notin Written
  BY <1>1, ClosureTypes DEF Written, Terminal
<1>3. closure' = [closure EXCEPT ![t] = Released(closure[t], phase)]
  BY DEF Finish
<1> QED BY <1>2, <1>3, OneClosureToggles

(* The answer of a write changes the phase and nothing that was captured.      *)
LEMMA NotifyToggles ==
    ASSUME TypeInv, WriteIsOneToggle, NEW d \in Devices, NEW phase, pending[d] # <<>>,
           NotifyUser(d, phase)
    PROVE  WriteIsOneToggle'
<1> DEFINE t == Head(pending[d]).callback
<1>1. Head(pending[d]) \in Writes /\ 1 \in DOMAIN pending[d] /\ Head(pending[d]) = pending[d][1]
  BY DEF TypeInv, TypeOK
<1>2. CASE t = None
  BY <1>2, SameClosuresToggle DEF NotifyUser
<1>3. CASE t # None
  <2>1. t \in Closures /\ closure[t] \in ClosureRecords /\ closure[t].phase = "writing"
    BY <1>1, <1>3 DEF Writes, TypeInv, TypeOK, CallbacksTracked
  <2>2. closure' = [closure EXCEPT ![t].phase = phase]
    BY <1>3 DEF NotifyUser
  <2> HIDE DEF t
  <2> DEFINE r == [closure[t] EXCEPT !.phase = phase]
  <2>3. closure' = [closure EXCEPT ![t] = r]
    BY <2>2
  <2>4. r.kind = closure[t].kind /\ r.answer = closure[t].answer /\ r.data = closure[t].data
    BY <2>1 DEF ClosureRecords
  <2>5. OneToggle(closure[t])
    BY <2>1 DEF WriteIsOneToggle
  <2> HIDE DEF r
  <2>6. OneToggle(r)
    BY <2>4, <2>5 DEF OneToggle
  <2> QED BY <2>1, <2>3, <2>6, OneClosureToggles DEF TypeInv
<1> QED BY <1>2, <1>3

LEMMA UpdateToggles ==
    ASSUME TypeInv, WriteIsOneToggle, NEW t \in Closures, NEW data, UpdateData(t, data),
           OneToggle([closure[t] EXCEPT !.data = data])
    PROVE  WriteIsOneToggle'
<1> DEFINE r == [closure[t] EXCEPT !.phase = "writing", !.data = data]
           s == [closure[t] EXCEPT !.data = data]
<1>1. closure[t] \in ClosureRecords
  BY DEF TypeInv, TypeOK
<1>2. r.kind = s.kind /\ r.answer = s.answer /\ r.data = s.data
  BY <1>1 DEF ClosureRecords
<1>3. closure' = [closure EXCEPT ![t] = r]
  BY DEF UpdateData
<1> HIDE DEF r
<1>4. OneToggle(s)
  OBVIOUS
<1> HIDE DEF s
<1>5. OneToggle(r)
  BY <1>2, <1>4 DEF OneToggle
<1> QED BY <1>3, <1>5, OneClosureToggles DEF TypeInv

LEMMA AddCallbackToggles ==
    ASSUME TypeInv, CopiesWellFormed, WriteIsOneToggle, NEW t \in Closures, AddCallback(t)
    PROVE  WriteIsOneToggle'
<1> DEFINE answer == closure[t].answer
           data == AddData(answer, Shown(t))
           s == [closure[t] EXCEPT !.data = data]
<1>1. /\ closure[t] \in ClosureRecords /\ answer \in Answers /\ WellFormed(answer)
      /\ closure[t].kind = "add" /\ closure[t].phase = "answered"
  BY DEF AddCallback, Callback, TypeInv, TypeOK, ClosureRecords, CopiesWellFormed
<1>2. Shown(t) \in Spots
  BY <1>1, ShownType DEF TypeInv, InFlight, Terminal
<1>3. CASE answer.state \in {"error", "missing"}
  BY <1>3, FinishToggles DEF AddCallback, TypeInv, Terminal
<1>4. CASE answer.state \notin {"error", "missing"}
  <2>1. UpdateData(t, data)
    BY <1>4 DEF AddCallback
  <2>2. \/ /\ data # Bare /\ Shown(t) \notin ToSet(answer.ids)
           /\ ToSet(data.ids) = ToSet(answer.ids) \cup {Shown(t)}
        \/ data = Bare /\ Shown(t) \in ToSet(answer.ids)
    BY <1>1, <1>2, AddDataToggles
  <2> HIDE DEF data
  <2>3. s.kind = "add" /\ s.answer = answer /\ s.data = data
    BY <1>1 DEF ClosureRecords
  <2> HIDE DEF s, answer
  <2>4. OneToggle(s)
    BY <1>2, <2>2, <2>3 DEF OneToggle
  <2> QED BY <2>1, <2>4, UpdateToggles DEF s
<1> QED BY <1>3, <1>4

LEMMA RemoveCallbackToggles ==
    ASSUME TypeInv, CopiesWellFormed, WriteIsOneToggle, NEW t \in Closures, RemoveCallback(t)
    PROVE  WriteIsOneToggle'
<1> DEFINE answer == closure[t].answer
           data == RemoveData(answer, Shown(t))
           s == [closure[t] EXCEPT !.data = data]
<1>1. /\ closure[t] \in ClosureRecords /\ answer \in Answers /\ IsInjective(answer.ids)
      /\ closure[t].kind = "remove" /\ closure[t].phase = "answered"
  BY DEF RemoveCallback, Callback, TypeInv, TypeOK, ClosureRecords, CopiesWellFormed, WellFormed
<1>2. Shown(t) \in Spots
  BY <1>1, ShownType DEF TypeInv, InFlight, Terminal
<1>3. CASE ~(answer.state = "array" /\ Contains(answer.ids, Shown(t)))
  BY <1>3, FinishToggles DEF RemoveCallback, TypeInv, Terminal
<1>4. CASE answer.state = "array" /\ Contains(answer.ids, Shown(t))
  <2>1. UpdateData(t, data)
    BY <1>4 DEF RemoveCallback
  <2>2. /\ Shown(t) \in ToSet(answer.ids)
        /\ ToSet(data.ids) = ToSet(answer.ids) \ {Shown(t)}
    BY <1>1, <1>2, <1>4, RemoveDataToggles
  <2> HIDE DEF data
  <2>3. s.kind = "remove" /\ s.answer = answer /\ s.data = data
    BY <1>1 DEF ClosureRecords
  <2> HIDE DEF s, answer
  <2>4. OneToggle(s)
    BY <2>2, <2>3 DEF OneToggle
  <2> QED BY <2>1, <2>4, UpdateToggles DEF s
<1> QED BY <1>3, <1>4

LEMMA MainQueueStepToggles ==
    ASSUME TypeInv, CopiesWellFormed, WriteIsOneToggle, NEW t \in Closures, MainQueueStep(t)
    PROVE  WriteIsOneToggle'
<1>1. closure[t] \in ClosureRecords
  BY DEF TypeInv, TypeOK
<1>2. CASE LoadCallback(t)
  <2>1. CASE \E phase \in Terminal : Finish(t, phase)
    BY <2>1, FinishToggles DEF TypeInv
  <2>2. CASE closure' = [closure EXCEPT ![t] =
               [@ EXCEPT !.phase = "finishing", !.answer = NoAnswer]]
    <3> DEFINE r == [closure[t] EXCEPT !.phase = "finishing", !.answer = NoAnswer]
    <3>1. r.phase \notin Written
      BY <1>1 DEF ClosureRecords, Written
    <3>2. closure' = [closure EXCEPT ![t] = r]
      BY <2>2
    <3> HIDE DEF r
    <3> QED BY <3>1, <3>2, OneClosureToggles DEF TypeInv
  <2> QED BY <1>2, <2>1, <2>2 DEF LoadCallback, Terminal
<1>3. CASE AddCompletion(t) \/ CityRemoveCompletion(t) \/ ReloadBlock(t)
  <2>1. PICK phase \in Terminal : Finish(t, phase)
    BY <1>3 DEF AddCompletion, CityRemoveCompletion, ReloadBlock, Terminal
  <2> QED BY <2>1, FinishToggles DEF TypeInv
<1>4. CASE FavoritesRemoveCompletion(t)
  <2> DEFINE r == [closure[t] EXCEPT !.phase = "reloading"]
  <2>1. r.phase \notin Written
    BY <1>1 DEF ClosureRecords, Written
  <2>2. closure' = [closure EXCEPT ![t] = r]
    BY <1>4 DEF FavoritesRemoveCompletion
  <2> HIDE DEF r
  <2> QED BY <2>1, <2>2, OneClosureToggles DEF TypeInv
<1> QED BY <1>2, <1>3, <1>4, AddCallbackToggles, RemoveCallbackToggles DEF MainQueueStep

LEMMA UserStepToggles ==
    ASSUME TypeInv, WriteIsOneToggle, UserStep
    PROVE  WriteIsOneToggle'
<1>1. ASSUME NEW t \in Closures, NEW kind, NEW s, NEW c, NEW x,
             closure' = [closure EXCEPT ![t] = Reading(kind, s, c, x)]
      PROVE  WriteIsOneToggle'
  <2>1. Reading(kind, s, c, x).phase \notin Written
    BY DEF Reading, Written
  <2> QED BY <1>1, <2>1, OneClosureToggles DEF TypeInv
<1>2. ASSUME NEW t \in Closures, NEW s \in Screens, Open(t, s)
      PROVE  WriteIsOneToggle'
  BY <1>1, <1>2 DEF Open
<1>3. ASSUME NEW t \in Closures, NEW c \in Cells, TapAdd(t, c) \/ TapRemove(t, c)
      PROVE  WriteIsOneToggle'
  BY <1>1, <1>3 DEF TapAdd, TapRemove
<1>4. ASSUME NEW c \in Cells, ScrollOff(c)
      PROVE  WriteIsOneToggle'
  BY <1>4, SameClosuresToggle DEF ScrollOff
<1> QED BY <1>2, <1>3, <1>4 DEF UserStep

LEMMA ScreenStepToggles ==
    ASSUME TypeInv, WriteIsOneToggle, ScreenStep
    PROVE  WriteIsOneToggle'
<1>1. ASSUME NEW s \in Screens, NEW x \in Spots,
             SpotArrives(s, x) \/ SpotAbsent(s, x) \/ FavoriteSpotNotified(s, x)
      PROVE  WriteIsOneToggle'
  BY <1>1, SameClosuresToggle DEF SpotArrives, SpotAbsent, FavoriteSpotNotified
<1>2. ASSUME NEW t \in Closures, CityNotified(t)
      PROVE  WriteIsOneToggle'
  BY <1>2, FinishToggles DEF CityNotified, TypeInv, Terminal
<1>3. ASSUME NEW c \in Cells, NEW x \in Spots, Configure(c, x)
      PROVE  WriteIsOneToggle'
  BY <1>3, SameClosuresToggle DEF Configure
<1> QED BY <1>1, <1>2, <1>3 DEF ScreenStep

LEMMA FirestoreStepToggles ==
    ASSUME TypeInv, WriteIsOneToggle, FirestoreStep
    PROVE  WriteIsOneToggle'
<1>1. ASSUME NEW t \in Closures, Answer(t)
      PROVE  WriteIsOneToggle'
  <2>1. PICK answer : Answered(t, answer)
    BY <1>1 DEF Answer, AnswerFromServer, AnswerFromCache, AnswerWithError
  <2> DEFINE r == [closure[t] EXCEPT !.phase = "answered", !.answer = answer]
  <2>2. r.phase \notin Written
    BY DEF TypeInv, TypeOK, ClosureRecords, Written
  <2>3. closure' = [closure EXCEPT ![t] = r]
    BY <2>1 DEF Answered
  <2> HIDE DEF r
  <2> QED BY <2>2, <2>3, OneClosureToggles DEF TypeInv
<1>2. ASSUME NEW d \in Devices, Commit(d) \/ LoseAck(d)
      PROVE  WriteIsOneToggle'
  BY <1>2, SameClosuresToggle DEF Commit, LoseAck
<1>3. ASSUME NEW d \in Devices, Acknowledge(d)
      PROVE  WriteIsOneToggle'
  BY <1>3, NotifyToggles DEF TypeInv, StageFollowsQueue, Acknowledge
<1>4. ASSUME NEW d \in Devices, Reject(d)
      PROVE  WriteIsOneToggle'
  BY <1>4, NotifyToggles DEF Reject
<1> QED BY <1>1, <1>2, <1>3, <1>4 DEF FirestoreStep

LEMMA RestartToggles ==
    ASSUME TypeInv, WriteIsOneToggle, NEW d \in Devices, Restart(d)
    PROVE  WriteIsOneToggle'
<1> SUFFICES ASSUME NEW u \in Closures, closure'[u].phase \in Written
             PROVE  OneToggle(closure'[u])
  BY DEF WriteIsOneToggle, OneToggle, Written
<1>1. closure'[u] = closure[u] \/ closure'[u] = Released(closure[u], "dead")
  BY DEF Restart
<1>2. Released(closure[u], "dead").phase \notin Written
  BY DEF Released, Written
<1> QED BY <1>1, <1>2 DEF WriteIsOneToggle, Written

(* A tap writes what it read with one spot added or one spot less, for every   *)
(* interleaving of taps, reused cells, stale answers and restarts.  A removal  *)
(* takes out one index, so that no trace is left needs the arrays free of      *)
(* duplicates; an add to a document without the field writes a one-spot array, *)
(* so that nothing is lost needs such a document to list nothing.             *)
THEOREM WritesAreToggles == Spec => []WriteIsOneToggle
<1>1. Init => TypeInv /\ CopiesWellFormed /\ WriteIsOneToggle
  BY InitType, InitWellFormed DEF Init, WriteIsOneToggle, Unused
<1>2. TypeInv /\ CopiesWellFormed /\ WriteIsOneToggle /\ [Next]_vars => WriteIsOneToggle'
  <2> SUFFICES ASSUME TypeInv, CopiesWellFormed, WriteIsOneToggle, [Next]_vars
               PROVE  WriteIsOneToggle'
    OBVIOUS
  <2>1. CASE \E t \in Closures : MainQueueStep(t)
    BY <2>1, MainQueueStepToggles
  <2>2. CASE \E d \in Devices : Restart(d)
    BY <2>2, RestartToggles
  <2>3. CASE UNCHANGED vars
    BY <2>3, SameClosuresToggle DEF vars
  <2> QED BY <2>1, <2>2, <2>3, UserStepToggles, ScreenStepToggles, FirestoreStepToggles
          DEF Next
<1> QED BY <1>1, <1>2, NextWellFormed, PTL DEF Spec
=============================================================================
