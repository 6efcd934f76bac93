----------------------------- MODULE SpotsMapProofs -----------------------------
(***************************************************************************)
(* Proofs about the map's card, for every screen and every sequence of      *)
(* steps none of which leaps the whole way from the middle to the open      *)
(* position.                                                               *)
(***************************************************************************)
EXTENDS SpotsMap, TLAPS

USE StepsAssumption, ScreenAssumption DEF Closed, Open, Middle

IInv == TypeOK /\ FollowsFinger

LEMMA InitIInv == Init => IInv
<1> SUFFICES ASSUME Init PROVE IInv
  OBVIOUS
<1>1. top \in Open..Lowest /\ translation \in Int /\ start \in Int /\ moved \in Int
  BY DEF Init
<1>2. state \in States /\ onMap \in BOOLEAN
  BY DEF Init, States
<1>3. ~Dragging
  BY DEF Init, Dragging
<1> QED
  BY <1>1, <1>2, <1>3 DEF IInv, TypeOK, FollowsFinger

(* A step is followed, or refused: it can be refused only to a card that lies   *)
(* above the middle already, for otherwise the step alone would be too long.    *)
LEMMA ChangedIInv ==
    ASSUME IInv, NEW s \in Steps, Changed(s)
    PROVE  IInv'
<1>0. /\ TypeOK /\ s \in Int /\ s >= Open - Middle
      /\ top + translation = start + moved
      /\ translation = 0 \/ (top <= Middle /\ start + moved <= Open)
      /\ start + moved + s <= Lowest
  BY DEF IInv, Changed, FollowsFinger, TypeOK
<1>1. /\ state' = "changed" /\ moved' = moved + s /\ start' = start /\ onMap' = onMap
  BY DEF Changed
<1>2. CASE /\ top + translation + s > Open
           /\ top' = top + translation + s /\ translation' = 0
  BY <1>0, <1>1, <1>2 DEF IInv, TypeOK, FollowsFinger, States
<1>3. CASE /\ top + translation + s <= Open
           /\ translation' = translation + s /\ top' = top
  <2>1. top <= Middle
    BY <1>0, <1>3 DEF TypeOK
  <2> QED
    BY <2>1, <1>0, <1>1, <1>3 DEF IInv, TypeOK, FollowsFinger, States
<1> QED
  BY <1>2, <1>3 DEF Changed

LEMMA NextIInv == IInv /\ [Next]_vars => IInv'
<1> SUFFICES ASSUME IInv, [Next]_vars PROVE IInv'
  OBVIOUS
<1>1. CASE Began
  BY <1>1 DEF Began, IInv, TypeOK, FollowsFinger, States, Dragging
<1>2. ASSUME NEW s \in Steps, Changed(s) PROVE IInv'
  BY <1>2, ChangedIInv
<1>3. CASE Ended
  BY <1>3 DEF Ended, IInv, TypeOK, FollowsFinger, States, Dragging
<1>4. CASE Cancelled
  BY <1>4 DEF Cancelled, IInv, TypeOK, FollowsFinger, States, Dragging
<1>5. CASE SegmentControlDidChanged
  BY <1>5 DEF SegmentControlDidChanged, IInv, TypeOK, FollowsFinger, States, Dragging
<1>6. CASE UNCHANGED vars
  BY <1>6 DEF vars, IInv, TypeOK, FollowsFinger, Dragging
<1> QED
  BY <1>1, <1>2, <1>3, <1>4, <1>5, <1>6 DEF Next

LEMMA AlwaysIInv == Spec => []IInv
  BY InitIInv, NextIInv, PTL DEF Spec

-----------------------------------------------------------------------------
(* The card stays between its open position and the foot of the screen.        *)
THEOREM CardStaysOnScreen == Spec => []TypeOK
<1>1. IInv => TypeOK
  BY DEF IInv
<1> QED
  BY <1>1, AlwaysIInv, PTL

(* The card follows the finger, and catches up with it after it was held back.  *)
THEOREM CardFollowsFinger == Spec => []FollowsFinger
<1>1. IInv => FollowsFinger
  BY DEF IInv
<1> QED
  BY <1>1, AlwaysIInv, PTL

(* Where a drag ends decides what becomes of the card, not how it got there.    *)
THEOREM DragDecides == Spec => OpensAsDragged
<1>1. IInv /\ [Next]_vars =>
        [state' = "ended" /\ state # "ended" =>
            top' = IF start + moved > Middle THEN Closed ELSE Open]_vars
  <2> SUFFICES ASSUME IInv, Next, state' = "ended", state # "ended"
               PROVE  top' = IF start + moved > Middle THEN Closed ELSE Open
    BY DEF vars
  <2>1. Ended
    BY DEF Next, Began, Changed, Cancelled, SegmentControlDidChanged
  <2>2. /\ top + translation = start + moved
        /\ translation = 0 \/ (top <= Middle /\ start + moved <= Open)
    BY <2>1 DEF Ended, IInv, FollowsFinger
  <2>3. (start + moved > Middle) <=> (top > Middle)
    BY <2>2 DEF IInv, TypeOK
  <2> QED
    BY <2>1, <2>3 DEF Ended
<1> QED
  BY <1>1, AlwaysIInv, PTL DEF Spec, OpensAsDragged
=============================================================================
