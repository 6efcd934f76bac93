------------------------------- MODULE SpotsMap -------------------------------
(***************************************************************************)
(* The card at the foot of the map (SpotsMapViewController): it follows the *)
(* finger that drags it and comes to rest closed or open.  The city screen *)
(* can take the map away in the middle of a drag (SpotsViewController).     *)
(* Positions are whole points, and grow downwards.                         *)
(***************************************************************************)
EXTENDS Integers

CONSTANTS
    Steps,    \* how far the finger can have moved between two calls of the handler
    Highest,  \* bounds on where a finger can want the card: the screen ends there
    Lowest

Closed == -130
Open == -250
Middle == -155

ASSUME StepsAssumption == Steps \subseteq Int /\ \A s \in Steps : s >= Open - Middle
ASSUME ScreenAssumption == Highest \in Int /\ Lowest \in Int /\ Lowest >= Closed

VARIABLES
    top,          \* spotDetailTopAnchor.constant
    translation,  \* what the recogniser reports: the way since it was last set to zero
    state,        \* recognizer.state; "possible" before the first drag
    onMap,        \* segmentControl shows the map
    start,        \* where the card was when the drag began,
    moved         \* and the finger's way since then

vars == <<top, translation, state, onMap, start, moved>>

States == {"possible", "began", "changed", "ended", "cancelled"}

Dragging == state \in {"began", "changed"}

(* The card never rises above its open position and never sinks out of reach    *)
(* of the finger.                                                             *)
TypeOK ==
    /\ top \in Open..Lowest /\ translation \in Int /\ start \in Int /\ moved \in Int
    /\ state \in States
    /\ onMap \in BOOLEAN

Init ==
    /\ top = Closed /\ translation = 0
    /\ state = "possible" /\ onMap = FALSE
    /\ start = Closed /\ moved = 0

Began ==
    /\ onMap /\ ~Dragging
    /\ state' = "began"
    /\ translation' = 0 /\ start' = top /\ moved' = 0
    /\ UNCHANGED <<top, onMap>>

(* Variants: a step that is refused is forgotten; the card goes as far up as the *)
(* finger does.                                                               *)
ChangedForgetsVariant(s) ==
    /\ Dragging /\ start + moved + s \in Highest..Lowest
    /\ state' = "changed" /\ moved' = moved + s
    /\ top' = IF top + s > Open THEN top + s ELSE top
    /\ UNCHANGED <<translation, onMap, start>>

ChangedUnlimitedVariant(s) ==
    /\ Dragging /\ start + moved + s \in Highest..Lowest
    /\ state' = "changed" /\ moved' = moved + s
    /\ top' = top + s
    /\ UNCHANGED <<translation, onMap, start>>

(* A step that would lift the card to the open position or above is refused,   *)
(* and stays in the translation.                                              *)
Changed(s) ==
    /\ Dragging /\ start + moved + s \in Highest..Lowest
    /\ state' = "changed" /\ moved' = moved + s
    /\ LET target == top + translation + s
       IN  \/ target > Open /\ top' = target /\ translation' = 0
           \/ target <= Open /\ translation' = translation + s /\ UNCHANGED top
    /\ UNCHANGED <<onMap, start>>

Ended ==
    /\ Dragging
    /\ state' = "ended"
    /\ top' = IF top > Middle THEN Closed ELSE Open
    /\ UNCHANGED <<translation, onMap, start, moved>>

(* The system takes the touch away: the handler does nothing.                  *)
Cancelled ==
    /\ Dragging
    /\ state' = "cancelled"
    /\ UNCHANGED <<top, translation, onMap, start, moved>>

(* The other view is put up; a drag on the one that goes is cancelled.         *)
SegmentControlDidChanged ==
    /\ onMap' = ~onMap
    /\ state' = IF Dragging THEN "cancelled" ELSE state
    /\ UNCHANGED <<top, translation, start, moved>>

Next == Began \/ (\E s \in Steps : Changed(s)) \/ Ended \/ Cancelled \/ SegmentControlDidChanged

Spec == Init /\ [][Next]_vars

-----------------------------------------------------------------------------
(* The card never leaves the finger for good: what it has not followed is in    *)
(* the translation, and it is held back only near its open position, from       *)
(* where the finger wants it too high; otherwise it lies exactly under it.     *)
FollowsFinger ==
    Dragging =>
        /\ top + translation = start + moved
        /\ \/ translation = 0
           \/ top <= Middle /\ start + moved <= Open

(* A drag opens the card if and only if the finger has carried it to the middle *)
(* or above, though the handler looks at the card and not at the finger.       *)
OpensAsDragged ==
    [][state' = "ended" /\ state # "ended" =>
          top' = IF start + moved > Middle THEN Closed ELSE Open]_vars
=============================================================================
