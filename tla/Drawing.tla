-------------------------------- MODULE Drawing --------------------------------
(***************************************************************************)
(* What the terminal window draws of the host's screen: its contents       *)
(* (Window) and the marks of the selection over them (Selection).  Each    *)
(* has the screen's size from elsewhere: one that changes, and one that    *)
(* stays.                                                                  *)
(***************************************************************************)
EXTENDS Integers

CONSTANTS
    Models, Oversizes, Standard, Screens,                   \* Window's
    High, Wide, Texts, Pointer, MaxActs                     \* Selection's

VARIABLES w, connected, sel, text, acts

Display  == INSTANCE Window
Selected == INSTANCE Selection WITH Rows <- High, Cols <- Wide

(* A size has a row and a column, the standard one is that of the smallest    *)
(* model, and the host writes what a buffer holds.                            *)
WindowAssumption ==
    /\ Models \cup Oversizes \cup {Standard} \subseteq (Nat \ {0}) \X (Nat \ {0})
    /\ \A m \in Models : Display!Fits(Standard, m)
    /\ Screens \subseteq [0 .. Display!Largest - 1 -> {"null", "a", "A", "field", "hidden"}]

(* The screen has a cell, the pointer is somewhere and fields are on screen.  *)
SelectionAssumption ==
    /\ High \in Nat \ {0} /\ Wide \in Nat \ {0}
    /\ Pointer \subseteq Int \X Int
    /\ \A x \in Texts : x.fields \subseteq Selected!Addr

ASSUME DrawingAssumption == WindowAssumption /\ SelectionAssumption

windowVars    == <<w, connected>>
selectionVars == <<sel, text, acts>>

(* All that is promised of what is seen (screen.c, draw.c).                   *)
WindowShows == Display!WindowShows

(* ... and of the selection (mouse.c).                                        *)
SelectionKept == Selected!SelectionKept
=============================================================================
