--------------------------------- MODULE Frame --------------------------------
(***************************************************************************)
(* What the terminal window has around the host's screen: the operator     *)
(* information area below it (Oia) and the settings, with the actions and  *)
(* buttons that show them (Toggles).  Neither reads the other's state.     *)
(***************************************************************************)
EXTENDS Integers

CONSTANTS
    ShowTiming, LUCommand, MaxTime, MaxTimers, MaxWindow, MaxMixed,     \* Oia's
    Others, Default, MaxStarts                                          \* Toggles'

VARIABLES o, events, t, file, starts

Line     == INSTANCE Oia
Switches == INSTANCE Toggles

(* The window's own toggle is not one of the library's, and is on or off at   *)
(* first.                                                                     *)
SettingsAssumption ==
    Switches!Bold \notin Others /\ Default \in BOOLEAN /\ MaxStarts \in Nat

(* What the area is told of is on or off, and the bounds are numbers.         *)
AreaAssumption ==
    ShowTiming \in BOOLEAN /\ LUCommand \in BOOLEAN /\ MaxTime \in Nat /\ MaxTimers \in Nat

ASSUME FrameAssumption == SettingsAssumption /\ AreaAssumption

areaVars   == <<o, events>>
toggleVars == <<t, file, starts>>

(* All that is promised of the area (oia.c).                                  *)
OiaTruthful == Line!OiaTruthful

(* ... and of the settings (toggles.c, config.c, trace_ds.c).                 *)
TogglesTrue == Switches!TogglesTrue
=============================================================================
