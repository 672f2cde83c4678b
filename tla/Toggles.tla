------------------------------- MODULE Toggles --------------------------------
(***************************************************************************)
(* The settings that are on or off, and what follows them: the library's   *)
(* toggles (src/src/lib/toggles.c), the window's actions that show and set *)
(* them (src/src/gtk2/actions1.c), the window's own toggle, the file they  *)
(* are kept in from one run of the program to the next (config.c), and the *)
(* trace that two of them share (src/src/lib/trace_ds.c) with its window   *)
(* (src/src/gtk2/tracewindow.c).                                           *)
(*                                                                         *)
(* A change reaches the actions, and an action that changes sends a signal *)
(* that sets the toggle.  A helper takes the record of all this and        *)
(* returns the changed one.                                                *)
(***************************************************************************)
EXTENDS Naturals, FiniteSets

CONSTANTS
    Others,         \* toggles with no effect of their own here, as Monocase
    Default,        \* whether the window's own toggle is on at first
    MaxStarts       \* a bound of the model: runs of the program

VARIABLES
    t,              \* the program: see Begun
    file,           \* the configuration file: what it has, what of it is on
    starts

vars == <<t, file, starts>>

Traces  == {"DSTrace", "EventTrace"}
Toggles == Traces \cup {"ScreenTrace", "FullScreen"} \cup Others
Bold    == "Bold"
Names   == Toggles \cup {Bold}

Ended   == [phase |-> "ended"]
Crashed == [phase |-> "crashed"]
Running == t.phase = "running"

(* A program that has just begun, with no action yet that shows a toggle.  Of *)
(* the settings in memory it keeps those of its own toggle: the others are    *)
(* read once, and written over when they are saved.                           *)
Begun(conf) ==
    [phase |-> "running", value |-> {}, linked |-> FALSE, active |-> {},
     conf |-> [has |-> conf.has \cap {Bold}, on |-> conf.on \cap {Bold}],
     set |-> Toggles, reset |-> Toggles, full |-> FALSE, looped |-> FALSE,
     bold |-> IF Bold \in conf.has THEN Bold \in conf.on ELSE Default, boldActive |-> FALSE,
     limited |-> FALSE, exists |-> FALSE,
     tracef |-> FALSE, refused |-> FALSE, window |-> "none", last |-> "none"]

With(set, e, on) == IF on THEN set \cup {e} ELSE set \ {e}

-----------------------------------------------------------------------------
(* The trace. *)

(* Its window is made when it is first written to, or again after the user    *)
(* has closed it.                                                             *)
vwtrace(s, text) == [s EXCEPT !.window = "shown", !.last = IF s.tracef THEN text ELSE @]
wtrace(s, text)  == IF s.tracef THEN vwtrace(s, text) ELSE s

(* Its first lines: the settings and, of a connected session, the screen.     *)
create_tracefile_header(s) == wtrace(s, "started")

(* Whether the size is limited: all but nothing, 0 and "none" says it is.     *)
get_tracef_max == BOOLEAN

(* With a limit to its size the file must be a new one.                       *)
tracefile_callback(s, opens) ==
    IF ~opens \/ (s.limited /\ s.exists) THEN [s EXCEPT !.refused = TRUE]
    ELSE create_tracefile_header(
             [s EXCEPT !.tracef = TRUE, !.exists = TRUE, !.refused = FALSE,
                       !.window = IF @ = "none" THEN "made" ELSE @])

tracefile_on(s, opens) == IF s.tracef THEN s ELSE tracefile_callback(s, opens)

(* Both toggles are off by now: setting them to off, as it does, does nothing.*)
stop_tracing(s) == [s EXCEPT !.tracef = FALSE]

tracefile_off(s) == stop_tracing([wtrace(s, "stopped") EXCEPT !.window = "none"])

(* Mutant: each of the two toggles closes the file that they share.           *)
toggle_traceAlone(s, name, opens) ==
    IF name \in s.value /\ ~s.tracef THEN tracefile_on(s, opens)
    ELSE IF name \notin s.value THEN tracefile_off(s)
    ELSE s

(* toggle_dsTrace and toggle_eventTrace.                                      *)
toggle_trace(s, name, opens) ==
    IF name \in s.value /\ ~s.tracef THEN tracefile_on(s, opens)
    ELSE IF s.value \cap Traces = {} THEN tracefile_off(s)
    ELSE s

(* Only a toggle that is on from the start or from the command line would     *)
(* open a file: off closes one that is not open.                              *)
toggle_screenTrace(s) == IF "ScreenTrace" \in s.value THEN s ELSE Crashed

-----------------------------------------------------------------------------
(* A change of a toggle. *)

upcall(s, name, opens) ==
    CASE name \in Traces       -> toggle_trace(s, name, opens)
      [] name = "ScreenTrace"  -> toggle_screenTrace(s)
      [] OTHER                 -> s

set_fullscreen(s, name) == IF name = "FullScreen" /\ s.linked THEN [s EXCEPT !.full = name \in s.value] ELSE s

(* The signal of an action that changes sets the toggle, which then has its   *)
(* value already; looped tells if it had not.                                 *)
set_active(s, name, on) ==
    IF (name \in s.active) = on THEN s
    ELSE [s EXCEPT !.active = With(@, name, on), !.looped = @ \/ (name \in s.value) # on]

update_3270_toggle_action(s, name, on) ==
    [set_active(s, name, on) EXCEPT !.reset = With(@, name, on), !.set = With(@, name, ~on)]

(* Mutant: the action follows before the value has changed.                   *)
do_toggle_reasonEarly(s, name, opens) ==
    LET on == name \notin s.value
        u  == IF s.linked THEN update_3270_toggle_action(s, name, on) ELSE s
        v  == upcall([u EXCEPT !.value = With(@, name, on)], name, opens)
    IN  IF v = Crashed THEN v ELSE set_fullscreen(v, name)

do_toggle_reason(s, name, opens) ==
    LET u == upcall([s EXCEPT !.value = With(@, name, name \notin @)], name, opens)
    IN  IF u = Crashed \/ ~s.linked THEN u
        ELSE update_3270_toggle_action(set_fullscreen(u, name), name, name \in u.value)

set_toggle(s, name, on, opens) ==
    IF (name \in s.value) = on THEN s ELSE do_toggle_reason(s, name, opens)

gui_toogle_set_active(s, on) ==
    IF s.bold = on THEN s
    ELSE [s EXCEPT !.bold = on, !.conf = [has |-> @.has \cup {Bold}, on |-> With(@.on, Bold, on)]]

-----------------------------------------------------------------------------
(* The file. *)

(* Two traces in one file may both be on: the first opens it.                 *)
OpenConfigFile(s, conf, opens) ==
    LET on == conf.on \cap Toggles
        u  == [s EXCEPT !.value = on]
    IN  IF on \cap Traces = {} THEN u ELSE tracefile_on(u, opens)

(* Mutant: what the actions show is saved.                                    *)
SavedShown(s) == [has |-> {Bold} \cup Toggles, on |-> s.active \cup (IF s.boldActive THEN {Bold} ELSE {})]

Saved(s) == [has |-> s.conf.has \cup Toggles, on |-> s.conf.on \cup s.value]

(* No file that can be written, and a dialog says so.                         *)
SaveConfigFile(writes) ==
    file' = IF writes THEN Saved(t) ELSE file

(* The actions are made after the file was read: those of the library's       *)
(* toggles take their values as they are made, that of the window's own at    *)
(* the end of load_application_ui (its signal finds the toggle as it is).     *)
Linked(s) ==
    [s EXCEPT !.linked = TRUE, !.full = "FullScreen" \in s.value, !.active = s.value,
              !.reset = s.value, !.set = Toggles \ s.value, !.boldActive = s.bold]

-----------------------------------------------------------------------------
Init ==
    /\ t = Ended /\ starts = 0
    /\ \E has \in {{}, Names} : \E on \in SUBSET has : file = [has |-> has, on |-> on]

Start ==
    /\ ~Running /\ starts < MaxStarts
    /\ starts' = starts + 1 /\ UNCHANGED file
    /\ \E limited \in get_tracef_max, opens \in BOOLEAN :
         t' = Linked(OpenConfigFile([Begun(file) EXCEPT !.limited = limited], file, opens))

Becomes(s) == Running /\ t' = s /\ UNCHANGED <<file, starts>>

(* The user takes a toggle's action, which changes and sets it.               *)
toggle_action ==
    \E name \in Toggles, opens \in BOOLEAN :
        LET on == name \notin t.active
        IN  Running /\ Becomes(set_toggle([t EXCEPT !.active = With(@, name, on)], name, on, opens))

toggle_set_action ==
    \E name \in t.set, opens \in BOOLEAN : Becomes(set_toggle(t, name, TRUE, opens))

toggle_reset_action ==
    \E name \in t.reset, opens \in BOOLEAN : Becomes(set_toggle(t, name, FALSE, opens))

(* A key, a plugin or the library itself.                                     *)
lib3270_set_toggle ==
    \E name \in Toggles, on, opens \in BOOLEAN : Becomes(set_toggle(t, name, on, opens))

(* The action does not follow a font that sets the toggle: the user's next    *)
(* click on it then changes the action alone.                                 *)
toggle_gui == Becomes(gui_toogle_set_active([t EXCEPT !.boldActive = ~@], ~t.boldActive))

(* A font of the menu may be bold or not, and its action is not told.         *)
activate_font == \E bold \in BOOLEAN : Becomes(gui_toogle_set_active(t, bold))

(* Data of the host, or an event.                                             *)
trace_ds ==
    /\ t.tracef /\ t.value \cap Traces # {}
    /\ Becomes(vwtrace(t, "data"))

(* The console's window is destroyed, and the console stays.                  *)
CloseConsole == t.window = "shown" /\ Becomes([t EXCEPT !.window = "made"])

(* An end of an ANSI session writes to the trace of the screen.               *)
trace_ansi_disc == "ScreenTrace" \in t.value /\ Becomes(Crashed)

action_save == \E writes \in BOOLEAN : Running /\ SaveConfigFile(writes) /\ UNCHANGED <<t, starts>>

CloseConfigFile ==
    \E writes \in BOOLEAN :
        Running /\ t' = Ended /\ SaveConfigFile(writes) /\ UNCHANGED starts

Next ==
    \/ Start
    \/ Running /\ \/ toggle_action \/ toggle_set_action \/ toggle_reset_action \/ lib3270_set_toggle
                  \/ toggle_gui \/ activate_font \/ trace_ds \/ CloseConsole \/ trace_ansi_disc
                  \/ action_save \/ CloseConfigFile

Spec == Init /\ [][Next]_vars

-----------------------------------------------------------------------------
TypeOK ==
    /\ t.phase \in {"running", "ended", "crashed"} /\ starts \in 0 .. MaxStarts
    /\ file.has \subseteq Names /\ file.on \subseteq file.has
    /\ Running => t.value \subseteq Toggles /\ t.window \in {"none", "made", "shown"}

(* Whoever changes a toggle, the menus and the window show what it is, one of *)
(* the two buttons that set and reset it is there, and the signal an action   *)
(* sends when it follows does not change the toggle again.                    *)
TogglesAgree ==
    Running => /\ t.active = t.value /\ t.reset = t.value /\ t.set = Toggles \ t.value
               /\ t.full = ("FullScreen" \in t.value)
               /\ ~t.looped

(* The trace is written while either toggle asks for it, unless its file was  *)
(* refused when it was last asked for, and it is complete: closed with its    *)
(* last line when both are off, and then its window is gone.                  *)
TraceComplete ==
    Running => IF t.value \cap Traces # {}
               THEN (t.tracef \/ t.refused) /\ (t.tracef => t.last \in {"started", "data"})
               ELSE ~t.tracef /\ t.window = "none" /\ t.last \in {"none", "stopped"}

(* What the settings in memory say of the window's own toggle is what it is.  *)
SettingsCurrent ==
    Running => t.bold = IF Bold \in t.conf.has THEN Bold \in t.conf.on ELSE Default

(* A program that starts from a file just saved has all that was on, whoever  *)
(* had set it and whatever the actions showed.                                *)
SettingsReturn ==
    [][file' # file => LET again == OpenConfigFile(Begun(file'), file', TRUE)
                       IN  again.value = t.value /\ again.bold = t.bold]_vars

(* All of it.                                                                 *)
TogglesTrue == [](TypeOK /\ TogglesAgree /\ TraceComplete /\ SettingsCurrent) /\ SettingsReturn
=============================================================================
