---------------------------- MODULE DesktopProofs ----------------------------
(***************************************************************************)
(* What two machines of the terminal window promise, the settings          *)
(* (Toggles) and the operator information area (Oia), for every value of   *)
(* their constants.  They stand side by side in Frame.                     *)
(*                                                                         *)
(* The settings.  While the program runs, its record t is one of Session   *)
(* that satisfies Shown (the actions show the toggles), Traced (the trace  *)
(* is the toggles') and Kept (the settings in memory are those of the      *)
(* window's own toggle).  Between the change of a value and what follows   *)
(* it Shown does not hold: Almost is what it is then.                      *)
(*                                                                         *)
(* The area.  Its record o satisfies GoodArea.  Most of what the library   *)
(* tells the window is Steady: it leaves what is painted right, and what   *)
(* was right stays so.  The steps of the session that are not are          *)
(* followed through their chain of callbacks until all is right again.     *)
(***************************************************************************)
EXTENDS Frame, Integers, FiniteSets, TLAPS

-----------------------------------------------------------------------------
(* The settings. *)

Settings == [has : SUBSET Switches!Names, on : SUBSET Switches!Names]

Session ==
    [phase : {"running"}, value : SUBSET Switches!Toggles, linked : BOOLEAN, active : SUBSET Switches!Toggles,
     conf : Settings, set : SUBSET Switches!Toggles, reset : SUBSET Switches!Toggles, full : BOOLEAN,
     looped : BOOLEAN, bold : BOOLEAN, boldActive : BOOLEAN, limited : BOOLEAN,
     exists : BOOLEAN, tracef : BOOLEAN, refused : BOOLEAN,
     window : {"none", "made", "shown"}, last : {"none", "started", "data", "stopped"}]

(* The buttons and the window's size are those of value; nothing was undone.  *)
Follows(s, value) ==
    /\ s.linked /\ ~s.looped
    /\ s.reset = value /\ s.set = Switches!Toggles \ value /\ s.full = ("FullScreen" \in value)

Shown(s) == Follows(s, s.value) /\ s.active = s.value

(* The action of name may have changed already, to on.                        *)
Almost(s, name, on) ==
    /\ Follows(s, s.value)
    /\ s.active \in {s.value, Switches!With(s.value, name, on)}

Closed(s) == ~s.tracef => s.last \in {"none", "stopped"}
Traced(s) ==
    /\ Closed(s)
    /\ s.tracef => s.last \in {"started", "data"}
    /\ IF s.value \cap Switches!Traces # {} THEN s.tracef \/ s.refused ELSE ~s.tracef /\ s.window = "none"

Kept(s) ==
    /\ s.conf.has \subseteq {Switches!Bold} /\ s.conf.on \subseteq s.conf.has
    /\ s.bold = IF Switches!Bold \in s.conf.has THEN Switches!Bold \in s.conf.on ELSE Default

(* What the trace leaves alone.                                               *)
SameSettings(r, s) ==
    /\ r.value = s.value /\ r.linked = s.linked /\ r.active = s.active /\ r.conf = s.conf
    /\ r.set = s.set /\ r.reset = s.reset /\ r.full = s.full /\ r.looped = s.looped
    /\ r.bold = s.bold

Good(s) == s \in Session /\ Shown(s) /\ Traced(s) /\ Kept(s)

IInv ==
    /\ starts \in 0 .. MaxStarts
    /\ file \in Settings /\ file.on \subseteq file.has
    /\ t = Switches!Ended \/ t = Switches!Crashed \/ Good(t)

-----------------------------------------------------------------------------
(* The trace. *)

(* A line of the trace changes its window and its last line.                  *)
LEMMA Written ==
    ASSUME NEW s \in Session, s.tracef, NEW line \in {"started", "data", "stopped"}
    PROVE  /\ Switches!vwtrace(s, line) \in Session /\ SameSettings(Switches!vwtrace(s, line), s)
           /\ Switches!vwtrace(s, line).last = line /\ Switches!vwtrace(s, line).window = "shown"
           /\ Switches!vwtrace(s, line).tracef /\ Switches!vwtrace(s, line).refused = s.refused
BY DEF Switches!vwtrace, Session, SameSettings

(* The trace is opened, or refused.                                           *)
LEMMA TraceOpened ==
    ASSUME NEW s \in Session, Closed(s), NEW opens \in BOOLEAN, ~s.tracef
    PROVE  LET u == Switches!tracefile_callback(s, opens)
           IN  /\ u \in Session /\ SameSettings(u, s) /\ Closed(u)
               /\ u.tracef \/ u.refused
               /\ u.tracef => u.last \in {"started", "data"}
<1> DEFINE r == [s EXCEPT !.refused = TRUE]
           m == [s EXCEPT !.tracef = TRUE, !.exists = TRUE, !.refused = FALSE,
                          !.window = IF @ = "none" THEN "made" ELSE @]
<1>1. /\ r \in Session /\ SameSettings(r, s) /\ r.refused /\ ~r.tracef /\ r.last = s.last
  BY DEF Session, SameSettings
<1>2. m \in Session /\ SameSettings(m, s) /\ m.tracef
  BY DEF Session, SameSettings
<1> HIDE DEF r, m
<1>3. Switches!wtrace(m, "started") = Switches!vwtrace(m, "started")
  BY <1>2 DEF Switches!wtrace
<1> DEFINE v == Switches!vwtrace(m, "started")
<1>4. v \in Session /\ SameSettings(v, m) /\ v.last = "started" /\ v.tracef
  BY <1>2, Written
<1> HIDE DEF v
<1>5. Switches!tracefile_callback(s, opens) \in {r, v}
  BY <1>3 DEF Switches!tracefile_callback, Switches!create_tracefile_header, r, m, v
<1> QED BY <1>1, <1>2, <1>4, <1>5 DEF Closed, SameSettings

(* The trace is closed with its last line.                                    *)
LEMMA TraceClosed ==
    ASSUME NEW s \in Session, Closed(s)
    PROVE  LET u == Switches!tracefile_off(s)
           IN  /\ u \in Session /\ SameSettings(u, s) /\ Closed(u)
               /\ ~u.tracef /\ u.window = "none"
<1> DEFINE w == Switches!wtrace(s, "stopped")
<1>1. /\ w \in Session /\ SameSettings(w, s) /\ w.last \in {"none", "stopped"}
  BY Written DEF Switches!wtrace, Closed, SameSettings
<1> HIDE DEF w
<1> DEFINE m == [w EXCEPT !.window = "none"]
           u == [m EXCEPT !.tracef = FALSE]
<1>2. m \in Session /\ SameSettings(m, w) /\ m.last = w.last /\ m.window = "none"
  BY <1>1 DEF Session, SameSettings
<1> HIDE DEF m
<1>3. u \in Session /\ SameSettings(u, m) /\ u.last = m.last /\ u.window = "none" /\ ~u.tracef
  BY <1>2 DEF Session, SameSettings
<1>4. Switches!tracefile_off(s) = u
  BY DEF Switches!tracefile_off, Switches!stop_tracing, w, m
<1> HIDE DEF u
<1> QED BY <1>1, <1>2, <1>3, <1>4 DEF SameSettings, Closed

(* A change of one of the two toggles: the file follows them both.            *)
LEMMA TraceToggled ==
    ASSUME NEW r \in Session, Traced(r), NEW name \in Switches!Traces, NEW opens \in BOOLEAN,
           NEW s \in Session, s.value = Switches!With(r.value, name, name \notin r.value),
           s.tracef = r.tracef, s.refused = r.refused, s.last = r.last
    PROVE  LET u == Switches!toggle_trace(s, name, opens)
           IN  u \in Session /\ SameSettings(u, s) /\ Traced(u)
<1> DEFINE u == Switches!toggle_trace(s, name, opens)
<1>0. Closed(s)
  BY DEF Traced, Closed
<1>1. CASE name \in s.value /\ ~s.tracef
  <2>1. u = Switches!tracefile_callback(s, opens)
    BY <1>1 DEF Switches!toggle_trace, Switches!tracefile_on
  <2>2. s.value \cap Switches!Traces # {}
    BY <1>1
  <2> QED BY <1>0, <1>1, <2>1, <2>2, TraceOpened DEF Traced, SameSettings
<1>2. CASE ~(name \in s.value /\ ~s.tracef) /\ s.value \cap Switches!Traces = {}
  <2>1. u = Switches!tracefile_off(s)
    BY <1>2 DEF Switches!toggle_trace
  <2> QED BY <1>0, <1>2, <2>1, TraceClosed DEF Traced, SameSettings
<1>3. CASE ~(name \in s.value /\ ~s.tracef) /\ s.value \cap Switches!Traces # {}
  <2>1. u = s
    BY <1>3 DEF Switches!toggle_trace
  <2>2. s.tracef \/ s.refused
    BY <1>3 DEF Traced, Switches!With
  <2> QED BY <1>0, <1>3, <2>1, <2>2 DEF Traced, SameSettings
<1> QED BY <1>1, <1>2, <1>3

-----------------------------------------------------------------------------
(* A change of a toggle. *)

(* What a change of a value calls: the trace is right again, and the rest as  *)
(* it was, or the program is no more.                                         *)
LEMMA UpcallTraces ==
    ASSUME NEW r \in Session, Traced(r), NEW name \in Switches!Toggles, NEW opens \in BOOLEAN
    PROVE  LET s == [r EXCEPT !.value = Switches!With(@, name, name \notin @)]
               u == Switches!upcall(s, name, opens)
           IN  u # Switches!Crashed => /\ u \in Session /\ Traced(u) /\ SameSettings(u, s)
<1> PICK s : s = [r EXCEPT !.value = Switches!With(@, name, name \notin @)]
  OBVIOUS
<1>1. s \in Session
  BY DEF Session, Switches!With
<1>2. /\ s.value = Switches!With(r.value, name, name \notin r.value)
      /\ s.tracef = r.tracef /\ s.refused = r.refused /\ s.last = r.last /\ s.window = r.window
  BY DEF Session
<1> SUFFICES Switches!upcall(s, name, opens) # Switches!Crashed =>
               /\ Switches!upcall(s, name, opens) \in Session /\ Traced(Switches!upcall(s, name, opens))
               /\ SameSettings(Switches!upcall(s, name, opens), s)
  OBVIOUS
<1>3. CASE name \in Switches!Traces
  <2>1. Switches!upcall(s, name, opens) = Switches!toggle_trace(s, name, opens)
    BY <1>3 DEF Switches!upcall, Switches!Traces
  <2>2. LET u == Switches!toggle_trace(s, name, opens)
        IN  u \in Session /\ SameSettings(u, s) /\ Traced(u)
    BY <1>1, <1>2, <1>3, TraceToggled
  <2> QED BY <2>1, <2>2
<1>4. CASE name \notin Switches!Traces
  <2>1. s.value \cap Switches!Traces = r.value \cap Switches!Traces
    BY <1>2, <1>4 DEF Switches!With
  <2>2. Traced(s)
    BY <1>2, <2>1 DEF Traced, Closed
  <2>3. Switches!upcall(s, name, opens) \in {s, Switches!Crashed}
    BY <1>4 DEF Switches!upcall, Switches!toggle_screenTrace
  <2> QED BY <1>1, <2>2, <2>3 DEF SameSettings
<1> QED BY <1>3, <1>4

(* Then the window's size follows the value.                                  *)
LEMMA FullFollows ==
    ASSUME NEW s \in Session, NEW name \in Switches!Toggles, s.linked,
           name # "FullScreen" => s.full = ("FullScreen" \in s.value)
    PROVE  LET u == Switches!set_fullscreen(s, name)
           IN  /\ u \in Session /\ u.full = ("FullScreen" \in s.value)
               /\ u.value = s.value /\ u.linked = s.linked /\ u.active = s.active
               /\ u.conf = s.conf /\ u.set = s.set /\ u.reset = s.reset
               /\ u.looped = s.looped /\ u.bold = s.bold
               /\ u.tracef = s.tracef /\ u.refused = s.refused
               /\ u.last = s.last /\ u.window = s.window
<1>1. CASE name = "FullScreen"
  <2>0. ("FullScreen" \in s.value) \in BOOLEAN
    OBVIOUS
  <2> PICK full \in BOOLEAN : full = ("FullScreen" \in s.value)
    BY <2>0, Zenon
  <2> PICK u : u = [s EXCEPT !.full = full]
    OBVIOUS
  <2>1. Switches!set_fullscreen(s, name) = u
    BY <1>1 DEF Switches!set_fullscreen
  <2>2. u \in Session /\ u.full = full
    BY DEF Session
  <2>3. /\ u.value = s.value /\ u.linked = s.linked /\ u.active = s.active
        /\ u.conf = s.conf /\ u.set = s.set /\ u.reset = s.reset
        /\ u.looped = s.looped /\ u.bold = s.bold
        /\ u.tracef = s.tracef /\ u.refused = s.refused
        /\ u.last = s.last /\ u.window = s.window
    BY DEF Session
  <2> QED BY <2>1, <2>2, <2>3
<1>2. CASE name # "FullScreen"
  BY <1>2 DEF Switches!set_fullscreen
<1> QED BY <1>1, <1>2

(* The two buttons of each toggle, of which one is there.                     *)
Buttons(s, shown) == [s EXCEPT !.reset = shown, !.set = Switches!Toggles \ shown]

SameButButtons(u, s) ==
    /\ u.value = s.value /\ u.linked = s.linked /\ u.active = s.active /\ u.full = s.full
    /\ u.looped = s.looped /\ u.conf = s.conf /\ u.bold = s.bold /\ u.tracef = s.tracef
    /\ u.refused = s.refused /\ u.last = s.last /\ u.window = s.window

(* Setting the buttons changes nothing else, and they show what they are      *)
(* given.                                                                     *)
LEMMA ButtonsShow ==
    ASSUME NEW s \in Session, NEW shown \in SUBSET Switches!Toggles,
           NEW u, u = Buttons(s, shown)
    PROVE  /\ u \in Session /\ u.reset = shown /\ u.set = Switches!Toggles \ shown
           /\ SameButButtons(u, s)
<1> PICK other \in SUBSET Switches!Toggles : other = Switches!Toggles \ shown
  OBVIOUS
<1>1. u = [s EXCEPT !.reset = shown, !.set = other]
  BY DEF Buttons
<1>2. u \in Session
  BY <1>1 DEF Session
<1>4. u.reset = shown /\ u.set = other
  BY <1>1 DEF Session
<1>3. SameButButtons(u, s)
  BY <1>1 DEF Session, SameButButtons
<1> QED BY <1>2, <1>3, <1>4

(* And the action and its two buttons.                                        *)
LEMMA ActionFollows ==
    ASSUME NEW s \in Session, NEW name \in Switches!Toggles, NEW old \in SUBSET Switches!Toggles, NEW on \in BOOLEAN,
           s.value = Switches!With(old, name, on), s.active \in {old, Switches!With(old, name, on)},
           s.reset = old, s.set = Switches!Toggles \ old, ~s.looped, s.linked,
           s.full = ("FullScreen" \in s.value), Traced(s), Kept(s)
    PROVE  Good(Switches!update_3270_toggle_action(s, name, on))
<1>1. /\ (name \in s.value) = on
      /\ Switches!With(s.active, name, on) = s.value
      /\ Switches!With(s.reset, name, on) = s.value
      /\ Switches!With(s.set, name, ~on) = Switches!Toggles \ s.value
  BY DEF Switches!With
<1>2. (name \in s.active) = on => s.active = s.value
  BY <1>1 DEF Switches!With
<1> DEFINE v == Switches!set_active(s, name, on)
           u == Switches!update_3270_toggle_action(s, name, on)
<1> PICK shown \in SUBSET Switches!Toggles : shown = s.value
  BY DEF Session
<1>3. /\ v \in Session /\ v.active = shown /\ v.reset = s.reset /\ v.set = s.set
      /\ v.value = s.value /\ v.linked = s.linked /\ v.full = s.full /\ v.looped = s.looped
      /\ v.conf = s.conf /\ v.bold = s.bold /\ v.tracef = s.tracef /\ v.refused = s.refused
      /\ v.last = s.last /\ v.window = s.window
  <2>1. CASE (name \in s.active) = on
    BY <1>2, <2>1 DEF Switches!set_active
  <2>2. CASE (name \in s.active) # on
    <3>1. s.looped = FALSE /\ ((name \in s.value) # on) = FALSE
      BY <1>1 DEF Session
    <3>2. v = [s EXCEPT !.active = shown, !.looped = s.looped \/ ((name \in s.value) # on)]
      BY <1>1, <2>2 DEF Switches!set_active
    <3>3. v = [s EXCEPT !.active = shown, !.looped = FALSE]
      BY <3>1, <3>2
    <3> HIDE DEF v
    <3> QED BY <3>1, <3>3 DEF Session
  <2> QED BY <2>1, <2>2
<1> HIDE DEF v
<1>4. u = Buttons(v, shown)
  BY <1>1, <1>3 DEF Switches!update_3270_toggle_action, v, Buttons
<1> HIDE DEF u
<1>6. u \in Session /\ u.reset = shown /\ u.set = Switches!Toggles \ shown /\ SameButButtons(u, v)
  BY <1>3, <1>4, ButtonsShow
<1>7. Shown(u)
  BY <1>3, <1>6 DEF Shown, Follows, SameButButtons
<1>8. Traced(u) /\ Kept(u)
  BY <1>3, <1>6 DEF Traced, Closed, Kept, SameButButtons
<1> QED BY <1>6, <1>7, <1>8 DEF Good, u

(* A toggle whose action has not changed, or has changed to the value it is   *)
(* about to have, changes: all agrees again.                                  *)
LEMMA ChangeAgrees ==
    ASSUME NEW s \in Session, NEW name \in Switches!Toggles, NEW opens \in BOOLEAN,
           Almost(s, name, name \notin s.value), Traced(s), Kept(s)
    PROVE  LET u == Switches!do_toggle_reason(s, name, opens) IN u = Switches!Crashed \/ Good(u)
<1> PICK m : m = [s EXCEPT !.value = Switches!With(@, name, name \notin @)]
  OBVIOUS
<1> DEFINE on == name \notin s.value
<1> PICK u : u = Switches!upcall(m, name, opens)
  OBVIOUS
<1> SUFFICES ASSUME u # Switches!Crashed PROVE Good(Switches!do_toggle_reason(s, name, opens))
  BY DEF Switches!do_toggle_reason
<1>1. /\ m.value = Switches!With(s.value, name, on) /\ m.linked = s.linked /\ m.active = s.active
      /\ m.conf = s.conf /\ m.set = s.set /\ m.reset = s.reset /\ m.full = s.full
      /\ m.looped = s.looped /\ m.bold = s.bold
  BY DEF Session
<1>2. u \in Session /\ Traced(u) /\ SameSettings(u, m)
  BY UpcallTraces
<1>3. u.linked /\ (name \in u.value) = on
  BY <1>1, <1>2 DEF Almost, Follows, SameSettings, Switches!With
<1> PICK f : f = Switches!set_fullscreen(u, name)
  OBVIOUS
<1>4. name # "FullScreen" => u.full = ("FullScreen" \in u.value)
  BY <1>1, <1>2 DEF Almost, Follows, SameSettings, Switches!With
<1>5. /\ f \in Session /\ f.full = ("FullScreen" \in f.value)
      /\ f.value = u.value /\ f.linked = u.linked /\ f.active = u.active
      /\ f.conf = u.conf /\ f.set = u.set /\ f.reset = u.reset
      /\ f.looped = u.looped /\ f.bold = u.bold
      /\ f.tracef = u.tracef /\ f.refused = u.refused
      /\ f.last = u.last /\ f.window = u.window
  BY <1>2, <1>3, <1>4, FullFollows
<1>6. Traced(f)
  BY <1>2, <1>5 DEF Traced, Closed
<1>7. Kept(f)
  BY <1>1, <1>2, <1>5 DEF Kept, SameSettings
<1>8. /\ f.value = Switches!With(s.value, name, on) /\ f.active \in {s.value, Switches!With(s.value, name, on)}
      /\ f.reset = s.value /\ f.set = Switches!Toggles \ s.value /\ ~f.looped /\ f.linked
  BY <1>1, <1>2, <1>5 DEF Almost, Follows, SameSettings
<1>9. Switches!do_toggle_reason(s, name, opens) = Switches!update_3270_toggle_action(f, name, on)
  <2>1. s.linked
    BY DEF Almost, Follows
  <2>2. Switches!do_toggle_reason(s, name, opens) = Switches!update_3270_toggle_action(f, name, name \in u.value)
    BY <2>1 DEF Switches!do_toggle_reason
  <2> QED BY <1>3, <2>2
<1>10. s.value \in SUBSET Switches!Toggles /\ on \in BOOLEAN
  BY DEF Session
<1> HIDE DEF on
<1>11. Good(Switches!update_3270_toggle_action(f, name, on))
  BY <1>5, <1>6, <1>7, <1>8, <1>10, ActionFollows
<1> QED BY <1>9, <1>11

(* Whoever sets a toggle while all agrees.                                    *)
LEMMA SetAgrees ==
    ASSUME NEW s, Good(s), NEW name \in Switches!Toggles, NEW on \in BOOLEAN, NEW opens \in BOOLEAN
    PROVE  LET u == Switches!set_toggle(s, name, on, opens) IN u = Switches!Crashed \/ Good(u)
<1>1. Almost(s, name, name \notin s.value)
  BY DEF Good, Shown, Almost
<1> QED BY <1>1, ChangeAgrees DEF Good, Switches!set_toggle

(* The user takes the action of a toggle, which changes before the toggle.    *)
LEMMA ActionAgrees ==
    ASSUME NEW s, Good(s), NEW name \in Switches!Toggles, NEW opens \in BOOLEAN
    PROVE  LET on == name \notin s.active
               u  == Switches!set_toggle([s EXCEPT !.active = Switches!With(@, name, on)], name, on, opens)
           IN  u = Switches!Crashed \/ Good(u)
<1> DEFINE on == name \notin s.active
<1> PICK a : a = [s EXCEPT !.active = Switches!With(@, name, on)]
  OBVIOUS
<1>1. a \in Session
  BY DEF Good, Session, Switches!With
<1>2. /\ a.active = Switches!With(s.active, name, on)
      /\ a.value = s.value /\ a.linked = s.linked /\ a.full = s.full /\ a.looped = s.looped
      /\ a.set = s.set /\ a.reset = s.reset /\ a.conf = s.conf /\ a.bold = s.bold
      /\ a.tracef = s.tracef /\ a.refused = s.refused /\ a.last = s.last /\ a.window = s.window
  BY DEF Good, Session
<1>3. s.active = s.value
  BY DEF Good, Shown
<1>4. Almost(a, name, name \notin a.value)
  BY <1>2, <1>3 DEF Good, Shown, Almost, Follows
<1>5. Traced(a) /\ Kept(a)
  BY <1>2 DEF Good, Traced, Closed, Kept
<1>6. Switches!set_toggle(a, name, on, opens) = Switches!do_toggle_reason(a, name, opens)
  BY <1>2, <1>3 DEF Switches!set_toggle
<1> QED BY <1>1, <1>4, <1>5, <1>6, ChangeAgrees

(* The window's own toggle: the settings in memory follow it.                 *)
LEMMA BoldKept ==
    ASSUME NEW s, Good(s), NEW on \in BOOLEAN
    PROVE  Good(Switches!gui_toogle_set_active(s, on))
<1>1. CASE s.bold = on
  BY <1>1 DEF Switches!gui_toogle_set_active
<1>2. CASE s.bold # on
  <2> DEFINE c == [has |-> s.conf.has \cup {Switches!Bold}, on |-> Switches!With(s.conf.on, Switches!Bold, on)]
  <2> PICK u : u = [s EXCEPT !.bold = on, !.conf = c]
    OBVIOUS
  <2>1. Switches!gui_toogle_set_active(s, on) = u
    BY <1>2 DEF Switches!gui_toogle_set_active, Good, Session
  <2>2. c \in Settings /\ c.has = {Switches!Bold} /\ c.on \subseteq {Switches!Bold} /\ (Switches!Bold \in c.on) = on
    BY DEF Good, Kept, Session, Settings, Switches!With, Switches!Names
  <2> HIDE DEF c
  <2>3. u \in Session
    BY <2>2 DEF Good, Session
  <2>4. /\ u.bold = on /\ u.conf = c /\ u.active = s.active
        /\ u.value = s.value /\ u.linked = s.linked /\ u.full = s.full /\ u.looped = s.looped
        /\ u.set = s.set /\ u.reset = s.reset
        /\ u.tracef = s.tracef /\ u.refused = s.refused /\ u.last = s.last /\ u.window = s.window
    BY DEF Good, Session
  <2>5. Shown(u) /\ Traced(u)
    BY <2>4 DEF Good, Shown, Follows, Traced, Closed
  <2>6. Kept(u)
    BY <2>2, <2>4 DEF Kept
  <2> QED BY <2>1, <2>3, <2>5, <2>6 DEF Good
<1> QED BY <1>1, <1>2

-----------------------------------------------------------------------------
(* The program's start and its file. *)

(* Before the actions are made, a trace that is to be on is opened.           *)
LEMMA FileOpened ==
    ASSUME SettingsAssumption, NEW conf \in Settings, conf.on \subseteq conf.has,
           NEW limited \in BOOLEAN, NEW opens \in BOOLEAN,
           NEW begun \in {Switches!Begun(conf), [Switches!Begun(conf) EXCEPT !.limited = limited]}
    PROVE  LET u == Switches!OpenConfigFile(begun, conf, opens)
           IN  /\ u \in Session /\ Traced(u) /\ Kept(u)
               /\ u.value = conf.on \cap Switches!Toggles /\ ~u.looped
               /\ u.bold = IF Switches!Bold \in conf.has THEN Switches!Bold \in conf.on ELSE Default
<1> DEFINE on == conf.on \cap Switches!Toggles
<1> PICK b : b = [begun EXCEPT !.value = on]
  OBVIOUS
<1>0. (IF Switches!Bold \in conf.has THEN Switches!Bold \in conf.on ELSE Default) \in BOOLEAN
  <2>1. (Switches!Bold \in conf.on) \in BOOLEAN /\ Default \in BOOLEAN
    BY DEF SettingsAssumption
  <2> QED BY <2>1, Zenon
<1> PICK bold \in BOOLEAN : bold = IF Switches!Bold \in conf.has THEN Switches!Bold \in conf.on ELSE Default
  BY <1>0, Zenon
<1> PICK c : c = [has |-> conf.has \cap {Switches!Bold}, on |-> conf.on \cap {Switches!Bold}]
  OBVIOUS
<1>7. begun \in Session
  <2>1. c \in Settings
    BY DEF Settings, Switches!Names
  <2>2. Switches!Begun(conf) \in Session
    <3> DEFINE B(x, y) ==
          [phase |-> "running", value |-> {}, linked |-> FALSE, active |-> {}, conf |-> x,
           set |-> Switches!Toggles, reset |-> Switches!Toggles, full |-> FALSE, looped |-> FALSE, bold |-> y,
           boldActive |-> FALSE, limited |-> FALSE, exists |-> FALSE, tracef |-> FALSE,
           refused |-> FALSE, window |-> "none", last |-> "none"]
    <3>1. B(c, bold) \in Session
      BY <2>1 DEF Session
    <3>2. Switches!Begun(conf) = B(c, bold)
      BY Zenon DEF Switches!Begun
    <3> QED BY <3>1, <3>2
  <2> QED BY <2>2 DEF Session
<1>1. b \in Session
  BY <1>7 DEF Session
<1>2. /\ b.value = on /\ b.conf = c /\ b.bold = bold
      /\ ~b.looped /\ ~b.tracef /\ b.last = "none" /\ b.window = "none"
  <2>1. /\ begun.conf = c /\ begun.bold = bold
        /\ ~begun.looped /\ ~begun.tracef /\ begun.last = "none" /\ begun.window = "none"
    <3>1. CASE begun = Switches!Begun(conf)
      BY <3>1 DEF Switches!Begun
    <3>2. CASE begun = [Switches!Begun(conf) EXCEPT !.limited = limited]
      BY <3>2 DEF Switches!Begun
    <3> QED BY <3>1, <3>2
  <2> QED BY <1>7, <2>1 DEF Session
<1>3. Kept(b)
  BY <1>2 DEF Kept
<1>4. Closed(b)
  BY <1>2 DEF Closed
<1>5. CASE on \cap Switches!Traces = {}
  <2>1. Traced(b)
    BY <1>2, <1>5 DEF Traced, Closed
  <2> QED BY <1>1, <1>2, <1>3, <1>5, <2>1 DEF Switches!OpenConfigFile
<1>6. CASE on \cap Switches!Traces # {}
  <2> PICK u : u = Switches!tracefile_callback(b, opens)
    OBVIOUS
  <2>1. Switches!OpenConfigFile(begun, conf, opens) = u
    BY <1>2, <1>6 DEF Switches!OpenConfigFile, Switches!tracefile_on
  <2>2. /\ u \in Session /\ SameSettings(u, b) /\ Closed(u)
        /\ u.tracef \/ u.refused
        /\ u.tracef => u.last \in {"started", "data"}
    BY <1>1, <1>2, <1>4, TraceOpened
  <2>3. Traced(u)
    BY <1>2, <1>6, <2>2 DEF Traced, SameSettings
  <2>4. Kept(u)
    BY <1>3, <2>2 DEF Kept, SameSettings
  <2>5. u.value = b.value /\ u.bold = b.bold /\ u.looped = b.looped
    BY <2>2 DEF SameSettings
  <2> QED BY <1>2, <2>1, <2>2, <2>3, <2>4, <2>5
<1> QED BY <1>5, <1>6

(* And then they show what the toggles are.                                   *)
LEMMA LinkedAgrees ==
    ASSUME NEW s \in Session, ~s.looped, Traced(s), Kept(s)
    PROVE  Good(Switches!Linked(s))
<1> PICK u : u = Switches!Linked(s)
  OBVIOUS
<1> PICK full \in BOOLEAN : full = ("FullScreen" \in s.value)
  <2>1. ("FullScreen" \in s.value) \in BOOLEAN
    OBVIOUS
  <2> QED BY <2>1, Zenon
<1> PICK shown \in SUBSET Switches!Toggles : shown = s.value
  BY DEF Session
<1> PICK m : m = [s EXCEPT !.linked = TRUE, !.full = full, !.active = shown, !.boldActive = s.bold]
  OBVIOUS
<1>0. m \in Session
  BY DEF Session
<1>1. /\ m.value = s.value /\ m.looped = s.looped /\ m.conf = s.conf
      /\ m.bold = s.bold /\ m.linked = TRUE /\ m.full = full /\ m.active = shown
      /\ m.tracef = s.tracef /\ m.refused = s.refused /\ m.last = s.last /\ m.window = s.window
  BY DEF Session
<1>2. u = Buttons(m, shown)
  BY DEF Switches!Linked, Buttons
<1>3. u \in Session /\ u.reset = shown /\ u.set = Switches!Toggles \ shown /\ SameButButtons(u, m)
  BY <1>0, <1>2, ButtonsShow
<1>4. Shown(u)
  BY <1>1, <1>3 DEF Shown, Follows, SameButButtons
<1>5. Traced(u) /\ Kept(u)
  BY <1>1, <1>3 DEF Traced, Closed, Kept, SameButButtons
<1> QED BY <1>3, <1>4, <1>5 DEF Good

(* What is saved is a file, with all that is on.                              *)
LEMMA SavedFile ==
    ASSUME SettingsAssumption, NEW s, Good(s)
    PROVE  /\ Switches!Saved(s) \in Settings /\ Switches!Saved(s).on \subseteq Switches!Saved(s).has
           /\ Switches!Saved(s).on \cap Switches!Toggles = s.value
           /\ s.bold = IF Switches!Bold \in Switches!Saved(s).has THEN Switches!Bold \in Switches!Saved(s).on ELSE Default
<1>1. Switches!Bold \notin Switches!Toggles
  BY DEF SettingsAssumption, Switches!Bold, Switches!Toggles, Switches!Traces
<1>2. s.value \subseteq Switches!Toggles /\ s.conf \in Settings
  BY DEF Good, Session
<1>3. s.conf.has \subseteq {Switches!Bold} /\ s.conf.on \subseteq s.conf.has
  BY DEF Good, Kept
<1>4. s.bold = IF Switches!Bold \in s.conf.has THEN Switches!Bold \in s.conf.on ELSE Default
  BY DEF Good, Kept
<1> HIDE DEF Switches!Bold
<1>5. /\ Switches!Saved(s).has = s.conf.has \cup Switches!Toggles /\ Switches!Saved(s).on = s.conf.on \cup s.value
  BY DEF Switches!Saved
<1>6. Switches!Saved(s) \in Settings
  BY <1>2 DEF Switches!Saved, Settings, Switches!Names
<1> QED BY <1>1, <1>2, <1>3, <1>4, <1>5, <1>6

-----------------------------------------------------------------------------
(* The program. *)

(* The first start of the program establishes the invariant.                  *)
LEMMA Initially == ASSUME SettingsAssumption, Switches!Init PROVE IInv
BY DEF Switches!Init, IInv, SettingsAssumption, Settings

(* A data line of the trace.                                                  *)
LEMMA DataTraced ==
    ASSUME NEW s, Good(s), s.tracef, s.value \cap Switches!Traces # {}
    PROVE  Good(Switches!vwtrace(s, "data"))
<1>1. /\ Switches!vwtrace(s, "data") \in Session /\ SameSettings(Switches!vwtrace(s, "data"), s)
      /\ Switches!vwtrace(s, "data").last = "data" /\ Switches!vwtrace(s, "data").tracef
  BY Written DEF Good
<1> QED BY <1>1 DEF Good, Shown, Follows, Traced, Closed, Kept, SameSettings

(* Every step keeps the invariant.                                            *)
LEMMA Inductive == ASSUME SettingsAssumption, IInv, [Switches!Next]_(Switches!vars) PROVE IInv'
<1>0. /\ starts \in 0 .. MaxStarts /\ file \in Settings /\ file.on \subseteq file.has
      /\ Switches!Running => Good(t)
  BY DEF IInv, Switches!Running, Switches!Ended, Switches!Crashed
<1>1. ASSUME NEW u, Switches!Becomes(u), Good(t) => u = Switches!Crashed \/ Good(u)
      PROVE  IInv'
  <2>1. t' = u /\ UNCHANGED <<file, starts>> /\ Good(t)
    BY <1>0, <1>1 DEF Switches!Becomes
  <2>2. u = Switches!Crashed \/ Good(u)
    BY <1>1, <2>1
  <2>3. t' = Switches!Crashed' \/ Good(t')
    BY <2>1, <2>2 DEF Switches!Crashed
  <2>4. Good(t') => Good(t)'
    OBVIOUS
  <2> QED BY <1>0, <2>1, <2>3, <2>4 DEF IInv
<1>2. CASE Switches!Start
  <2> PICK limited \in Switches!get_tracef_max, opens \in BOOLEAN :
             t' = Switches!Linked(Switches!OpenConfigFile([Switches!Begun(file) EXCEPT !.limited = limited], file, opens))
    BY <1>2 DEF Switches!Start
  <2> PICK u : u = Switches!OpenConfigFile([Switches!Begun(file) EXCEPT !.limited = limited], file, opens)
    OBVIOUS
  <2>1. u \in Session /\ Traced(u) /\ Kept(u) /\ ~u.looped
    BY <1>0, FileOpened DEF Switches!get_tracef_max
  <2>2. Good(t')
    BY <2>1, LinkedAgrees
  <2>3. starts' \in 0 .. MaxStarts /\ file' = file
    BY <1>0, <1>2 DEF Switches!Start, SettingsAssumption
  <2> QED BY <1>0, <2>2, <2>3 DEF IInv
<1>3. CASE Switches!toggle_action
  BY <1>1, <1>3, ActionAgrees DEF Switches!toggle_action
<1>4. CASE Switches!toggle_set_action
  <2> PICK name \in t.set, opens \in BOOLEAN : Switches!Becomes(Switches!set_toggle(t, name, TRUE, opens))
    BY <1>4 DEF Switches!toggle_set_action
  <2>1. name \in Switches!Toggles
    BY <1>0 DEF Switches!Becomes, Good, Session
  <2> QED BY <1>1, <2>1, SetAgrees
<1>5. CASE Switches!toggle_reset_action
  <2> PICK name \in t.reset, opens \in BOOLEAN : Switches!Becomes(Switches!set_toggle(t, name, FALSE, opens))
    BY <1>5 DEF Switches!toggle_reset_action
  <2>1. name \in Switches!Toggles
    BY <1>0 DEF Switches!Becomes, Good, Session
  <2> QED BY <1>1, <2>1, SetAgrees
<1>6. CASE Switches!lib3270_set_toggle
  BY <1>1, <1>6, SetAgrees DEF Switches!lib3270_set_toggle
<1>7. CASE Switches!toggle_gui
  <2> PICK b : b = [t EXCEPT !.boldActive = ~@]
    OBVIOUS
  <2>1. Good(t) => Good(b)
    <3> SUFFICES ASSUME Good(t) PROVE Good(b)
      OBVIOUS
    <3>1. b \in Session /\ SameSettings(b, t) /\ b.tracef = t.tracef /\ b.refused = t.refused
          /\ b.last = t.last /\ b.window = t.window
      BY DEF Good, Session, SameSettings
    <3> QED BY <3>1 DEF Good, Shown, Follows, Traced, Closed, Kept, SameSettings
  <2>2. Switches!Becomes(Switches!gui_toogle_set_active(b, ~t.boldActive))
    BY <1>7 DEF Switches!toggle_gui
  <2>3. Good(t) => (~t.boldActive) \in BOOLEAN
    OBVIOUS
  <2> QED BY <1>1, <2>1, <2>2, <2>3, BoldKept
<1>8. CASE Switches!activate_font
  BY <1>1, <1>8, BoldKept DEF Switches!activate_font
<1>9. CASE Switches!trace_ds
  BY <1>1, <1>9, DataTraced DEF Switches!trace_ds
<1>10. CASE Switches!CloseConsole
  <2> PICK u : u = [t EXCEPT !.window = "made"]
    OBVIOUS
  <2>1. t.window = "shown" /\ Switches!Becomes(u)
    BY <1>10 DEF Switches!CloseConsole
  <2>2. Good(t) => Good(u)
    <3> SUFFICES ASSUME Good(t) PROVE Good(u)
      OBVIOUS
    <3>1. u \in Session /\ SameSettings(u, t) /\ u.tracef = t.tracef /\ u.refused = t.refused
          /\ u.last = t.last
      BY DEF Good, Session, SameSettings
    <3>2. t.value \cap Switches!Traces # {}
      BY <2>1 DEF Good, Traced
    <3> QED BY <3>1, <3>2 DEF Good, Shown, Follows, Traced, Closed, Kept, SameSettings
  <2> QED BY <1>1, <2>1, <2>2
<1>11. CASE Switches!trace_ansi_disc
  BY <1>1, <1>11 DEF Switches!trace_ansi_disc
<1>12. CASE Switches!action_save
  <2>1. Good(t) /\ file' \in {file, Switches!Saved(t)} /\ UNCHANGED <<t, starts>>
    BY <1>0, <1>12 DEF Switches!action_save, Switches!SaveConfigFile
  <2>2. file' \in Settings /\ file'.on \subseteq file'.has
    BY <1>0, <2>1, SavedFile
  <2> QED BY <1>0, <2>1, <2>2 DEF IInv
<1>13. CASE Switches!CloseConfigFile
  <2>1. Good(t) /\ file' \in {file, Switches!Saved(t)} /\ t' = Switches!Ended /\ UNCHANGED starts
    BY <1>0, <1>13 DEF Switches!CloseConfigFile, Switches!SaveConfigFile
  <2>2. file' \in Settings /\ file'.on \subseteq file'.has
    BY <1>0, <2>1, SavedFile
  <2> QED BY <1>0, <2>1, <2>2 DEF IInv, Switches!Ended
<1>14. CASE UNCHANGED Switches!vars
  BY <1>14 DEF IInv, Switches!vars, Switches!Ended, Switches!Crashed, Good, Shown, Follows, Traced,
     Closed, Kept
<1> QED BY <1>2, <1>3, <1>4, <1>5, <1>6, <1>7, <1>8, <1>9, <1>10, <1>11, <1>12, <1>13, <1>14
   DEF Switches!Next

(* The invariant is what the settings promise of every state.                 *)
LEMMA Promised == ASSUME IInv PROVE Switches!TypeOK /\ Switches!TogglesAgree /\ Switches!TraceComplete /\ Switches!SettingsCurrent
<1>1. CASE t = Switches!Ended \/ t = Switches!Crashed
  BY <1>1 DEF IInv, Settings, Switches!TypeOK, Switches!TogglesAgree, Switches!TraceComplete,
     Switches!SettingsCurrent,
              Switches!Running, Switches!Ended, Switches!Crashed
<1>2. CASE Good(t)
  <2>1. Switches!TypeOK
    BY <1>2 DEF IInv, Settings, Switches!TypeOK, Good, Session
  <2>2. Switches!TogglesAgree
    BY <1>2 DEF Switches!TogglesAgree, Good, Shown, Follows
  <2>3. Switches!TraceComplete
    BY <1>2 DEF Switches!TraceComplete, Good, Traced, Closed
  <2>4. Switches!SettingsCurrent
    BY <1>2 DEF Switches!SettingsCurrent, Good, Kept
  <2> QED BY <2>1, <2>2, <2>3, <2>4
<1> QED BY <1>1, <1>2 DEF IInv

(* A step that writes the file writes what a program that starts from it has. *)
LEMMA FileReturns ==
    ASSUME SettingsAssumption, IInv, [Switches!Next]_(Switches!vars), file' # file
    PROVE  LET again == Switches!OpenConfigFile(Switches!Begun(file'), file', TRUE)
           IN  again.value = t.value /\ again.bold = t.bold
<1>1. Switches!Running /\ file' = Switches!Saved(t)
  BY DEF Switches!Next, Switches!vars, Switches!Start, Switches!Becomes, Switches!toggle_action,
     Switches!toggle_set_action, Switches!toggle_reset_action,
         Switches!lib3270_set_toggle, Switches!toggle_gui, Switches!activate_font, Switches!trace_ds, Switches!CloseConsole, Switches!trace_ansi_disc,
         Switches!action_save, Switches!CloseConfigFile, Switches!SaveConfigFile
<1>2. Good(t)
  BY <1>1 DEF IInv, Switches!Running, Switches!Ended, Switches!Crashed
<1> PICK f : f = Switches!Saved(t)
  OBVIOUS
<1>3. /\ f \in Settings /\ f.on \subseteq f.has /\ f.on \cap Switches!Toggles = t.value
      /\ t.bold = IF Switches!Bold \in f.has THEN Switches!Bold \in f.on ELSE Default
  BY <1>2, SavedFile
<1>4. LET u == Switches!OpenConfigFile(Switches!Begun(f), f, TRUE)
      IN  /\ u.value = f.on \cap Switches!Toggles
          /\ u.bold = IF Switches!Bold \in f.has THEN Switches!Bold \in f.on ELSE Default
  BY <1>3, FileOpened
<1> QED BY <1>1, <1>3, <1>4

(* The settings, all that Toggles promises of them: the actions show what the *)
(* toggles are whoever changed them (actions1.c, toggles.c), the trace is     *)
(* complete (trace_ds.c), and the file returns them (config.c).               *)
THEOREM SettingsAreTrue ==
    ASSUME SettingsAssumption
    PROVE  Switches!Spec => TogglesTrue
<1>1. Switches!Init => IInv
  BY Initially
<1>2. IInv /\ [Switches!Next]_(Switches!vars) => IInv'
  BY Inductive
<1>3. IInv => Switches!TypeOK /\ Switches!TogglesAgree /\ Switches!TraceComplete /\ Switches!SettingsCurrent
  BY Promised
<1>4. IInv /\ [Switches!Next]_(Switches!vars) =>
        [file' # file => LET again == Switches!OpenConfigFile(Switches!Begun(file'), file', TRUE)
                         IN  again.value = t.value /\ again.bold = t.bold]_(Switches!vars)
  BY FileReturns
<1> QED BY <1>1, <1>2, <1>3, <1>4, PTL DEF Switches!Spec, TogglesTrue, Switches!TogglesTrue,
   Switches!SettingsReturn

-----------------------------------------------------------------------------
(* The operator information area. *)

Statuses == {"DISCONNECTED", "RESOLVING", "CONNECTING", "BLANK", "X", "INHIBIT", "TWAIT", "SYSWAIT",
             "MINUS", "KYBDLOCK", "CONNECTED", "AWAITING_FIRST"}

Texted == Statuses \ Line!Textless

Signs == Statuses \cup {"", "A", "B", "N", "solid", "S", "?", "locked", "unlocked", "warning", "arrow", "T",
                        "wedge", "LU1"} \cup {Line!ToString(i) : i \in Int}

Fields ==
    {"cstate", "kybdlock", "oia_status", "flag", "secure_connection", "connected_lu", "insert",
     "ticking", "mticking", "attempt", "start", "msg", "told", "text", "valid", "updates",
     "cursor_position", "cursor_pos", "valid_certificate", "sock", "timer", "spinners", "script", "script_blink", "blinks", "shift",
     "painted", "on_lu_pid", "children"}

Typed(s) ==
    /\ s.cstate \in Line!Modes /\ s.kybdlock \subseteq Line!Locks
    /\ s.oia_status \in Statuses \cup {"none"} /\ s.flag \in [Line!Flags -> BOOLEAN]
    /\ s.secure_connection \in BOOLEAN /\ s.connected_lu \in {Line!CN, "LU1"}
    /\ s.valid_certificate \in BOOLEAN /\ s.sock \in BOOLEAN /\ s.cursor_pos \in BOOLEAN
    /\ s.insert \in BOOLEAN /\ s.ticking \in BOOLEAN /\ s.mticking \in BOOLEAN
    /\ s.attempt \in {"none", "resolving", "connecting"} /\ s.start \in BOOLEAN
    /\ s.msg \in Statuses /\ s.told \in Texted /\ s.text \in Texted
    /\ s.valid \in BOOLEAN /\ s.updates \in BOOLEAN /\ s.cursor_position \in {0, 1}
    /\ s.timer \in -1 .. MaxTime /\ s.spinners \in Nat
    /\ s.script \in {"NONE", "RUNNING", "HALTED"} /\ s.script_blink \in BOOLEAN
    /\ s.blinks \in Int /\ s.shift \in BOOLEAN /\ s.painted \in [Line!Elements -> Signs]
    /\ s.on_lu_pid \in BOOLEAN /\ s.children \in Nat

Area(s) == s = [f \in Fields |-> s[f]] /\ Typed(s)

(* An element is as it would be painted now.                                  *)
Fresh(s, el) == s.valid => s.painted[el] = Line!Drawn(s, el)

Keeps(r, s) == \A el \in Line!Elements : Fresh(s, el) => Fresh(r, el)

(* The text last told, and the library's status.                              *)
Told(s) ==
    /\ s.msg \notin Line!Textless => s.told = s.msg
    /\ s.oia_status # "none" => s.msg = s.oia_status
    /\ s.oia_status = "none" => s.msg = "DISCONNECTED"

Spins(s) == s.timer >= 0 => s.spinners > 0

Sound(s) == Area(s) /\ Told(s) /\ Spins(s)

(* What only the session's and the window's own steps change.                 *)
Fixed(r, s) ==
    /\ r.cstate = s.cstate /\ r.secure_connection = s.secure_connection
    /\ r.valid_certificate = s.valid_certificate /\ r.sock = s.sock
    /\ r.connected_lu = s.connected_lu /\ r.attempt = s.attempt /\ r.start = s.start
    /\ r.valid = s.valid /\ r.updates = s.updates /\ r.cursor_position = s.cursor_position /\ r.cursor_pos = s.cursor_pos
    /\ r.script = s.script /\ r.script_blink = s.script_blink /\ r.blinks = s.blinks
    /\ r.shift = s.shift /\ r.on_lu_pid = s.on_lu_pid /\ r.children = s.children

SameStatus(r, s) == r.oia_status = s.oia_status /\ r.msg = s.msg /\ r.told = s.told
SameClock(r, s)  == /\ r.timer = s.timer /\ r.spinners = s.spinners
                    /\ r.ticking = s.ticking /\ r.mticking = s.mticking
SameFlags(r, s)  == r.flag = s.flag /\ r.insert = s.insert

(* A step that keeps what is painted right.                                   *)
Steady(r, s) ==
    /\ Sound(r) /\ Fixed(r, s) /\ Keeps(r, s)
    /\ s.oia_status # "none" => r.oia_status # "none"

(* One such step after another.                                               *)
LEMMA Chained ==
    ASSUME NEW s, NEW u, NEW r, Steady(u, s), Steady(r, u)
    PROVE  Steady(r, s)
  BY DEF Steady, Fixed, Keeps

(* Doing nothing is steady.                                                   *)
LEMMA SteadyItself ==
    ASSUME NEW s, Sound(s) PROVE Steady(s, s)
  BY DEF Steady, Fixed, Keeps

-----------------------------------------------------------------------------
(* Painting. *)

(* What an element shows depends on this much.                                *)
LEMMA Depends ==
    ASSUME NEW r, NEW s
    PROVE  /\ r.cstate = s.cstate /\ r.flag["UNDERA"] = s.flag["UNDERA"] =>
                Line!Drawn(r, "UNDERA") = Line!Drawn(s, "UNDERA")
           /\ r.cstate = s.cstate /\ r.flag["BOXSOLID"] = s.flag["BOXSOLID"] =>
                Line!Drawn(r, "CONNECTION_STATUS") = Line!Drawn(s, "CONNECTION_STATUS")
           /\ r.msg = s.msg /\ r.text = s.text =>
                Line!Drawn(r, "MESSAGE_AREA") = Line!Drawn(s, "MESSAGE_AREA")
           /\ r.secure_connection = s.secure_connection /\ r.valid_certificate = s.valid_certificate =>
                Line!Drawn(r, "SSL_STATE") = Line!Drawn(s, "SSL_STATE")
           /\ r.shift = s.shift => Line!Drawn(r, "SHIFT_STATE") = Line!Drawn(s, "SHIFT_STATE")
           /\ r.flag["TYPEAHEAD"] = s.flag["TYPEAHEAD"] =>
                Line!Drawn(r, "TYPEAHEAD_INDICATOR") = Line!Drawn(s, "TYPEAHEAD_INDICATOR")
           /\ r.insert = s.insert => Line!Drawn(r, "INSERT_INDICATOR") = Line!Drawn(s, "INSERT_INDICATOR")
           /\ r.script = s.script /\ r.script_blink = s.script_blink =>
                Line!Drawn(r, "SCRIPT_INDICATOR") = Line!Drawn(s, "SCRIPT_INDICATOR")
           /\ r.connected_lu = s.connected_lu => Line!Drawn(r, "LUNAME") = Line!Drawn(s, "LUNAME")
           /\ r.timer = s.timer => Line!Drawn(r, "COMMAND_TIMER") = Line!Drawn(s, "COMMAND_TIMER")
           /\ r.cursor_position = s.cursor_position /\ r.cursor_pos = s.cursor_pos =>
                Line!Drawn(r, "CURSOR_POSITION") = Line!Drawn(s, "CURSOR_POSITION")
  <1>1. r.cstate = s.cstate /\ r.flag["UNDERA"] = s.flag["UNDERA"] =>
            Line!Drawn(r, "UNDERA") = Line!Drawn(s, "UNDERA")
    BY DEF Line!Drawn, Line!oia_undera_indicator, Line!InE
  <1>2. r.cstate = s.cstate /\ r.flag["BOXSOLID"] = s.flag["BOXSOLID"] =>
            Line!Drawn(r, "CONNECTION_STATUS") = Line!Drawn(s, "CONNECTION_STATUS")
    BY DEF Line!Drawn, Line!oia_connection_status, Line!InAnsi, Line!InSscp
  <1>3. r.msg = s.msg /\ r.text = s.text =>
            Line!Drawn(r, "MESSAGE_AREA") = Line!Drawn(s, "MESSAGE_AREA")
    BY DEF Line!Drawn, Line!oia_message_area
  <1>4. /\ r.secure_connection = s.secure_connection /\ r.valid_certificate = s.valid_certificate =>
             Line!Drawn(r, "SSL_STATE") = Line!Drawn(s, "SSL_STATE")
        /\ r.shift = s.shift => Line!Drawn(r, "SHIFT_STATE") = Line!Drawn(s, "SHIFT_STATE")
        /\ r.insert = s.insert => Line!Drawn(r, "INSERT_INDICATOR") = Line!Drawn(s, "INSERT_INDICATOR")
    <2>1. r.secure_connection = s.secure_connection /\ r.valid_certificate = s.valid_certificate =>
              Line!oia_draw_ssl_state(r) = Line!oia_draw_ssl_state(s)
      BY DEF Line!oia_draw_ssl_state
    <2>2. /\ Line!Drawn(r, "SSL_STATE") = Line!oia_draw_ssl_state(r)
          /\ Line!Drawn(s, "SSL_STATE") = Line!oia_draw_ssl_state(s)
      BY DEF Line!Drawn
    <2>3. /\ r.shift = s.shift => Line!Drawn(r, "SHIFT_STATE") = Line!Drawn(s, "SHIFT_STATE")
          /\ r.insert = s.insert => Line!Drawn(r, "INSERT_INDICATOR") = Line!Drawn(s, "INSERT_INDICATOR")
      BY DEF Line!Drawn, Line!oia_draw_shift_state, Line!oia_draw_insert_state
    <2> QED BY <2>1, <2>2, <2>3
  <1>5. r.flag["TYPEAHEAD"] = s.flag["TYPEAHEAD"] =>
            Line!Drawn(r, "TYPEAHEAD_INDICATOR") = Line!Drawn(s, "TYPEAHEAD_INDICATOR")
    BY DEF Line!Drawn, Line!oia_draw_typeahead_state
  <1>6. r.script = s.script /\ r.script_blink = s.script_blink =>
            Line!Drawn(r, "SCRIPT_INDICATOR") = Line!Drawn(s, "SCRIPT_INDICATOR")
    BY DEF Line!Drawn, Line!oia_draw_script_state
  <1>7. /\ r.connected_lu = s.connected_lu => Line!Drawn(r, "LUNAME") = Line!Drawn(s, "LUNAME")
        /\ r.timer = s.timer => Line!Drawn(r, "COMMAND_TIMER") = Line!Drawn(s, "COMMAND_TIMER")
        /\ r.cursor_position = s.cursor_position /\ r.cursor_pos = s.cursor_pos =>
             Line!Drawn(r, "CURSOR_POSITION") = Line!Drawn(s, "CURSOR_POSITION")
    BY DEF Line!Drawn, Line!oia_draw_lu_name, Line!oia_draw_timer, Line!oia_draw_cursor_position
  <1> QED BY <1>1, <1>2, <1>3, <1>4, <1>5, <1>6, <1>7

(* And it is one of the signs there are.                                      *)
LEMMA SignDrawn ==
    ASSUME NEW s, Area(s), NEW el \in Line!Elements
    PROVE  Line!Drawn(s, el) \in Signs
  <1>1. \A i \in Int : Line!ToString(i) \in Signs
    BY DEF Signs
  <1>2. s.timer \in Int /\ s.cursor_position \in Int /\ s.connected_lu \in {Line!CN, "LU1"}
        /\ Line!oia_message_area(s) \in Statuses
    BY DEF Area, Typed, Fields, Line!oia_message_area, Texted
  <1>3. \A x \in Statuses \cup {"", "A", "B", "N", "solid", "S", "?", "locked", "unlocked", "warning", "arrow", "T",
                                "wedge", "LU1"} : x \in Signs
    BY DEF Signs
  <1> QED
    BY <1>1, <1>2, <1>3 DEF Line!Elements, Line!Drawn, Line!oia_undera_indicator,
       Line!oia_connection_status,
       Line!oia_draw_ssl_state, Line!oia_draw_shift_state, Line!oia_draw_typeahead_state,
       Line!oia_draw_insert_state, Line!oia_draw_script_state, Line!oia_draw_lu_name,
       Line!oia_draw_timer, Line!oia_draw_cursor_position, Line!CN

Painting(s, painted, words) == [s EXCEPT !.painted = painted, !.text = words]

(* Elements painted are right, and the others as right as before.             *)
LEMMA Painted ==
    ASSUME NEW s, Area(s), NEW els, els \subseteq Line!Elements,
           NEW r, r = Line!update_oia_elements(s, els)
    PROVE  /\ Area(r) /\ Fixed(r, s) /\ SameStatus(r, s) /\ SameClock(r, s) /\ SameFlags(r, s)
           /\ r.kybdlock = s.kybdlock
           /\ Keeps(r, s) /\ \A el \in els : Fresh(r, el)
  <1>1. CASE ~s.valid
    <2>1. r = s
      BY <1>1 DEF Line!update_oia_elements
    <2> QED BY <1>1, <2>1 DEF Fixed, SameStatus, SameClock, SameFlags, Keeps, Fresh
  <1>2. CASE s.valid
    <2> DEFINE painted == [el \in Line!Elements |-> IF el \in els THEN Line!Drawn(s, el) ELSE s.painted[el]]
               words == IF "MESSAGE_AREA" \in els THEN Line!oia_message_area(s) ELSE s.text
    <2>1. r = Painting(s, painted, words)
      BY <1>2 DEF Line!update_oia_elements, Painting
    <2>2. painted \in [Line!Elements -> Signs]
      BY SignDrawn DEF Area, Typed, Fields
    <2>3. words \in Texted
      BY DEF Area, Typed, Fields, Line!oia_message_area, Texted
    <2>4. Line!oia_message_area([s EXCEPT !.text = words]) = Line!oia_message_area(s)
      BY DEF Line!oia_message_area, Area, Typed, Fields, Texted
    <2>5. s.msg \notin Line!Textless \/ words = s.text
      BY DEF Line!oia_message_area
    <2> HIDE DEF painted, words
    <2>6. /\ Area(r) /\ Fixed(r, s) /\ SameStatus(r, s) /\ SameClock(r, s) /\ SameFlags(r, s)
          /\ r.kybdlock = s.kybdlock /\ r.painted = painted /\ r.text = words /\ r.valid
      <3>1. Area(r)
        <4>1. r = [f \in Fields |-> r[f]]
          BY <2>1 DEF Painting, Area
        <4>2. r.painted = painted /\ r.text = words
          BY <2>1 DEF Painting, Area, Fields
        <4>3. \A f \in Fields \ {"painted", "text"} : r[f] = s[f]
          BY <2>1 DEF Painting, Area
        <4>4. Typed(s)
          BY DEF Area
        <4>5. Typed(r)
          BY ONLY <2>2, <2>3, <4>2, <4>3, <4>4 DEF Typed, Fields
        <4> QED BY <4>1, <4>5 DEF Area
      <3>2. Fixed(r, s)
        BY <2>1 DEF Painting, Area, Fields, Fixed
      <3>3. SameStatus(r, s) /\ SameClock(r, s) /\ SameFlags(r, s) /\ r.kybdlock = s.kybdlock
        BY <2>1 DEF Painting, Area, Fields, SameStatus, SameClock, SameFlags
      <3>4. r.painted = painted /\ r.text = words
        BY <2>1 DEF Painting, Area, Fields
      <3> QED BY <1>2, <3>1, <3>2, <3>3, <3>4 DEF Fixed
    <2>7. Line!Drawn(r, "MESSAGE_AREA") = Line!Drawn(s, "MESSAGE_AREA")
      BY <2>5, <2>6 DEF Line!Drawn, Line!oia_message_area, SameStatus
    <2>8. \A el \in Line!Elements : Line!Drawn(r, el) = Line!Drawn(s, el)
      BY <2>6, <2>7, Depends DEF Line!Elements, Fixed, SameClock, SameFlags
    <2>9. \A el \in Line!Elements : painted[el] = IF el \in els THEN Line!Drawn(s, el) ELSE s.painted[el]
      BY DEF painted
    <2> QED BY <1>2, <2>6, <2>8, <2>9 DEF Keeps, Fresh
  <1> QED BY <1>1, <1>2 DEF Area, Typed, Fields

(* One element painted after what it shows has changed.                       *)
LEMMA Repainted ==
    ASSUME NEW s, NEW u, Area(u), NEW el \in Line!Elements,
           u.painted = s.painted, u.valid = s.valid,
           \A x \in Line!Elements \ {el} : Line!Drawn(u, x) = Line!Drawn(s, x),
           NEW r, r = Line!update_oia_element(u, el)
    PROVE  /\ Area(r) /\ Fixed(r, u) /\ SameStatus(r, u) /\ SameClock(r, u) /\ SameFlags(r, u)
           /\ r.kybdlock = u.kybdlock
           /\ Keeps(r, s) /\ Fresh(r, el)
  <1>1. /\ Area(r) /\ Fixed(r, u) /\ SameStatus(r, u) /\ SameClock(r, u) /\ SameFlags(r, u)
        /\ r.kybdlock = u.kybdlock /\ Keeps(r, u) /\ Fresh(r, el)
    BY Painted DEF Line!update_oia_element
  <1>2. \A x \in Line!Elements \ {el} : Fresh(s, x) => Fresh(u, x)
    BY DEF Fresh
  <1> QED BY <1>1, <1>2 DEF Keeps

(* What is not shown may change.                                              *)
LEMMA Unseen ==
    ASSUME NEW s, NEW r, r.cstate = s.cstate, r.flag = s.flag, r.msg = s.msg, r.text = s.text,
           r.secure_connection = s.secure_connection, r.valid_certificate = s.valid_certificate, r.shift = s.shift, r.insert = s.insert,
           r.script = s.script, r.script_blink = s.script_blink, r.connected_lu = s.connected_lu,
           r.timer = s.timer, r.cursor_position = s.cursor_position, r.cursor_pos = s.cursor_pos,
           r.painted = s.painted, r.valid = s.valid
    PROVE  Keeps(r, s)
  <1>1. \A x \in Line!Elements : Line!Drawn(r, x) = Line!Drawn(s, x)
    BY Depends DEF Line!Elements
  <1> QED BY <1>1 DEF Keeps, Fresh

-----------------------------------------------------------------------------
(* What the library says. *)

Heard(s) == s.msg \notin Line!Textless => s.told = s.msg

(* set_status_code (oia.c) paints the message as it sets it, unless it is one *)
(* without a text, and keeps everything else.                                 *)
LEMMA CodeSet ==
    ASSUME NEW s, Area(s), Heard(s), NEW id \in Statuses, NEW r, r = Line!SetStatusCode(s, id)
    PROVE  /\ Area(r) /\ Fixed(r, s) /\ SameClock(r, s) /\ SameFlags(r, s) /\ Keeps(r, s)
           /\ r.kybdlock = s.kybdlock /\ r.oia_status = s.oia_status /\ r.msg = id
           /\ r.told = IF id \in Line!Textless THEN s.told ELSE id
  <1>1. CASE s.msg = id
    <2>1. r = s
      BY <1>1 DEF Line!SetStatusCode
    <2> QED BY <1>1, <2>1 DEF Heard, Fixed, SameClock, SameFlags, Keeps
  <1>2. CASE s.msg # id
    <2> DEFINE told == IF id \in Line!Textless THEN s.told ELSE id
               u == [s EXCEPT !.msg = id, !.told = told]
    <2>1. told \in Texted
      BY DEF Area, Typed, Texted
    <2>2. r = Line!update_oia_element(u, "MESSAGE_AREA")
      BY <1>2 DEF Line!SetStatusCode
    <2> HIDE DEF told
    <2>3. /\ Area(u) /\ u.msg = id /\ u.told = told /\ u.oia_status = s.oia_status
          /\ u.kybdlock = s.kybdlock /\ u.painted = s.painted
      BY <2>1 DEF Area, Typed, Fields
    <2>4. Fixed(u, s) /\ SameClock(u, s) /\ SameFlags(u, s)
      BY DEF Area, Fields, Fixed, SameClock, SameFlags
    <2> HIDE DEF u
    <2>5. \A x \in Line!Elements \ {"MESSAGE_AREA"} : Line!Drawn(u, x) = Line!Drawn(s, x)
      BY <2>4, Depends DEF Line!Elements, Fixed, SameClock, SameFlags
    <2>6. u.valid = s.valid /\ "MESSAGE_AREA" \in Line!Elements
      BY <2>4 DEF Fixed, Line!Elements
    <2>7. /\ Area(r) /\ Fixed(r, u) /\ SameStatus(r, u) /\ SameClock(r, u) /\ SameFlags(r, u)
          /\ r.kybdlock = u.kybdlock /\ Keeps(r, s)
      BY <2>2, <2>3, <2>5, <2>6, Repainted
    <2> QED BY <2>3, <2>4, <2>7 DEF Fixed, SameClock, SameFlags, SameStatus, told
  <1> QED BY <1>1, <1>2

(* A status of the library.                                                   *)
LEMMA StatusChanged ==
    ASSUME NEW s, Sound(s), NEW id \in Statuses, NEW r, r = Line!status_changed(s, id)
    PROVE  /\ Steady(r, s) /\ SameClock(r, s) /\ SameFlags(r, s) /\ r.kybdlock = s.kybdlock
           /\ r.oia_status = id /\ r.msg = id
           /\ r.told = IF id \in Line!Textless THEN s.told ELSE id
  <1>1. CASE s.oia_status = id
    <2>1. r = s /\ id # "none"
      BY <1>1 DEF Line!status_changed, Statuses
    <2> QED BY <1>1, <2>1, SteadyItself DEF Sound, Told, SameClock, SameFlags
  <1>2. CASE s.oia_status # id
    <2> DEFINE u == [s EXCEPT !.oia_status = id]
    <2>1. r = Line!SetStatusCode(u, id)
      BY <1>2 DEF Line!status_changed
    <2>2. /\ Area(u) /\ u.msg = s.msg /\ u.told = s.told /\ u.oia_status = id
          /\ u.kybdlock = s.kybdlock /\ u.painted = s.painted /\ u.text = s.text
      BY DEF Sound, Area, Typed, Fields
    <2>3. Fixed(u, s) /\ SameClock(u, s) /\ SameFlags(u, s)
      BY DEF Sound, Area, Fields, Fixed, SameClock, SameFlags
    <2> HIDE DEF u
    <2>4. Keeps(u, s)
      BY <2>2, <2>3, Unseen DEF Fixed, SameClock, SameFlags
    <2>5. /\ Area(r) /\ Fixed(r, u) /\ SameClock(r, u) /\ SameFlags(r, u) /\ Keeps(r, u)
          /\ r.kybdlock = u.kybdlock /\ r.oia_status = u.oia_status /\ r.msg = id
          /\ r.told = IF id \in Line!Textless THEN u.told ELSE id
      BY <2>1, <2>2, CodeSet DEF Sound, Told, Heard
    <2>6. SameClock(r, s) /\ SameFlags(r, s) /\ Fixed(r, s) /\ Keeps(r, s)
      BY <2>3, <2>4, <2>5 DEF SameClock, SameFlags, Fixed, Keeps
    <2>7. Sound(r) /\ r.oia_status # "none"
      BY <2>2, <2>5, <2>6 DEF Sound, Told, Spins, SameClock, Statuses
    <2> QED BY <2>2, <2>5, <2>6, <2>7 DEF Steady
  <1> QED BY <1>1, <1>2

(* A flag of the library's.                                                   *)
LEMMA FlagSet ==
    ASSUME NEW s, Sound(s), NEW flag \in Line!Flags, NEW on \in BOOLEAN,
           NEW r, r = Line!set_status(s, flag, on)
    PROVE  /\ Steady(r, s) /\ SameClock(r, s) /\ SameStatus(r, s) /\ r.kybdlock = s.kybdlock
           /\ \A f \in Line!Flags : r.flag[f] = IF f = flag THEN on ELSE s.flag[f]
           /\ r.insert = s.insert /\ Fresh(r, Line!ElementOf(flag))
  <1> DEFINE u == [s EXCEPT !.flag[flag] = on]
             el == Line!ElementOf(flag)
  <1>1. r = Line!update_oia_element(u, el)
    BY DEF Line!set_status
  <1>2. /\ Area(u) /\ u.flag = [s.flag EXCEPT ![flag] = on] /\ u.insert = s.insert
        /\ u.kybdlock = s.kybdlock /\ u.painted = s.painted /\ u.text = s.text
    BY DEF Sound, Area, Typed, Fields
  <1>3. Fixed(u, s) /\ SameClock(u, s) /\ SameStatus(u, s)
    BY DEF Sound, Area, Fields, Fixed, SameClock, SameStatus
  <1>4. s.flag \in [Line!Flags -> BOOLEAN]
    BY DEF Sound, Area, Typed
  <1> HIDE DEF u
  <1>5. \A f \in Line!Flags : u.flag[f] = IF f = flag THEN on ELSE s.flag[f]
    BY <1>2, <1>4
  <1>6. \A x \in Line!Elements \ {el} : Line!Drawn(u, x) = Line!Drawn(s, x)
    <2>1. /\ (flag = "UNDERA" => el = "UNDERA") /\ (flag = "BOXSOLID" => el = "CONNECTION_STATUS")
          /\ flag = "TYPEAHEAD" => el = "TYPEAHEAD_INDICATOR"
      BY DEF Line!ElementOf
    <2> HIDE DEF el
    <2>2. /\ el # "UNDERA" => u.flag["UNDERA"] = s.flag["UNDERA"]
          /\ el # "CONNECTION_STATUS" => u.flag["BOXSOLID"] = s.flag["BOXSOLID"]
          /\ el # "TYPEAHEAD_INDICATOR" => u.flag["TYPEAHEAD"] = s.flag["TYPEAHEAD"]
      BY <1>5, <2>1 DEF Line!Flags
    <2> SUFFICES ASSUME NEW x \in Line!Elements \ {el} PROVE Line!Drawn(u, x) = Line!Drawn(s, x)
      OBVIOUS
    <2>3. CASE x = "UNDERA"
      BY <1>3, <2>2, <2>3, Depends DEF Fixed
    <2>4. CASE x = "CONNECTION_STATUS"
      BY <1>3, <2>2, <2>4, Depends DEF Fixed
    <2>5. CASE x = "TYPEAHEAD_INDICATOR"
      BY <2>2, <2>5, Depends
    <2>6. CASE x \notin {"UNDERA", "CONNECTION_STATUS", "TYPEAHEAD_INDICATOR"}
      BY <1>2, <1>3, <2>6, Depends DEF Line!Elements, Fixed, SameClock, SameStatus
    <2> QED BY <2>3, <2>4, <2>5, <2>6
  <1>7. el \in Line!Elements /\ u.valid = s.valid
    BY <1>3 DEF Line!Elements, Line!Flags, Line!ElementOf, Fixed
  <1> HIDE DEF el
  <1>8. /\ Area(r) /\ Fixed(r, u) /\ SameStatus(r, u) /\ SameClock(r, u) /\ SameFlags(r, u)
        /\ r.kybdlock = u.kybdlock /\ Keeps(r, s) /\ Fresh(r, el)
    BY <1>1, <1>2, <1>6, <1>7, Repainted
  <1>9. Sound(r)
    BY <1>3, <1>8 DEF Sound, Told, Spins, SameClock, SameStatus
  <1> QED BY <1>2, <1>3, <1>5, <1>8, <1>9 DEF Steady, Fixed, SameClock, SameStatus, SameFlags, el

(* The insert mode, and the end of typing ahead.                              *)
LEMMA InsertSet ==
    ASSUME NEW s, Sound(s), NEW on \in BOOLEAN, NEW r, r = Line!set_insert(s, on)
    PROVE  /\ Steady(r, s) /\ SameClock(r, s) /\ SameStatus(r, s) /\ r.kybdlock = s.kybdlock
           /\ r.flag = s.flag
  <1> DEFINE u == [s EXCEPT !.insert = on]
  <1>1. r = Line!update_oia_element(u, "INSERT_INDICATOR")
    BY DEF Line!set_insert
  <1>2. /\ Area(u) /\ u.flag = s.flag /\ u.kybdlock = s.kybdlock /\ u.painted = s.painted
        /\ u.text = s.text
    BY DEF Sound, Area, Typed, Fields
  <1>3. Fixed(u, s) /\ SameClock(u, s) /\ SameStatus(u, s)
    BY DEF Sound, Area, Fields, Fixed, SameClock, SameStatus
  <1> HIDE DEF u
  <1>4. \A x \in Line!Elements \ {"INSERT_INDICATOR"} : Line!Drawn(u, x) = Line!Drawn(s, x)
    BY <1>2, <1>3, Depends DEF Line!Elements, Fixed, SameClock, SameStatus
  <1>5. "INSERT_INDICATOR" \in Line!Elements /\ u.valid = s.valid
    BY <1>3 DEF Line!Elements, Fixed
  <1>6. /\ Area(r) /\ Fixed(r, u) /\ SameStatus(r, u) /\ SameClock(r, u) /\ SameFlags(r, u)
        /\ r.kybdlock = u.kybdlock /\ Keeps(r, s)
    BY <1>1, <1>2, <1>4, <1>5, Repainted
  <1>7. Sound(r)
    BY <1>3, <1>6 DEF Sound, Told, Spins, SameClock, SameStatus
  <1> QED BY <1>2, <1>3, <1>6, <1>7 DEF Steady, Fixed, SameClock, SameStatus, SameFlags

(* flush_ta (kybd.c) turns off the sign of keys typed ahead, and touches      *)
(* neither lock nor clock.                                                    *)
LEMMA TypeaheadFlushed ==
    ASSUME NEW s, Sound(s), NEW r, r = Line!flush_ta(s)
    PROVE  /\ Steady(r, s) /\ SameClock(r, s) /\ SameStatus(r, s) /\ r.kybdlock = s.kybdlock
           /\ r.flag["BOXSOLID"] = s.flag["BOXSOLID"]
  <1>1. "TYPEAHEAD" \in Line!Flags /\ "BOXSOLID" \in Line!Flags /\ s.flag \in [Line!Flags -> BOOLEAN]
    BY DEF Line!Flags, Sound, Area, Typed
  <1> DEFINE no == FALSE
  <1>2. r = Line!set_status(s, "TYPEAHEAD", no) /\ no \in BOOLEAN
    BY DEF Line!flush_ta
  <1> HIDE DEF no
  <1>3. /\ Steady(r, s) /\ SameClock(r, s) /\ SameStatus(r, s) /\ r.kybdlock = s.kybdlock
        /\ \A f \in Line!Flags : r.flag[f] = IF f = "TYPEAHEAD" THEN no ELSE s.flag[f]
    BY <1>1, <1>2, FlagSet
  <1> QED BY <1>1, <1>3

-----------------------------------------------------------------------------
(* The lock of the keyboard. *)

(* A change of the lock word alone shows nowhere until status_reset reads it. *)
LEMMA LockBecomes ==
    ASSUME NEW s, Sound(s), NEW lock, lock \subseteq Line!Locks, NEW r, r = [s EXCEPT !.kybdlock = lock]
    PROVE  /\ Steady(r, s) /\ SameClock(r, s) /\ SameFlags(r, s) /\ SameStatus(r, s)
           /\ r.kybdlock = lock
  <1>1. /\ Area(r) /\ r.kybdlock = lock /\ r.painted = s.painted /\ r.text = s.text
    BY DEF Sound, Area, Typed, Fields
  <1>2. Fixed(r, s) /\ SameClock(r, s) /\ SameFlags(r, s) /\ SameStatus(r, s)
    BY DEF Sound, Area, Fields, Fixed, SameClock, SameFlags, SameStatus
  <1>4. Keeps(r, s)
    BY <1>1, <1>2, Unseen DEF Fixed, SameClock, SameFlags, SameStatus
  <1>5. Sound(r)
    BY <1>1, <1>2 DEF Sound, Told, Spins, SameClock, SameStatus
  <1> QED BY <1>1, <1>2, <1>4, <1>5 DEF Steady, SameStatus

(* What the lock's changes leave alone.                                       *)
Quiet(r, s) == Steady(r, s) /\ SameClock(r, s) /\ SameFlags(r, s)

(* One quiet step after another is quiet.                                     *)
LEMMA QuietChained ==
    ASSUME NEW s, NEW u, NEW r, Quiet(u, s), Quiet(r, u)
    PROVE  Quiet(r, s)
  BY Chained DEF Quiet, SameClock, SameFlags

(* Doing nothing is quiet.                                                    *)
LEMMA QuietItself ==
    ASSUME NEW s, Sound(s) PROVE Quiet(s, s)
  BY SteadyItself DEF Quiet, SameClock, SameFlags

(* kybdlock_set (kybd.c) adds its bits, and changes nothing of clock and      *)
(* flags.                                                                     *)
LEMMA LockSet ==
    ASSUME NEW s, Sound(s), NEW bits, bits \subseteq Line!Locks, NEW r, r = Line!kybdlock_set(s, bits)
    PROVE  Quiet(r, s) /\ r.kybdlock = s.kybdlock \cup bits /\ r.told = s.told
  <1>1. CASE bits \subseteq s.kybdlock
    <2>1. r = s
      BY <1>1 DEF Line!kybdlock_set
    <2> QED BY <1>1, <2>1, QuietItself
  <1>2. CASE ~(bits \subseteq s.kybdlock)
    <2> DEFINE lock == s.kybdlock \cup bits
               u == [s EXCEPT !.kybdlock = lock]
    <2>1. lock \subseteq Line!Locks
      BY DEF Sound, Area, Typed
    <2>2. r = Line!status_changed(u, "KYBDLOCK")
      BY <1>2 DEF Line!kybdlock_set
    <2> HIDE DEF lock
    <2>3. Quiet(u, s) /\ SameStatus(u, s) /\ u.kybdlock = lock
      BY <2>1, LockBecomes DEF Quiet
    <2> HIDE DEF u
    <2>4. Quiet(r, u) /\ r.kybdlock = u.kybdlock /\ r.told = u.told
      BY <2>2, <2>3, StatusChanged DEF Quiet, Steady, Statuses, Line!Textless
    <2> QED BY <2>3, <2>4, QuietChained DEF SameStatus, lock
  <1> QED BY <1>1, <1>2

(* kybdlock_clr (kybd.c) removes its bits, and changes nothing of clock and   *)
(* flags.                                                                     *)
LEMMA LockCleared ==
    ASSUME NEW s, Sound(s), NEW bits, NEW r, r = Line!kybdlock_clr(s, bits)
    PROVE  Quiet(r, s) /\ r.kybdlock = s.kybdlock \ bits /\ r.told = s.told
  <1>1. CASE bits \cap s.kybdlock = {}
    <2>1. r = s
      BY <1>1 DEF Line!kybdlock_clr
    <2>2. s.kybdlock = s.kybdlock \ bits
      BY <1>1
    <2> QED BY <2>1, <2>2, QuietItself
  <1>2. CASE bits \cap s.kybdlock # {}
    <2> DEFINE lock == s.kybdlock \ bits
               u == [s EXCEPT !.kybdlock = lock]
    <2>1. lock \subseteq Line!Locks
      BY DEF Sound, Area, Typed
    <2>2. r = Line!status_changed(u, "KYBDLOCK")
      BY <1>2 DEF Line!kybdlock_clr
    <2> HIDE DEF lock
    <2>3. Quiet(u, s) /\ SameStatus(u, s) /\ u.kybdlock = lock
      BY <2>1, LockBecomes DEF Quiet
    <2> HIDE DEF u
    <2>4. Quiet(r, u) /\ r.kybdlock = u.kybdlock /\ r.told = u.told
      BY <2>2, <2>3, StatusChanged DEF Quiet, Steady, Statuses, Line!Textless
    <2> QED BY <2>3, <2>4, QuietChained DEF SameStatus, lock
  <1> QED BY <1>1, <1>2

(* The text that goes with a lock.                                            *)
Text(lock) == IF "ENTER_INHIBIT" \in lock THEN "INHIBIT"
              ELSE IF "DEFERRED_UNLOCK" \in lock THEN "X" ELSE "BLANK"

(* status_reset (ctlr.c) has the message that the lock asks for shown.        *)
LEMMA StatusReset ==
    ASSUME NEW s, Sound(s), NEW r, r = Line!status_reset(s)
    PROVE  Quiet(r, s) /\ r.kybdlock = s.kybdlock /\ r.told = Text(s.kybdlock)
  <1> DEFINE id == Text(s.kybdlock)
  <1>1. id \in Statuses /\ id \notin Line!Textless
    BY DEF Text, Statuses, Line!Textless
  <1>2. r = Line!status_changed(s, id)
    BY DEF Line!status_reset, Text
  <1> HIDE DEF id
  <1> QED BY <1>1, <1>2, StatusChanged DEF Quiet, id

(* Set, the inhibition says so, unless something else locks the keyboard.     *)
LEMMA Inhibited ==
    ASSUME NEW s, Sound(s), NEW on \in BOOLEAN, NEW r, r = Line!kybd_inhibit(s, on)
    PROVE  /\ Quiet(r, s)
           /\ r.kybdlock = IF on THEN s.kybdlock \cup {"ENTER_INHIBIT"} ELSE s.kybdlock \ {"ENTER_INHIBIT"}
           /\ r.told = IF on /\ r.kybdlock = {"ENTER_INHIBIT"} THEN "INHIBIT"
                       ELSE IF ~on /\ r.kybdlock = {} THEN "BLANK" ELSE s.told
  <1> DEFINE bits == {"ENTER_INHIBIT"}
  <1>1. bits \subseteq Line!Locks
    BY DEF Line!Locks
  <1>2. CASE on
    <2> DEFINE u == Line!kybdlock_set(s, bits)
    <2>1. Quiet(u, s) /\ u.kybdlock = s.kybdlock \cup bits /\ u.told = s.told
      BY <1>1, LockSet
    <2>2. r = IF u.kybdlock = {"ENTER_INHIBIT"} THEN Line!status_reset(u) ELSE u
      BY <1>2 DEF Line!kybd_inhibit
    <2> HIDE DEF u
    <2>3. CASE u.kybdlock = {"ENTER_INHIBIT"}
      <3>1. Quiet(r, u) /\ r.kybdlock = u.kybdlock /\ r.told = Text(u.kybdlock)
        BY <2>1, <2>2, <2>3, StatusReset DEF Quiet, Steady
      <3> QED BY <1>2, <2>1, <2>3, <3>1, QuietChained DEF Text
    <2>4. CASE u.kybdlock # {"ENTER_INHIBIT"}
      BY <1>2, <2>1, <2>2, <2>4
    <2> QED BY <2>3, <2>4
  <1>3. CASE ~on
    <2> DEFINE u == Line!kybdlock_clr(s, bits)
    <2>1. Quiet(u, s) /\ u.kybdlock = s.kybdlock \ bits /\ u.told = s.told
      BY LockCleared
    <2>2. r = IF u.kybdlock = {} THEN Line!status_reset(u) ELSE u
      BY <1>3 DEF Line!kybd_inhibit
    <2> HIDE DEF u
    <2>3. CASE u.kybdlock = {}
      <3>1. Quiet(r, u) /\ r.kybdlock = u.kybdlock /\ r.told = Text(u.kybdlock)
        BY <2>1, <2>2, <2>3, StatusReset DEF Quiet, Steady
      <3> QED BY <1>3, <2>1, <2>3, <3>1, QuietChained DEF Text
    <2>4. CASE u.kybdlock # {}
      BY <1>3, <2>1, <2>2, <2>4
    <2> QED BY <2>3, <2>4
  <1> QED BY <1>2, <1>3

-----------------------------------------------------------------------------
(* The clock. *)

(* oia_set_timer paints the seconds it sets, and has a spinner run for them.  *)
LEMMA TimerSet ==
    ASSUME AreaAssumption, NEW s, Sound(s), NEW seconds \in -1 .. MaxTime,
           NEW r, r = Line!oia_set_timer(s, seconds)
    PROVE  /\ Steady(r, s) /\ SameFlags(r, s) /\ SameStatus(r, s) /\ r.kybdlock = s.kybdlock
           /\ r.ticking = s.ticking /\ r.mticking = s.mticking /\ r.timer = seconds
  <1>1. CASE seconds >= 0 /\ seconds = s.timer
    <2>1. r = s
      BY <1>1 DEF Line!oia_set_timer
    <2> QED BY <1>1, <2>1, SteadyItself DEF SameFlags, SameStatus
  <1>2. CASE ~(seconds >= 0 /\ seconds = s.timer)
    <2> DEFINE ended == [s EXCEPT !.timer = -1]
               spinners == IF s.timer < 0 THEN s.spinners + 1 ELSE s.spinners
               begun == [s EXCEPT !.timer = seconds, !.spinners = spinners]
               u == IF seconds < 0 THEN ended ELSE begun
    <2>1. MaxTime \in Nat /\ s.timer \in -1 .. MaxTime /\ s.spinners \in Nat /\ Spins(s)
      BY DEF AreaAssumption, Sound, Area, Typed
    <2>2. spinners \in Nat /\ spinners > 0
      BY <2>1 DEF Spins
    <2>3. r = Line!update_oia_element(u, "COMMAND_TIMER")
      BY <1>2 DEF Line!oia_set_timer
    <2> HIDE DEF spinners
    <2>4. ASSUME NEW v \in {ended, begun}
          PROVE  /\ Area(v) /\ v.painted = s.painted /\ v.text = s.text /\ v.kybdlock = s.kybdlock
                 /\ v.ticking = s.ticking /\ v.mticking = s.mticking
                 /\ Fixed(v, s) /\ SameFlags(v, s) /\ SameStatus(v, s)
      <3>1. CASE v = ended
        <4>1. -1 \in -1 .. MaxTime
          BY <2>1
        <4>2. /\ Area(v) /\ v.painted = s.painted /\ v.text = s.text /\ v.kybdlock = s.kybdlock
              /\ v.ticking = s.ticking /\ v.mticking = s.mticking
          BY <3>1, <4>1 DEF Sound, Area, Typed, Fields
        <4> QED BY <3>1, <4>2 DEF Sound, Area, Fields, Fixed, SameFlags, SameStatus
      <3>2. CASE v = begun
        <4>1. /\ Area(v) /\ v.painted = s.painted /\ v.text = s.text /\ v.kybdlock = s.kybdlock
              /\ v.ticking = s.ticking /\ v.mticking = s.mticking
          BY <2>2, <3>2 DEF Sound, Area, Typed, Fields
        <4> QED BY <3>2, <4>1 DEF Sound, Area, Fields, Fixed, SameFlags, SameStatus
      <3> QED BY <2>4, <3>1, <3>2
    <2>5. u.timer = seconds /\ (seconds >= 0 => u.spinners > 0)
      <3>1. ended.timer = -1 /\ begun.timer = seconds /\ begun.spinners = spinners
        BY DEF Sound, Area, Fields
      <3> HIDE DEF ended, begun
      <3> QED BY <2>1, <2>2, <3>1
    <2>6. /\ Area(u) /\ u.painted = s.painted /\ u.text = s.text /\ u.kybdlock = s.kybdlock
           /\ u.ticking = s.ticking /\ u.mticking = s.mticking
           /\ Fixed(u, s) /\ SameFlags(u, s) /\ SameStatus(u, s)
      <3>1. u \in {ended, begun}
        OBVIOUS
      <3> HIDE DEF ended, begun, u
      <3> QED BY <2>4, <3>1
    <2> HIDE DEF u
    <2>7. \A x \in Line!Elements \ {"COMMAND_TIMER"} : Line!Drawn(u, x) = Line!Drawn(s, x)
      BY <2>6, Depends DEF Line!Elements, Fixed, SameFlags, SameStatus
    <2>8. "COMMAND_TIMER" \in Line!Elements /\ u.valid = s.valid
      BY <2>6 DEF Line!Elements, Fixed
    <2>9. /\ Area(r) /\ Fixed(r, u) /\ SameStatus(r, u) /\ SameClock(r, u) /\ SameFlags(r, u)
          /\ r.kybdlock = u.kybdlock /\ Keeps(r, s)
      BY <2>3, <2>7, <2>8, <2>6, Repainted
    <2>10. Sound(r)
      BY <2>5, <2>9, <2>6 DEF Sound, Told, Spins, SameClock, SameStatus
    <2> QED BY <2>5, <2>9, <2>10, <2>6 DEF Steady, Fixed, SameClock, SameStatus, SameFlags
  <1> QED BY <1>1, <1>2

(* The clock's own state.                                                     *)
LEMMA TickingBecomes ==
    ASSUME NEW s, Sound(s), NEW ticking \in BOOLEAN, NEW mticking \in BOOLEAN,
           NEW r, r = [s EXCEPT !.ticking = ticking, !.mticking = mticking]
    PROVE  Steady(r, s) /\ SameFlags(r, s) /\ SameStatus(r, s) /\ r.kybdlock = s.kybdlock
  <1>1. /\ Area(r) /\ r.kybdlock = s.kybdlock /\ r.painted = s.painted /\ r.text = s.text
        /\ r.timer = s.timer /\ r.spinners = s.spinners
    BY DEF Sound, Area, Typed, Fields
  <1>2. Fixed(r, s) /\ SameFlags(r, s) /\ SameStatus(r, s)
    BY DEF Sound, Area, Fields, Fixed, SameFlags, SameStatus
  <1>4. Keeps(r, s)
    BY <1>1, <1>2, Unseen DEF Fixed, SameFlags, SameStatus
  <1>5. Sound(r)
    BY <1>1, <1>2 DEF Sound, Told, Spins, SameStatus
  <1> QED BY <1>1, <1>2, <1>4, <1>5 DEF Steady, SameStatus

(* What the clock leaves alone.                                               *)
Timed(r, s) == Steady(r, s) /\ SameFlags(r, s) /\ SameStatus(r, s) /\ r.kybdlock = s.kybdlock

(* status_untiming (ctlr.c) takes the seconds off the line.                   *)
LEMMA Untimed ==
    ASSUME AreaAssumption, NEW s, Sound(s), NEW r, r = Line!status_untiming(s)
    PROVE  Timed(r, s)
  <1> DEFINE none == -1
  <1>1. none \in -1 .. MaxTime
    BY DEF AreaAssumption
  <1>2. r = Line!oia_set_timer(s, none)
    BY DEF Line!status_untiming
  <1> HIDE DEF none
  <1> QED BY <1>1, <1>2, TimerSet DEF Timed

(* ticking_start (ctlr.c) is a step of the clock alone.                       *)
LEMMA TickingStarted ==
    ASSUME AreaAssumption, NEW s, Sound(s), NEW r, r = Line!ticking_start(s)
    PROVE  Timed(r, s)
  <1> DEFINE u == [s EXCEPT !.mticking = TRUE]
             v == Line!status_untiming(u)
  <1>1. Timed(u, s)
    <2>1. u = [s EXCEPT !.ticking = s.ticking, !.mticking = TRUE] /\ s.ticking \in BOOLEAN
      BY DEF Sound, Area, Typed, Fields
    <2> HIDE DEF u
    <2> QED BY <2>1, TickingBecomes DEF Timed
  <1>2. r = IF ShowTiming THEN [v EXCEPT !.ticking = TRUE] ELSE u
    BY DEF Line!ticking_start
  <1> HIDE DEF u
  <1>3. Timed(v, u)
    BY <1>1, Untimed DEF Timed, Steady
  <1> HIDE DEF v
  <1>4. ASSUME NEW w, w = [v EXCEPT !.ticking = TRUE] PROVE Timed(w, v)
    <2> DEFINE yes == TRUE
    <2>1. Sound(v) /\ yes \in BOOLEAN
      BY <1>3 DEF Timed, Steady
    <2>2. w = [v EXCEPT !.ticking = yes, !.mticking = v.mticking] /\ v.mticking \in BOOLEAN
      BY <1>4, <2>1 DEF Sound, Area, Typed, Fields
    <2> HIDE DEF yes
    <2> QED BY <2>1, <2>2, TickingBecomes DEF Timed
  <1> QED BY <1>1, <1>2, <1>3, <1>4, Chained DEF Timed, SameFlags, SameStatus

(* ... and so is ticking_stop, whatever seconds it leaves on the line.        *)
LEMMA TickingStopped ==
    ASSUME AreaAssumption, NEW s, Sound(s), NEW seconds \in 0 .. MaxTime,
           NEW r, r = Line!ticking_stop(s, seconds)
    PROVE  Timed(r, s)
  <1> DEFINE u == [s EXCEPT !.mticking = FALSE]
             v == [s EXCEPT !.mticking = FALSE, !.ticking = FALSE]
  <1>1. Timed(u, s) /\ Timed(v, s)
    <2>1. u = [s EXCEPT !.ticking = s.ticking, !.mticking = FALSE] /\ s.ticking \in BOOLEAN
      BY DEF Sound, Area, Typed, Fields
    <2>2. v = [s EXCEPT !.ticking = FALSE, !.mticking = FALSE]
      BY DEF Sound, Area, Typed, Fields
    <2> HIDE DEF u, v
    <2> QED BY <2>1, <2>2, TickingBecomes DEF Timed
  <1>2. r \in {s, u, Line!oia_set_timer(v, seconds)}
    BY DEF Line!ticking_stop
  <1> HIDE DEF u, v
  <1>3. Timed(s, s)
    BY SteadyItself DEF Timed, SameFlags, SameStatus
  <1>4. seconds \in -1 .. MaxTime
    OBVIOUS
  <1>5. Timed(Line!oia_set_timer(v, seconds), v)
    BY <1>1, <1>4, TimerSet DEF Timed, Steady
  <1> QED BY <1>1, <1>2, <1>3, <1>5, Chained DEF Timed, SameFlags, SameStatus

-----------------------------------------------------------------------------
(* Resets and connections. *)

Box(s) == s.flag["BOXSOLID"]

(* A reset frees the keyboard, delays that, or leaves the lock as it is.      *)
LEMMA ResetDone ==
    ASSUME NEW s, Sound(s), NEW explicit \in BOOLEAN, NEW r, r = Line!do_reset(s, explicit)
    PROVE  /\ Steady(r, s) /\ Box(r) = Box(s)
           /\ \/ SameStatus(r, s) /\ r.kybdlock = s.kybdlock
              \/ /\ Line!Connected(s) /\ r.told = Text(r.kybdlock)
                 /\ \/ r.kybdlock \in {{}, {"DEFERRED_UNLOCK"}}
                    \/ /\ r.kybdlock = s.kybdlock
                       /\ s.kybdlock \cap {"DEFERRED_UNLOCK", "OIA_TWAIT", "OIA_LOCKED", "AWAITING_FIRST"} = {}
  <1> DEFINE no == FALSE
             u == Line!set_insert(s, no)
             freed == Line!kybdlock_clr(u, Line!Locks)
             others == Line!Locks \ {"DEFERRED_UNLOCK"}
             rest == Line!kybdlock_clr(u, others)
             deferred == {"DEFERRED_UNLOCK"}
             delayed == Line!kybdlock_set(rest, deferred)
             waits == {"DEFERRED_UNLOCK", "OIA_TWAIT", "OIA_LOCKED", "AWAITING_FIRST"}
             v == IF explicit THEN freed ELSE IF u.kybdlock \cap waits # {} THEN delayed ELSE u
  <1>1. r = IF explicit /\ s.flag["TYPEAHEAD"] THEN Line!flush_ta(s)
            ELSE IF ~Line!Connected(s) THEN u ELSE Line!status_reset(v)
    BY DEF Line!do_reset
  <1>2. no \in BOOLEAN /\ deferred \subseteq Line!Locks
    BY DEF Line!Locks
  <1> HIDE DEF no
  <1>3. /\ Steady(u, s) /\ SameClock(u, s) /\ SameStatus(u, s) /\ u.kybdlock = s.kybdlock
        /\ u.flag = s.flag
    BY <1>2, InsertSet
  <1>4. Sound(u) /\ u.kybdlock \subseteq Line!Locks
    BY <1>3 DEF Steady, Sound, Area, Typed
  <1> HIDE DEF u, others, deferred, waits
  <1>5. Quiet(freed, u) /\ freed.kybdlock = {}
    <2>1. Quiet(freed, u) /\ freed.kybdlock = u.kybdlock \ Line!Locks
      BY <1>4, LockCleared
    <2> QED BY <1>4, <2>1
  <1>6. Quiet(delayed, u) /\ delayed.kybdlock = {"DEFERRED_UNLOCK"}
    <2>1. Quiet(rest, u) /\ rest.kybdlock = u.kybdlock \ others
      BY <1>4, LockCleared
    <2> HIDE DEF rest
    <2>2. Quiet(delayed, rest) /\ delayed.kybdlock = rest.kybdlock \cup deferred
      BY <1>2, <2>1, LockSet DEF Quiet, Steady
    <2>3. rest.kybdlock \subseteq {"DEFERRED_UNLOCK"}
      BY <1>4, <2>1 DEF others
    <2> QED BY <2>1, <2>2, <2>3, QuietChained DEF deferred
  <1> HIDE DEF freed, delayed
  <1>7. Quiet(u, u)
    BY <1>4, QuietItself
  <1>8. /\ Quiet(v, u)
        /\ v.kybdlock \in {{}, {"DEFERRED_UNLOCK"}} \/ (v.kybdlock = u.kybdlock /\ u.kybdlock \cap waits = {})
    BY <1>5, <1>6, <1>7
  <1> HIDE DEF v
  <1>9. CASE explicit /\ s.flag["TYPEAHEAD"]
    BY <1>1, <1>9, TypeaheadFlushed DEF Box
  <1>10. CASE ~(explicit /\ s.flag["TYPEAHEAD"]) /\ ~Line!Connected(s)
    BY <1>1, <1>3, <1>10 DEF Box
  <1>11. CASE ~(explicit /\ s.flag["TYPEAHEAD"]) /\ Line!Connected(s)
    <2>1. Quiet(r, v) /\ r.kybdlock = v.kybdlock /\ r.told = Text(v.kybdlock)
      BY <1>1, <1>8, <1>11, StatusReset DEF Quiet, Steady
    <2>2. Quiet(r, u)
      BY <1>8, <2>1, QuietChained
    <2>3. Steady(r, s)
      BY <1>3, <2>2, Chained DEF Quiet
    <2>4. Box(r) = Box(s)
      BY <1>3, <2>2 DEF Quiet, SameFlags, Box
    <2> QED BY <1>3, <1>8, <1>11, <2>1, <2>3, <2>4 DEF waits
  <1> QED BY <1>9, <1>10, <1>11

(* The chain of callbacks of a connection, off line or at its beginning.      *)
LEMMA StatusConnected ==
    ASSUME NEW s, Sound(s), ~Line!In3270(s), NEW connected \in BOOLEAN,
           NEW r, r = Line!status_connect(s, connected)
    PROVE  /\ Steady(r, s) /\ r.oia_status # "none" /\ ~Box(r)
           /\ Fresh(r, "CONNECTION_STATUS") /\ Fresh(r, "SSL_STATE")
  <1> DEFINE no == FALSE
             u == Line!kybd_inhibit(s, no)
             box == connected /\ Line!In3270(u) /\ ~Line!InSscp(u)
             v == Line!set_status(u, "BOXSOLID", box)
             secure == connected /\ v.secure_connection
             w == Line!set_status(v, "SECURE", secure)
             id == IF ~connected THEN "DISCONNECTED"
                   ELSE IF "AWAITING_FIRST" \in w.kybdlock THEN "AWAITING_FIRST" ELSE "CONNECTED"
  <1>1. r = Line!status_changed(w, id)
    BY DEF Line!status_connect
  <1>2. no \in BOOLEAN
    OBVIOUS
  <1> HIDE DEF no
  <1>3. Quiet(u, s)
    BY <1>2, Inhibited
  <1> HIDE DEF u
  <1>4. box \in BOOLEAN /\ ~box
    BY <1>3 DEF Quiet, Steady, Fixed, Line!In3270
  <1> HIDE DEF box
  <1>5. /\ "BOXSOLID" \in Line!Flags /\ "SECURE" \in Line!Flags
        /\ Line!ElementOf("BOXSOLID") = "CONNECTION_STATUS" /\ Line!ElementOf("SECURE") = "SSL_STATE"
        /\ "CONNECTION_STATUS" \in Line!Elements /\ "SSL_STATE" \in Line!Elements
    BY DEF Line!Flags, Line!ElementOf, Line!Elements
  <1>6. Steady(v, u) /\ v.flag["BOXSOLID"] = box /\ Fresh(v, "CONNECTION_STATUS")
    <2>1. Sound(u) /\ box \in BOOLEAN /\ "BOXSOLID" \in Line!Flags
      BY <1>3, <1>4, <1>5 DEF Quiet, Steady
    <2>2. Steady(v, u) /\ v.flag["BOXSOLID"] = box /\ Fresh(v, Line!ElementOf("BOXSOLID"))
      BY ONLY <2>1, FlagSet DEF v
    <2> QED BY <1>5, <2>2
  <1> HIDE DEF v
  <1>7. secure \in BOOLEAN
    BY <1>6 DEF Steady, Sound, Area, Typed
  <1> HIDE DEF secure
  <1>8. Steady(w, v) /\ w.flag["BOXSOLID"] = v.flag["BOXSOLID"] /\ Fresh(w, "SSL_STATE")
    <2>1. /\ Sound(v) /\ secure \in BOOLEAN /\ "SECURE" \in Line!Flags /\ "BOXSOLID" \in Line!Flags
          /\ "SECURE" # "BOXSOLID"
      BY <1>5, <1>6, <1>7 DEF Steady
    <2>2. Steady(w, v) /\ w.flag["BOXSOLID"] = v.flag["BOXSOLID"] /\ Fresh(w, Line!ElementOf("SECURE"))
      BY ONLY <2>1, FlagSet DEF w
    <2> QED BY <1>5, <2>2
  <1>9. id \in Statuses
    BY DEF Statuses
  <1> HIDE DEF w, id
  <1>10. Steady(r, w) /\ SameFlags(r, w) /\ r.oia_status = id
    BY <1>1, <1>8, <1>9, StatusChanged DEF Steady
  <1>11. Steady(r, s)
    BY <1>3, <1>6, <1>8, <1>10, Chained DEF Quiet
  <1>12. Fresh(r, "CONNECTION_STATUS") /\ Fresh(r, "SSL_STATE")
    BY <1>5, <1>6, <1>8, <1>10 DEF Steady, Keeps
  <1> QED BY <1>4, <1>6, <1>8, <1>9, <1>10, <1>11, <1>12 DEF Box, SameFlags, Statuses

(* ctlr_connect (ctlr.c) stops the clock and may end a wait for the host; no  *)
(* other lock changes.                                                        *)
LEMMA CtlrConnected ==
    ASSUME AreaAssumption, NEW s, Sound(s), NEW seconds \in 0 .. MaxTime,
           NEW r, r = Line!ctlr_connect(s, seconds)
    PROVE  /\ Steady(r, s) /\ SameFlags(r, s)
           /\ r.kybdlock = s.kybdlock \/ r.kybdlock = s.kybdlock \ {"OIA_TWAIT"}
  <1> DEFINE u == Line!ticking_stop(s, seconds)
             v == Line!status_untiming(u)
             bits == {"OIA_TWAIT"}
             w == Line!kybdlock_clr(v, bits)
  <1>1. r = v \/ r = Line!status_reset(w)
    BY DEF Line!ctlr_connect
  <1>2. Timed(u, s)
    BY TickingStopped
  <1> HIDE DEF u
  <1>3. Timed(v, u)
    BY <1>2, Untimed DEF Timed, Steady
  <1>4. Steady(v, s) /\ SameFlags(v, s) /\ v.kybdlock = s.kybdlock
    BY <1>2, <1>3, Chained DEF Timed, SameFlags
  <1> HIDE DEF v, bits
  <1>5. Quiet(w, v) /\ w.kybdlock = v.kybdlock \ bits
    BY <1>4, LockCleared DEF Steady
  <1> HIDE DEF w
  <1>6. Quiet(Line!status_reset(w), w) /\ Line!status_reset(w).kybdlock = w.kybdlock
    BY <1>5, StatusReset DEF Quiet, Steady
  <1>7. Quiet(Line!status_reset(w), v)
    BY <1>5, <1>6, QuietChained
  <1> QED BY <1>1, <1>4, <1>5, <1>6, <1>7, Chained DEF Quiet, SameFlags, bits

(* kybd_connect (kybd.c) replaces the whole lock, by the one of a session's   *)
(* start or by that of none.                                                  *)
LEMMA KybdConnected ==
    ASSUME NEW s, Sound(s), NEW connected \in BOOLEAN, NEW r, r = Line!kybd_connect(s, connected)
    PROVE  /\ Steady(r, s) /\ Box(r) = Box(s)
           /\ r.kybdlock = IF connected THEN {"AWAITING_FIRST"} ELSE {"NOT_CONNECTED"}
  <1> DEFINE u == Line!kybdlock_clr(s, Line!Locks)
             first == {"AWAITING_FIRST"}
             none == {"NOT_CONNECTED"}
             v == Line!kybdlock_set(u, none)
  <1>1. r = IF connected THEN Line!kybdlock_set(u, first) ELSE Line!flush_ta(v)
    BY DEF Line!kybd_connect
  <1>2. first \subseteq Line!Locks /\ none \subseteq Line!Locks
    BY DEF Line!Locks
  <1>3. Quiet(u, s) /\ u.kybdlock = {}
    <2>1. Quiet(u, s) /\ u.kybdlock = s.kybdlock \ Line!Locks
      BY LockCleared
    <2> QED BY <2>1 DEF Sound, Area, Typed
  <1> HIDE DEF u, first, none
  <1>4. CASE connected
    <2>1. r = Line!kybdlock_set(u, first) /\ Sound(u)
      BY <1>1, <1>3, <1>4 DEF Quiet, Steady
    <2>3. Quiet(r, u) /\ r.kybdlock = u.kybdlock \cup first
      BY <1>2, <2>1, LockSet
    <2>2. Quiet(r, s)
      BY <1>3, <2>3, QuietChained
    <2> QED BY <1>3, <1>4, <2>2, <2>3 DEF Quiet, SameFlags, Box, first
  <1>5. CASE ~connected
    <2>1. Quiet(v, u) /\ v.kybdlock = u.kybdlock \cup none
      BY <1>2, <1>3, LockSet DEF Quiet, Steady
    <2> HIDE DEF v
    <2>2. Quiet(v, s)
      BY <1>3, <2>1, QuietChained
    <2>3. Steady(r, v) /\ r.kybdlock = v.kybdlock /\ r.flag["BOXSOLID"] = v.flag["BOXSOLID"]
      BY <1>1, <1>5, <2>2, TypeaheadFlushed DEF Quiet, Steady
    <2>4. Steady(r, s)
      BY <2>2, <2>3, Chained DEF Quiet
    <2> QED BY <1>3, <1>5, <2>1, <2>2, <2>3, <2>4 DEF Quiet, SameFlags, Box, none
  <1> QED BY <1>4, <1>5

(* connect_main paints the two elements the chain has not.                    *)
LEMMA MainConnected ==
    ASSUME NEW s, Sound(s), NEW r, r = Line!connect_main(s, TRUE)
    PROVE  /\ Steady(r, s) /\ SameFlags(r, s) /\ SameStatus(r, s) /\ r.kybdlock = s.kybdlock
           /\ Fresh(r, "CONNECTION_STATUS") /\ Fresh(r, "UNDERA")
  <1> DEFINE els == {"CONNECTION_STATUS", "UNDERA"}
  <1>1. r = Line!update_oia_elements(s, els) /\ els \subseteq Line!Elements
    BY DEF Line!connect_main, Line!Elements
  <1>2. "CONNECTION_STATUS" \in els /\ "UNDERA" \in els
    OBVIOUS
  <1> HIDE DEF els
  <1>3. /\ Area(r) /\ Fixed(r, s) /\ SameStatus(r, s) /\ SameClock(r, s) /\ SameFlags(r, s)
        /\ r.kybdlock = s.kybdlock
        /\ Keeps(r, s) /\ \A el \in els : Fresh(r, el)
    BY <1>1, Painted DEF Sound
  <1>4. Sound(r)
    BY <1>3 DEF Sound, Told, Spins, SameStatus, SameClock
  <1> QED BY <1>2, <1>3, <1>4 DEF Steady, SameStatus

(* Off line it says so first, which the library's own status follows.         *)
LEMMA MainDisconnected ==
    ASSUME NEW s, Sound(s), NEW u, u = Line!connect_main(s, FALSE),
           NEW r, r = Line!status_changed(u, "DISCONNECTED")
    PROVE  /\ Steady(r, s) /\ SameFlags(r, s) /\ r.kybdlock = s.kybdlock
           /\ r.msg = "DISCONNECTED" /\ r.oia_status = "DISCONNECTED"
           /\ Fresh(r, "CONNECTION_STATUS") /\ Fresh(r, "UNDERA")
  <1> DEFINE v == Line!SetStatusCode(s, "DISCONNECTED")
             els == {"CONNECTION_STATUS", "UNDERA"}
  <1>1. u = Line!update_oia_elements(v, els) /\ els \subseteq Line!Elements
    BY DEF Line!connect_main, Line!Elements
  <1>2. "CONNECTION_STATUS" \in els /\ "UNDERA" \in els
    OBVIOUS
  <1>3. "DISCONNECTED" \in Statuses /\ "DISCONNECTED" \notin Line!Textless
    BY DEF Statuses, Line!Textless
  <1> HIDE DEF els
  <1>4. /\ Area(v) /\ Fixed(v, s) /\ SameClock(v, s) /\ SameFlags(v, s) /\ Keeps(v, s)
        /\ v.kybdlock = s.kybdlock /\ v.msg = "DISCONNECTED" /\ v.told = "DISCONNECTED"
    <2> DEFINE id == "DISCONNECTED"
    <2>1. Heard(s) /\ Area(s) /\ id \in Statuses /\ v = Line!SetStatusCode(s, id)
      BY <1>3 DEF Heard, Sound, Told
    <2>2. id = "DISCONNECTED"
      OBVIOUS
    <2> HIDE DEF v, id
    <2> QED BY <1>3, <2>1, <2>2, CodeSet
  <1> HIDE DEF v
  <1>5. /\ Area(u) /\ Fixed(u, v) /\ SameStatus(u, v) /\ SameClock(u, v) /\ SameFlags(u, v)
        /\ u.kybdlock = v.kybdlock
        /\ Keeps(u, v) /\ \A el \in els : Fresh(u, el)
    BY <1>1, <1>4, Painted
  <1>6. Keeps(u, s) /\ SameClock(u, s) /\ SameFlags(u, s) /\ Fixed(u, s)
    BY <1>4, <1>5 DEF Keeps, SameClock, SameFlags, Fixed
  <1>7. CASE u.oia_status = "DISCONNECTED"
    <2>1. r = u
      BY <1>7 DEF Line!status_changed
    <2>2. Sound(r)
      BY <1>4, <1>5, <1>6, <1>7, <2>1 DEF Sound, Told, Spins, SameStatus, SameClock
    <2> QED BY <1>2, <1>4, <1>5, <1>6, <1>7, <2>1, <2>2 DEF Steady, SameStatus
  <1>8. CASE u.oia_status # "DISCONNECTED"
    <2> DEFINE w == [u EXCEPT !.oia_status = "DISCONNECTED"]
    <2>1. /\ Area(w) /\ w.oia_status = "DISCONNECTED" /\ w.msg = u.msg /\ w.told = u.told
          /\ w.kybdlock = u.kybdlock /\ w.painted = u.painted /\ w.text = u.text
      BY <1>3, <1>5 DEF Area, Typed, Fields
    <2>2. Fixed(w, u) /\ SameClock(w, u) /\ SameFlags(w, u)
      BY <1>5 DEF Area, Fields, Fixed, SameClock, SameFlags
    <2>3. r = Line!SetStatusCode(w, "DISCONNECTED")
      BY <1>8 DEF Line!status_changed
    <2> HIDE DEF w
    <2>4. r = w
      BY <1>4, <1>5, <2>1, <2>3 DEF Line!SetStatusCode, SameStatus
    <2>7. Keeps(r, u)
      BY <2>1, <2>2, <2>4, Unseen DEF Fixed, SameClock, SameFlags
    <2>5. Fixed(r, s) /\ SameClock(r, s) /\ SameFlags(r, s) /\ Keeps(r, s)
      BY <1>6, <2>2, <2>4, <2>7 DEF Fixed, SameClock, SameFlags, Keeps
    <2>6. Sound(r)
      BY <1>4, <1>5, <2>1, <2>4, <2>5 DEF Sound, Told, Spins, SameClock, SameStatus
    <2> QED BY <1>1, <1>2, <1>4, <1>5, <2>1, <2>4, <2>5, <2>6, <2>7 DEF Steady, Keeps, SameStatus
  <1> QED BY <1>7, <1>8

(* A connection is made.                                                      *)
LEMMA ChainConnected ==
    ASSUME AreaAssumption, NEW s, Sound(s), ~Line!In3270(s), NEW seconds \in 0 .. MaxTime,
           NEW r, r = Line!ST_CONNECT(s, TRUE, seconds)
    PROVE  /\ Steady(r, s) /\ ~Box(r) /\ r.kybdlock = {"AWAITING_FIRST"} /\ r.oia_status # "none"
           /\ Fresh(r, "CONNECTION_STATUS") /\ Fresh(r, "UNDERA") /\ Fresh(r, "SSL_STATE")
  <1> DEFINE yes == TRUE
             u == Line!status_connect(s, yes)
             v == Line!ctlr_connect(u, seconds)
             w == Line!kybd_connect(v, yes)
  <1>1. r = Line!connect_main(w, TRUE) /\ yes \in BOOLEAN /\ yes
    BY DEF Line!ST_CONNECT
  <1> HIDE DEF yes
  <1>2. Steady(u, s) /\ u.oia_status # "none" /\ ~Box(u) /\ Fresh(u, "SSL_STATE")
    BY <1>1, StatusConnected
  <1> HIDE DEF u
  <1>3. Steady(v, u) /\ SameFlags(v, u)
    BY <1>2, CtlrConnected DEF Steady
  <1> HIDE DEF v
  <1>4. Steady(w, v) /\ Box(w) = Box(v) /\ w.kybdlock = {"AWAITING_FIRST"}
    BY <1>1, <1>3, KybdConnected DEF Steady
  <1> HIDE DEF w
  <1>5. /\ Steady(r, w) /\ SameFlags(r, w) /\ SameStatus(r, w) /\ r.kybdlock = w.kybdlock
        /\ Fresh(r, "CONNECTION_STATUS") /\ Fresh(r, "UNDERA")
    BY <1>1, <1>4, MainConnected DEF Steady
  <1>6. Steady(r, s)
    BY <1>2, <1>3, <1>4, <1>5, Chained
  <1>7. Fresh(r, "SSL_STATE")
    BY <1>2, <1>3, <1>4, <1>5 DEF Steady, Keeps, Line!Elements
  <1> QED BY <1>2, <1>3, <1>4, <1>5, <1>6, <1>7 DEF Steady, SameFlags, Box

(* And it ends.                                                               *)
LEMMA ChainDisconnected ==
    ASSUME AreaAssumption, NEW s, Sound(s), ~Line!In3270(s), NEW seconds \in 0 .. MaxTime,
           NEW r, r = Line!status_changed(Line!ST_CONNECT(s, FALSE, seconds), "DISCONNECTED")
    PROVE  /\ Steady(r, s) /\ ~Box(r) /\ r.kybdlock = {"NOT_CONNECTED"}
           /\ r.msg = "DISCONNECTED" /\ r.oia_status = "DISCONNECTED"
           /\ Fresh(r, "CONNECTION_STATUS") /\ Fresh(r, "UNDERA") /\ Fresh(r, "SSL_STATE")
  <1> DEFINE no == FALSE
             u == Line!status_connect(s, no)
             v == Line!ctlr_connect(u, seconds)
             w == Line!kybd_connect(v, no)
             x == Line!connect_main(w, FALSE)
  <1>1. r = Line!status_changed(x, "DISCONNECTED") /\ no \in BOOLEAN /\ ~no
    BY DEF Line!ST_CONNECT
  <1> HIDE DEF no
  <1>2. Steady(u, s) /\ ~Box(u) /\ Fresh(u, "SSL_STATE")
    BY <1>1, StatusConnected
  <1> HIDE DEF u
  <1>3. Steady(v, u) /\ SameFlags(v, u)
    BY <1>2, CtlrConnected DEF Steady
  <1> HIDE DEF v
  <1>4. Steady(w, v) /\ Box(w) = Box(v) /\ w.kybdlock = {"NOT_CONNECTED"}
    BY <1>1, <1>3, KybdConnected DEF Steady
  <1> HIDE DEF w
  <1>5. /\ Steady(r, w) /\ SameFlags(r, w) /\ r.kybdlock = w.kybdlock
        /\ r.msg = "DISCONNECTED" /\ r.oia_status = "DISCONNECTED"
        /\ Fresh(r, "CONNECTION_STATUS") /\ Fresh(r, "UNDERA")
    BY <1>1, <1>4, MainDisconnected DEF Steady
  <1>6. Steady(r, s)
    BY <1>2, <1>3, <1>4, <1>5, Chained
  <1>7. Fresh(r, "SSL_STATE")
    BY <1>2, <1>3, <1>4, <1>5 DEF Steady, Keeps, Line!Elements
  <1> QED BY <1>2, <1>3, <1>4, <1>5, <1>6, <1>7 DEF Steady, SameFlags, Box

-----------------------------------------------------------------------------
(* The session's steps. *)

(* What the session's mode leaves alone.                                      *)
Aside(r, s) ==
    /\ r.connected_lu = s.connected_lu /\ r.attempt = s.attempt /\ r.start = s.start
    /\ r.valid = s.valid /\ r.updates = s.updates /\ r.cursor_position = s.cursor_position /\ r.cursor_pos = s.cursor_pos
    /\ r.script = s.script /\ r.script_blink = s.script_blink /\ r.blinks = s.blinks
    /\ r.shift = s.shift /\ r.on_lu_pid = s.on_lu_pid /\ r.children = s.children

(* The elements that show it.                                                 *)
ModeShown == {"UNDERA", "CONNECTION_STATUS", "SSL_STATE"}

KeepsOthers(r, s) == \A el \in Line!Elements \ ModeShown : Fresh(s, el) => Fresh(r, el)

(* What the others show does not depend on it.                                *)
LEMMA OthersShow ==
    ASSUME NEW s, NEW r, Aside(r, s), SameStatus(r, s), SameFlags(r, s), SameClock(r, s),
           r.painted = s.painted, r.text = s.text
    PROVE  /\ KeepsOthers(r, s)
           /\ /\ r.secure_connection = s.secure_connection /\ r.valid_certificate = s.valid_certificate
              /\ Fresh(s, "SSL_STATE")
              => Fresh(r, "SSL_STATE")
           /\ r.cstate = s.cstate => \A el \in {"UNDERA", "CONNECTION_STATUS"} : Fresh(s, el) => Fresh(r, el)
  <1>1. \A el \in Line!Elements \ ModeShown : Line!Drawn(r, el) = Line!Drawn(s, el)
    BY Depends DEF Line!Elements, ModeShown, Aside, SameStatus, SameFlags, SameClock
  <1>2. r.secure_connection = s.secure_connection /\ r.valid_certificate = s.valid_certificate =>
            Line!Drawn(r, "SSL_STATE") = Line!Drawn(s, "SSL_STATE")
    BY Depends
  <1>3. r.cstate = s.cstate =>
            \A el \in {"UNDERA", "CONNECTION_STATUS"} : Line!Drawn(r, el) = Line!Drawn(s, el)
    BY Depends DEF SameFlags
  <1> QED BY <1>1, <1>2, <1>3 DEF KeepsOthers, Fresh, Aside

(* A session of this mode, encrypted or not, with a certificate and a socket  *)
(* or without.                                                                *)
Moded(r, s, mode, tls, valid, sock) ==
    r = [s EXCEPT !.cstate = mode, !.secure_connection = tls, !.valid_certificate = valid, !.sock = sock]

(* A new mode of the session leaves the three elements that show it stale,    *)
(* and no other.                                                              *)
LEMMA SessionSet ==
    ASSUME NEW s, Sound(s), NEW mode \in Line!Modes, NEW tls \in BOOLEAN, NEW valid \in BOOLEAN,
           NEW sock \in BOOLEAN, NEW r, Moded(r, s, mode, tls, valid, sock)
    PROVE  /\ Sound(r) /\ Aside(r, s) /\ SameStatus(r, s) /\ SameFlags(r, s) /\ r.kybdlock = s.kybdlock
           /\ r.cstate = mode /\ r.secure_connection = tls /\ r.valid_certificate = valid /\ r.sock = sock
           /\ KeepsOthers(r, s)
           /\ tls = s.secure_connection /\ valid = s.valid_certificate /\ Fresh(s, "SSL_STATE") =>
                  Fresh(r, "SSL_STATE")
           /\ mode = s.cstate => \A el \in {"UNDERA", "CONNECTION_STATUS"} : Fresh(s, el) => Fresh(r, el)
  <1>1. /\ Area(r) /\ r.cstate = mode /\ r.secure_connection = tls /\ r.kybdlock = s.kybdlock
        /\ r.valid_certificate = valid /\ r.sock = sock /\ r.painted = s.painted /\ r.text = s.text
    BY DEF Moded, Sound, Area, Typed, Fields
  <1>2. Aside(r, s) /\ SameStatus(r, s) /\ SameFlags(r, s) /\ SameClock(r, s)
    BY DEF Moded, Sound, Area, Fields, Aside, SameStatus, SameFlags, SameClock
  <1>3. Sound(r)
    BY <1>1, <1>2 DEF Sound, Told, Spins, SameStatus, SameClock
  <1>4. /\ KeepsOthers(r, s)
        /\ /\ r.secure_connection = s.secure_connection /\ r.valid_certificate = s.valid_certificate
           /\ Fresh(s, "SSL_STATE")
           => Fresh(r, "SSL_STATE")
        /\ r.cstate = s.cstate => \A el \in {"UNDERA", "CONNECTION_STATUS"} : Fresh(s, el) => Fresh(r, el)
    BY <1>1, <1>2, OthersShow
  <1> QED BY <1>1, <1>2, <1>3, <1>4

(* Of this mode, and encrypted as before.                                     *)
LEMMA ModeAlone ==
    ASSUME NEW s, Sound(s), NEW mode \in Line!Modes, NEW r, r = [s EXCEPT !.cstate = mode]
    PROVE  /\ Sound(r) /\ Aside(r, s) /\ SameStatus(r, s) /\ r.kybdlock = s.kybdlock
           /\ r.cstate = mode /\ r.sock = s.sock /\ KeepsOthers(r, s)
           /\ Fresh(s, "SSL_STATE") => Fresh(r, "SSL_STATE")
  <1> DEFINE tls == s.secure_connection
             valid == s.valid_certificate
             sock == s.sock
  <1>1. /\ tls \in BOOLEAN /\ tls = s.secure_connection /\ valid \in BOOLEAN
        /\ valid = s.valid_certificate /\ sock \in BOOLEAN /\ sock = s.sock
    BY DEF Sound, Area, Typed
  <1>2. Moded(r, s, mode, tls, valid, sock)
    BY DEF Moded, Sound, Area, Fields
  <1> HIDE DEF tls, valid, sock
  <1> QED BY <1>1, <1>2, SessionSet

(* When the callbacks of host_connected are over, the elements that show the  *)
(* mode have been painted again.                                              *)
LEMMA HostConnected ==
    ASSUME AreaAssumption, NEW s, Sound(s), NEW seconds \in 0 .. MaxTime,
           NEW r, r = Line!host_connected(s, seconds)
    PROVE  /\ Sound(r) /\ Aside(r, s) /\ KeepsOthers(r, s) /\ \A el \in ModeShown : Fresh(r, el)
           /\ r.cstate = "CONNECTED_INITIAL" /\ r.kybdlock = {"AWAITING_FIRST"} /\ r.oia_status # "none"
  <1> DEFINE mode == "CONNECTED_INITIAL"
             u == [s EXCEPT !.cstate = mode]
  <1>1. r = Line!ST_CONNECT(u, TRUE, seconds) /\ u = [s EXCEPT !.cstate = mode]
    BY DEF Line!host_connected
  <1>2. mode \in Line!Modes /\ mode \notin {"CONNECTED_3270", "CONNECTED_TN3270E", "CONNECTED_SSCP"}
        /\ mode = "CONNECTED_INITIAL"
    BY DEF Line!Modes
  <1> HIDE DEF mode, u
  <1>8. Sound(u) /\ Aside(u, s) /\ u.cstate = mode /\ KeepsOthers(u, s)
    BY <1>1, <1>2, ModeAlone
  <1>4. ~Line!In3270(u)
    BY <1>2, <1>8 DEF Line!In3270
  <1>5. /\ Steady(r, u) /\ r.kybdlock = {"AWAITING_FIRST"} /\ r.oia_status # "none"
        /\ Fresh(r, "CONNECTION_STATUS") /\ Fresh(r, "UNDERA") /\ Fresh(r, "SSL_STATE")
    BY <1>1, <1>8, <1>4, ChainConnected
  <1>6. Aside(r, s) /\ r.cstate = mode
    BY <1>5, <1>8 DEF Steady, Fixed, Aside
  <1>7. KeepsOthers(r, s)
    BY <1>5, <1>8 DEF Steady, Keeps, KeepsOthers
  <1> QED BY <1>2, <1>5, <1>6, <1>7 DEF Steady, ModeShown

(* ... and those of host_disconnected leave the line of a terminal that is    *)
(* not connected.                                                             *)
LEMMA HostDisconnected ==
    ASSUME AreaAssumption, NEW s, Sound(s), NEW seconds \in 0 .. MaxTime,
           NEW r, r = Line!host_disconnected(s, seconds)
    PROVE  /\ Sound(r) /\ Aside(r, s) /\ KeepsOthers(r, s) /\ \A el \in ModeShown : Fresh(r, el)
           /\ r.cstate = "NOT_CONNECTED" /\ r.kybdlock = {"NOT_CONNECTED"}
           /\ r.told = "DISCONNECTED" /\ r.oia_status = "DISCONNECTED"
  <1> DEFINE mode == "NOT_CONNECTED"
             no == FALSE
             u == [s EXCEPT !.cstate = mode]
             v == Line!set_status(u, "UNDERA", no)
  <1>1. r = Line!status_changed(Line!ST_CONNECT(v, FALSE, seconds), "DISCONNECTED")
    BY DEF Line!host_disconnected
  <1>2. mode \in Line!Modes /\ mode \notin {"CONNECTED_3270", "CONNECTED_TN3270E", "CONNECTED_SSCP"}
        /\ mode = "NOT_CONNECTED" /\ no \in BOOLEAN /\ "UNDERA" \in Line!Flags
    BY DEF Line!Modes, Line!Flags
  <1> HIDE DEF mode, no
  <1>3. Sound(u) /\ Aside(u, s) /\ u.cstate = mode /\ KeepsOthers(u, s)
    <2>1. u = [s EXCEPT !.cstate = mode]
      OBVIOUS
    <2> HIDE DEF u
    <2> QED BY <1>2, <2>1, ModeAlone
  <1> HIDE DEF u
  <1>4. Steady(v, u)
    BY <1>2, <1>3, FlagSet
  <1> HIDE DEF v
  <1>5. ~Line!In3270(v)
    BY <1>2, <1>3, <1>4 DEF Line!In3270, Steady, Fixed
  <1>6. /\ Steady(r, v) /\ r.kybdlock = {"NOT_CONNECTED"}
        /\ r.msg = "DISCONNECTED" /\ r.oia_status = "DISCONNECTED"
        /\ Fresh(r, "CONNECTION_STATUS") /\ Fresh(r, "UNDERA") /\ Fresh(r, "SSL_STATE")
    <2>1. Sound(v)
      BY <1>4 DEF Steady
    <2> QED BY <1>1, <1>5, <2>1, ChainDisconnected
  <1>7. Steady(r, u)
    BY <1>4, <1>6, Chained
  <1>8. Aside(r, s) /\ r.cstate = mode
    BY <1>3, <1>7 DEF Steady, Fixed, Aside
  <1>9. KeepsOthers(r, s)
    BY <1>3, <1>7 DEF Steady, Keeps, KeepsOthers
  <1>10. r.told = "DISCONNECTED"
    BY <1>6 DEF Steady, Sound, Told, Line!Textless
  <1> QED BY <1>2, <1>6, <1>8, <1>9, <1>10 DEF Steady, ModeShown

(* The host's choice of a mode: the letter may be the former one's where the  *)
(* box is not solid.                                                          *)
LEMMA HostIn3270 ==
    ASSUME AreaAssumption, NEW s, Sound(s), NEW seconds \in 0 .. MaxTime, NEW mode \in Line!Modes,
           NEW r, r = Line!host_in3270(s, mode, seconds)
    PROVE  /\ Sound(r) /\ Aside(r, s) /\ KeepsOthers(r, s) /\ Fresh(r, "CONNECTION_STATUS")
           /\ Fresh(s, "SSL_STATE") => Fresh(r, "SSL_STATE")
           /\ Box(r) => Fresh(r, "UNDERA")
           /\ r.cstate = mode /\ r.sock = s.sock /\ r.kybdlock = s.kybdlock \cap {"AWAITING_FIRST"}
           /\ s.oia_status # "none" => r.oia_status # "none"
  <1> DEFINE u == [s EXCEPT !.cstate = mode]
             solid == Line!In3270(u) /\ ~Line!InSscp(u)
             yes == TRUE
             a == Line!set_status(u, "UNDERA", yes)
             v == IF solid THEN a ELSE u
             w == Line!set_status(v, "BOXSOLID", solid)
             x == Line!ctlr_connect(w, seconds)
             bits == Line!Locks \ {"AWAITING_FIRST"}
  <1>1. r = Line!kybdlock_clr(x, bits)
    BY DEF Line!host_in3270, Line!status_3270_mode, Line!kybd_in3270
  <1>2. /\ "UNDERA" \in Line!Flags /\ "BOXSOLID" \in Line!Flags /\ yes \in BOOLEAN
        /\ Line!ElementOf("UNDERA") = "UNDERA" /\ Line!ElementOf("BOXSOLID") = "CONNECTION_STATUS"
        /\ "UNDERA" \in Line!Elements /\ "CONNECTION_STATUS" \in Line!Elements
    BY DEF Line!Flags, Line!ElementOf, Line!Elements
  <1>3. /\ Sound(u) /\ Aside(u, s) /\ u.cstate = mode /\ KeepsOthers(u, s) /\ u.kybdlock = s.kybdlock
        /\ u.sock = s.sock
        /\ Fresh(s, "SSL_STATE") => Fresh(u, "SSL_STATE")
        /\ u.oia_status = s.oia_status
    <2>1. u = [s EXCEPT !.cstate = mode]
      OBVIOUS
    <2> HIDE DEF u
    <2> QED BY <2>1, ModeAlone DEF SameStatus
  <1>4. solid \in BOOLEAN
    BY DEF Line!In3270, Line!InSscp
  <1> HIDE DEF u, solid, yes
  <1>5. Steady(a, u) /\ Fresh(a, "UNDERA") /\ a.kybdlock = u.kybdlock
    <2>1. Sound(u) /\ a = Line!set_status(u, "UNDERA", yes)
      BY <1>3
    <2> HIDE DEF a
    <2> QED BY <1>2, <2>1, FlagSet
  <1> HIDE DEF a
  <1>6. Steady(v, u) /\ (solid => Fresh(v, "UNDERA")) /\ v.kybdlock = u.kybdlock
    BY <1>3, <1>5, SteadyItself
  <1> HIDE DEF v
  <1>7. Steady(w, v) /\ w.flag["BOXSOLID"] = solid /\ Fresh(w, "CONNECTION_STATUS") /\ w.kybdlock = v.kybdlock
    <2>1. Sound(v) /\ solid \in BOOLEAN /\ "BOXSOLID" \in Line!Flags
      BY <1>2, <1>4, <1>6 DEF Steady
    <2>2. /\ Steady(w, v) /\ w.flag["BOXSOLID"] = solid /\ Fresh(w, Line!ElementOf("BOXSOLID"))
          /\ w.kybdlock = v.kybdlock
      BY ONLY <2>1, FlagSet DEF w
    <2> QED BY <1>2, <2>2
  <1> HIDE DEF w
  <1>8. Steady(x, w) /\ SameFlags(x, w) /\ x.kybdlock \subseteq w.kybdlock
        /\ ("AWAITING_FIRST" \in w.kybdlock => "AWAITING_FIRST" \in x.kybdlock)
    BY <1>7, CtlrConnected DEF Steady
  <1> HIDE DEF x, bits
  <1>9. Quiet(r, x) /\ r.kybdlock = x.kybdlock \ bits
    BY <1>1, <1>8, LockCleared DEF Steady
  <1>10. r.kybdlock = s.kybdlock \cap {"AWAITING_FIRST"}
    <2>1. s.kybdlock \subseteq Line!Locks
      BY DEF Sound, Area, Typed
    <2>2. /\ x.kybdlock \subseteq s.kybdlock /\ r.kybdlock = x.kybdlock \ bits
          /\ "AWAITING_FIRST" \in s.kybdlock => "AWAITING_FIRST" \in x.kybdlock
      BY <1>3, <1>6, <1>7, <1>8, <1>9
    <2>3. \A l \in Line!Locks : l \in bits <=> l # "AWAITING_FIRST"
      BY DEF bits
    <2> HIDE DEF bits
    <2> QED BY ONLY <2>1, <2>2, <2>3
  <1>11. Steady(r, u)
    BY <1>6, <1>7, <1>8, <1>9, Chained DEF Quiet
  <1>12. Fresh(r, "CONNECTION_STATUS") /\ (Box(r) => Fresh(r, "UNDERA"))
    BY <1>2, <1>6, <1>7, <1>8, <1>9 DEF Quiet, Steady, Keeps, SameFlags, Box
  <1>13. Aside(r, s) /\ r.cstate = mode /\ r.sock = s.sock /\ (s.oia_status # "none" => r.oia_status # "none")
    BY <1>3, <1>11 DEF Steady, Fixed, Aside
  <1>14. KeepsOthers(r, s) /\ (Fresh(s, "SSL_STATE") => Fresh(r, "SSL_STATE"))
    BY <1>3, <1>11 DEF Steady, Keeps, KeepsOthers, Line!Elements
  <1> QED BY <1>10, <1>11, <1>12, <1>13, <1>14 DEF Steady

(* Another LU, and its program.                                               *)
LEMMA LUNamed ==
    ASSUME NEW s, Sound(s), NEW lu \in {Line!CN, "LU1"}, NEW r, r = Line!set_lu(s, lu)
    PROVE  /\ Sound(r) /\ SameStatus(r, s) /\ SameFlags(r, s) /\ Keeps(r, s) /\ r.kybdlock = s.kybdlock
           /\ r.cstate = s.cstate /\ r.sock = s.sock /\ r.attempt = s.attempt /\ r.updates = s.updates
           /\ \/ r.on_lu_pid = s.on_lu_pid /\ r.children = s.children
              \/ r.on_lu_pid /\ ~s.on_lu_pid /\ r.children = s.children + 1
  <1> DEFINE u == [s EXCEPT !.connected_lu = lu]
             v == Line!update_oia_element(u, "LUNAME")
             w == [v EXCEPT !.on_lu_pid = TRUE, !.children = @ + 1]
  <1>1. r = v \/ (~v.on_lu_pid /\ r = w)
    BY DEF Line!set_lu
  <1>2. /\ Area(u) /\ u.flag = s.flag /\ u.insert = s.insert /\ u.kybdlock = s.kybdlock
        /\ u.painted = s.painted /\ u.text = s.text /\ u.cstate = s.cstate
        /\ u.secure_connection = s.secure_connection /\ u.shift = s.shift /\ u.script = s.script
        /\ u.valid_certificate = s.valid_certificate /\ u.sock = s.sock
        /\ u.script_blink = s.script_blink /\ u.timer = s.timer /\ u.spinners = s.spinners
        /\ u.cursor_position = s.cursor_position /\ u.cursor_pos = s.cursor_pos /\ u.valid = s.valid
    <2>1. Area(u)
      BY DEF Sound, Area, Typed, Fields
    <2> QED BY <2>1 DEF Sound, Area, Fields
  <1>3. /\ SameStatus(u, s) /\ u.attempt = s.attempt /\ u.updates = s.updates
        /\ u.on_lu_pid = s.on_lu_pid /\ u.children = s.children
    BY DEF Sound, Area, Fields, SameStatus
  <1> HIDE DEF u
  <1>4. \A x \in Line!Elements \ {"LUNAME"} : Line!Drawn(u, x) = Line!Drawn(s, x)
    BY <1>2, <1>3, Depends DEF Line!Elements, SameStatus
  <1>5. "LUNAME" \in Line!Elements
    BY DEF Line!Elements
  <1>6. /\ Area(v) /\ Fixed(v, u) /\ SameStatus(v, u) /\ SameClock(v, u) /\ SameFlags(v, u)
        /\ v.kybdlock = u.kybdlock /\ Keeps(v, s)
    BY <1>2, <1>4, <1>5, Repainted
  <1>7. Sound(v)
    BY <1>2, <1>3, <1>6 DEF Sound, Told, Spins, SameStatus, SameClock
  <1> HIDE DEF v
  <1>8. /\ SameStatus(v, s) /\ SameFlags(v, s) /\ v.kybdlock = s.kybdlock
        /\ v.cstate = s.cstate /\ v.sock = s.sock /\ v.attempt = s.attempt /\ v.updates = s.updates
        /\ v.on_lu_pid = s.on_lu_pid /\ v.children = s.children
    BY <1>2, <1>3, <1>6 DEF Fixed, SameStatus, SameFlags
  <1>9. /\ Area(w) /\ w.on_lu_pid /\ w.children = v.children + 1 /\ w.kybdlock = v.kybdlock
        /\ w.painted = v.painted /\ w.text = v.text /\ w.cstate = v.cstate
        /\ w.secure_connection = v.secure_connection
        /\ w.valid_certificate = v.valid_certificate /\ w.sock = v.sock
        /\ w.connected_lu = v.connected_lu /\ w.attempt = v.attempt
        /\ w.valid = v.valid /\ w.updates = v.updates /\ w.cursor_position = v.cursor_position /\ w.cursor_pos = v.cursor_pos
        /\ w.script = v.script /\ w.script_blink = v.script_blink /\ w.shift = v.shift
    <2> DEFINE count == v.children + 1
    <2>1. Area(v) /\ count \in Nat
      BY <1>7 DEF Sound, Area, Typed
    <2>2. w = [v EXCEPT !.on_lu_pid = TRUE, !.children = count]
      OBVIOUS
    <2>3. w.on_lu_pid /\ w.children = count
      BY <2>1 DEF Area, Fields
    <2> HIDE DEF w, count
    <2>4. Area(w)
      BY <2>1, <2>2 DEF Area, Typed, Fields
    <2> QED BY <2>1, <2>2, <2>3, <2>4 DEF Area, Fields, count
  <1>10. SameStatus(w, v) /\ SameFlags(w, v) /\ SameClock(w, v)
    BY <1>7 DEF Sound, Area, Fields, SameStatus, SameFlags, SameClock
  <1> HIDE DEF w
  <1>11. Keeps(w, v)
    BY <1>9, <1>10, Unseen DEF SameStatus, SameFlags, SameClock
  <1>12. Sound(w)
    BY <1>7, <1>9, <1>10 DEF Sound, Told, Spins, SameStatus, SameClock
  <1>13. CASE r = v
    BY <1>6, <1>7, <1>8, <1>13
  <1>14. CASE r = w /\ ~v.on_lu_pid
    BY <1>6, <1>8, <1>9, <1>10, <1>11, <1>12, <1>14 DEF SameStatus, SameFlags, Keeps
  <1> QED BY <1>1, <1>13, <1>14

-----------------------------------------------------------------------------
(* The invariant. *)

(* Each element is up to date, but the cursor's while the drawing is          *)
(* suspended, the letter where the box is not solid, and the lock while the   *)
(* session has no socket.                                                     *)
Current(s) ==
    /\ \A el \in Line!Elements \ {"UNDERA", "CURSOR_POSITION", "SSL_STATE"} : Fresh(s, el)
    /\ s.updates => Fresh(s, "CURSOR_POSITION")
    /\ Box(s) => Fresh(s, "UNDERA")
    /\ (s.cstate # "NOT_CONNECTED" => s.sock) => Fresh(s, "SSL_STATE")

(* What the lock may hold.                                                    *)
Locked(s) ==
    /\ IF Line!Connected(s) THEN "NOT_CONNECTED" \notin s.kybdlock
       ELSE "NOT_CONNECTED" \in s.kybdlock /\ s.kybdlock \subseteq {"NOT_CONNECTED", "ENTER_INHIBIT"}
    /\ "OIA_MINUS" \in s.kybdlock => Line!InSscp(s)
    /\ "DEFERRED_UNLOCK" \in s.kybdlock => s.kybdlock \subseteq {"DEFERRED_UNLOCK", "ENTER_INHIBIT"}

Free(s) ==
    Line!In3270(s) /\ s.told = "BLANK" =>
        s.kybdlock \subseteq {"OIA_MINUS"} \/ "AWAITING_FIRST" \in s.kybdlock

Child(s) == s.children = IF s.on_lu_pid THEN 1 ELSE 0

(* The attempt to connect, and what the library and the window say of it.     *)
Stage(s) ==
    /\ s.oia_status = "none" => ~Line!Connected(s) /\ s.attempt = "none"
    /\ s.attempt # "none" => ~Line!Connected(s)
    /\ ~Line!Connected(s) /\ s.attempt = "none" => s.told = "DISCONNECTED"

Displayed(s) == Sound(s) /\ Current(s) /\ Locked(s) /\ Free(s) /\ Child(s)

GoodArea(s) == Displayed(s) /\ Stage(s)

(* All that is checked follows.                                               *)
LEMMA Truthful ==
    ASSUME AreaAssumption, GoodArea(o), o.spinners <= MaxTimers
    PROVE  Line!OiaTruthful
  <1>1. Line!TypeOK
    BY DEF AreaAssumption, GoodArea, Displayed, Sound, Area, Typed, Texted, Statuses, Line!TypeOK
  <1>2. Line!OiaCurrent
    BY DEF GoodArea, Displayed, Current, Fresh, Box, Line!OiaCurrent, Line!Connected
  <1>3. Line!MessageHonest
    BY DEF GoodArea, Displayed, Stage, Sound, Told, Line!MessageHonest
  <1>4. Line!BlankIsFree
    BY DEF GoodArea, Displayed, Free, Line!BlankIsFree
  <1>5. Line!ClockTurns
    BY DEF GoodArea, Displayed, Sound, Spins, Child, Line!ClockTurns
  <1> QED BY <1>1, <1>2, <1>3, <1>4, <1>5 DEF Line!OiaTruthful

(* A steady step keeps it when what the lock holds stays in order.            *)
LEMMA SteadyStep ==
    ASSUME NEW s, GoodArea(s), NEW r, Steady(r, s), Box(r) => Box(s) \/ Fresh(r, "UNDERA"),
           Line!Connected(s) \/ r.told = s.told, Locked(r), Free(r)
    PROVE  GoodArea(r)
  <1>1. Current(r)
    BY DEF GoodArea, Displayed, Current, Steady, Fixed, Keeps, Line!Elements
  <1>2. Child(r) /\ Stage(r)
    BY DEF GoodArea, Displayed, Child, Stage, Steady, Fixed, Line!Connected
  <1> QED BY <1>1, <1>2 DEF GoodArea, Displayed, Steady

(* The clock's steps, and those of the flags but the box's.                   *)
LEMMA UnlockedStep ==
    ASSUME NEW s, GoodArea(s), NEW r, Steady(r, s), Box(r) = Box(s),
           r.kybdlock = s.kybdlock, SameStatus(r, s)
    PROVE  GoodArea(r)
  <1>1. Locked(r) /\ Free(r)
    BY DEF GoodArea, Displayed, Locked, Free, Steady, Fixed, SameStatus, Line!Connected,
       Line!InSscp, Line!In3270
  <1> QED BY <1>1, SteadyStep DEF SameStatus

(* A step of the clock alone keeps the invariant.                             *)
LEMMA TimedStep ==
    ASSUME NEW s, GoodArea(s), NEW r, Timed(r, s)
    PROVE  GoodArea(r)
  BY UnlockedStep DEF Timed, SameFlags, Box

(* The steps that touch neither the session nor its lock.                     *)
LEMMA WindowStep ==
    ASSUME NEW s, GoodArea(s), NEW r, Sound(r), Current(r), SameStatus(r, s), r.kybdlock = s.kybdlock,
           r.cstate = s.cstate, r.attempt = s.attempt, r.on_lu_pid = s.on_lu_pid, r.children = s.children
    PROVE  GoodArea(r)
  BY DEF GoodArea, Displayed, Locked, Free, Child, Stage, SameStatus, Line!Connected, Line!InSscp,
     Line!In3270

(* Another stage of the attempt.                                              *)
Staged(r, s, stage, start) == r = [s EXCEPT !.attempt = stage, !.start = start]

(* It shows nowhere.                                                          *)
LEMMA StageSet ==
    ASSUME NEW s, Displayed(s), NEW stage \in {"none", "resolving", "connecting"}, NEW start \in BOOLEAN,
           NEW r, Staged(r, s, stage, start)
    PROVE  Displayed(r) /\ SameStatus(r, s) /\ r.cstate = s.cstate /\ r.attempt = stage
  <1>1. /\ Area(r) /\ r.attempt = stage /\ r.cstate = s.cstate /\ r.kybdlock = s.kybdlock
        /\ r.painted = s.painted /\ r.text = s.text /\ r.on_lu_pid = s.on_lu_pid /\ r.children = s.children
        /\ r.flag = s.flag /\ r.insert = s.insert /\ r.secure_connection = s.secure_connection
        /\ r.valid_certificate = s.valid_certificate /\ r.sock = s.sock
        /\ r.shift = s.shift /\ r.script = s.script /\ r.script_blink = s.script_blink
        /\ r.timer = s.timer /\ r.spinners = s.spinners /\ r.cursor_position = s.cursor_position /\ r.cursor_pos = s.cursor_pos
        /\ r.valid = s.valid /\ r.updates = s.updates /\ r.connected_lu = s.connected_lu
    BY DEF Staged, Displayed, Sound, Area, Typed, Fields
  <1>2. SameStatus(r, s)
    BY DEF Staged, Displayed, Sound, Area, Fields, SameStatus
  <1>3. Keeps(r, s)
    BY <1>1, <1>2, Unseen DEF SameStatus
  <1>4. Sound(r)
    BY <1>1, <1>2 DEF Displayed, Sound, Told, Spins, SameStatus
  <1>5. Current(r)
    BY <1>1, <1>3 DEF Displayed, Current, Keeps, Box, Line!Elements
  <1>6. Locked(r) /\ Free(r) /\ Child(r)
    BY <1>1, <1>2 DEF Displayed, Locked, Free, Child, SameStatus, Line!Connected, Line!InSscp,
       Line!In3270
  <1> QED BY <1>1, <1>2, <1>4, <1>5, <1>6 DEF Displayed

-----------------------------------------------------------------------------
(* An attempt to connect, and the end of a session. *)

(* The end of a wait keeps the invariant, and the message with it.            *)
LEMMA WaitOver ==
    ASSUME AreaAssumption, NEW s, GoodArea(s), NEW r, r = Line!Waited(s)
    PROVE  GoodArea(r) /\ SameStatus(r, s) /\ r.cstate = s.cstate /\ r.attempt = s.attempt /\ Box(r) = Box(s)
  <1> DEFINE none == -1
  <1>1. none \in -1 .. MaxTime /\ Sound(s)
    BY DEF AreaAssumption, GoodArea, Displayed
  <1>2. r = s \/ r = Line!oia_set_timer(s, none)
    BY DEF Line!Waited
  <1> HIDE DEF none
  <1>3. CASE r = s
    BY <1>3 DEF SameStatus
  <1>4. CASE r = Line!oia_set_timer(s, none)
    <2>1. Timed(r, s)
      BY <1>1, <1>4, TimerSet DEF Timed
    <2> QED BY <2>1, TimedStep DEF Timed, Steady, Fixed, SameFlags, Box
  <1> QED BY <1>2, <1>3, <1>4

(* A text of the attempt's own.                                               *)
LEMMA StageTold ==
    ASSUME NEW s, GoodArea(s), ~Line!Connected(s), NEW id \in {"RESOLVING", "CONNECTING", "BLANK"},
           NEW r, r = Line!status_changed(s, id)
    PROVE  Displayed(r) /\ r.cstate = s.cstate /\ r.oia_status = id /\ r.attempt = s.attempt
  <1>1. Steady(r, s) /\ SameFlags(r, s) /\ r.kybdlock = s.kybdlock /\ r.oia_status = id
    BY StatusChanged DEF GoodArea, Displayed, Statuses
  <1>2. Current(r)
    BY <1>1 DEF GoodArea, Displayed, Current, Steady, Fixed, Keeps, SameFlags, Box, Line!Elements
  <1>3. Locked(r) /\ Free(r) /\ Child(r)
    BY <1>1 DEF GoodArea, Displayed, Locked, Free, Child, Steady, Fixed, Line!Connected,
       Line!InSscp, Line!In3270
  <1> QED BY <1>1, <1>2, <1>3 DEF Displayed, Steady, Fixed

(* The next wait of it.                                                       *)
LEMMA WaitBegun ==
    ASSUME NEW s, Displayed(s), ~Line!Connected(s), s.oia_status # "none",
           NEW stage \in {"resolving", "connecting"}, NEW r, r = Line!Wait(s, stage)
    PROVE  GoodArea(r)
  <1> DEFINE start == s.timer < 0
  <1>1. start \in BOOLEAN /\ Staged(r, s, stage, start) /\ stage \in {"none", "resolving", "connecting"}
    BY DEF Line!Wait, Staged
  <1> HIDE DEF start
  <1>2. Displayed(r) /\ SameStatus(r, s) /\ r.cstate = s.cstate /\ r.attempt = stage
    BY <1>1, StageSet
  <1> QED BY <1>2 DEF GoodArea, Stage, SameStatus, Line!Connected

(* All is right but what shows the session's mode.                            *)
Beside(s) ==
    /\ Sound(s) /\ Child(s)
    /\ \A el \in Line!Elements \ (ModeShown \cup {"CURSOR_POSITION"}) : Fresh(s, el)
    /\ s.updates => Fresh(s, "CURSOR_POSITION")

(* As it is where a line is right.                                            *)
LEMMA DisplayedBeside ==
    ASSUME NEW s, Displayed(s) PROVE Beside(s)
  BY DEF Displayed, Current, Beside, ModeShown

(* And where no more than the session's state has changed.                    *)
LEMMA BesideSet ==
    ASSUME NEW s, Beside(s), NEW r, Sound(r), Aside(r, s), KeepsOthers(r, s)
    PROVE  Beside(r)
  <1>1. "CURSOR_POSITION" \in Line!Elements \ ModeShown
    BY DEF ModeShown, Line!Elements
  <1> QED BY <1>1 DEF Beside, Aside, KeepsOthers, Child

(* Painting what shows the mode is then enough.                               *)
LEMMA BesideShown ==
    ASSUME NEW s, Beside(s), \A el \in ModeShown : Fresh(s, el) PROVE Current(s)
  BY DEF Beside, Current, ModeShown

(* A session that is over, or that never was: all but the attempt is settled. *)
LEMMA SessionEnded ==
    ASSUME AreaAssumption, NEW s, Beside(s), NEW seconds \in 0 .. MaxTime,
           NEW r, r = Line!host_disconnected(s, seconds)
    PROVE  /\ GoodArea(r) /\ r.cstate = "NOT_CONNECTED" /\ r.kybdlock = {"NOT_CONNECTED"}
           /\ r.told = "DISCONNECTED" /\ r.oia_status # "none" /\ r.attempt = s.attempt
  <1>1. /\ Sound(r) /\ Aside(r, s) /\ KeepsOthers(r, s) /\ \A el \in ModeShown : Fresh(r, el)
        /\ r.cstate = "NOT_CONNECTED" /\ r.kybdlock = {"NOT_CONNECTED"}
        /\ r.told = "DISCONNECTED" /\ r.oia_status = "DISCONNECTED"
    BY HostDisconnected DEF Beside
  <1>2. Beside(r) /\ Current(r)
    BY <1>1, BesideSet, BesideShown
  <1>3. Locked(r) /\ Free(r) /\ Stage(r)
    BY <1>1 DEF Locked, Free, Stage, Line!Connected, Line!In3270
  <1> QED BY <1>1, <1>2, <1>3 DEF GoodArea, Displayed, Beside, Aside

(* And the attempt too.                                                       *)
LEMMA AttemptOver ==
    ASSUME NEW s, Displayed(s), Line!Connected(s) \/ s.told = "DISCONNECTED",
           s.oia_status = "none" => ~Line!Connected(s), NEW r, r = Line!EndOfAttempt(s)
    PROVE  GoodArea(r)
  <1> DEFINE none == "none"
             no == FALSE
  <1>1. /\ none \in {"none", "resolving", "connecting"} /\ no \in BOOLEAN /\ none = "none"
        /\ Staged(r, s, none, no)
    BY DEF Line!EndOfAttempt, Staged
  <1> HIDE DEF none, no
  <1>2. Displayed(r) /\ SameStatus(r, s) /\ r.cstate = s.cstate /\ r.attempt = none
    BY <1>1, StageSet
  <1> QED BY <1>1, <1>2 DEF GoodArea, Stage, SameStatus, Line!Connected

(* A session begins.                                                          *)
LEMMA SessionBegun ==
    ASSUME AreaAssumption, NEW s, Beside(s), NEW seconds \in 0 .. MaxTime,
           NEW r, r = Line!host_connected(s, seconds)
    PROVE  Displayed(r) /\ Line!Connected(r) /\ r.oia_status # "none" /\ r.attempt = s.attempt
  <1>1. /\ Sound(r) /\ Aside(r, s) /\ KeepsOthers(r, s) /\ \A el \in ModeShown : Fresh(r, el)
        /\ r.cstate = "CONNECTED_INITIAL" /\ r.kybdlock = {"AWAITING_FIRST"} /\ r.oia_status # "none"
    BY HostConnected DEF Beside
  <1>2. Beside(r) /\ Current(r)
    BY <1>1, BesideSet, BesideShown
  <1>3. Locked(r) /\ Free(r)
    BY <1>1 DEF Locked, Free, Line!Connected, Line!In3270
  <1> QED BY <1>1, <1>2, <1>3 DEF Displayed, Beside, Aside, Line!Connected

(* Through an attempt to connect (do_connect, and the timer that shows its    *)
(* seconds), to its failure or to the connection, the invariant holds.        *)
LEMMA Attempting ==
    ASSUME AreaAssumption, GoodArea(o),
           \/ Line!Attempt \/ Line!AttemptTicks \/ Line!ResolveFails
           \/ Line!Resolved \/ Line!ConnectFails \/ Line!Connects
    PROVE  GoodArea(o')
  <1> DEFINE w == Line!Waited(o)
             zero == 0
  <1>1. GoodArea(w) /\ SameStatus(w, o) /\ w.cstate = o.cstate /\ w.attempt = o.attempt /\ Box(w) = Box(o)
    BY WaitOver
  <1>2. zero \in 0 .. MaxTime
    BY DEF AreaAssumption
  <1> HIDE DEF zero
  <1>3. ASSUME Line!Attempt PROVE GoodArea(o')
    <2> DEFINE u == Line!status_changed(o, "RESOLVING")
               stage == "resolving"
    <2>1. ~Line!Connected(o) /\ o' = Line!Wait(u, stage) /\ stage \in {"resolving", "connecting"}
      BY <1>3 DEF Line!Attempt, Line!Becomes
    <2>2. Displayed(u) /\ u.cstate = o.cstate /\ u.oia_status = "RESOLVING"
      BY <2>1, StageTold
    <2> HIDE DEF u, stage
    <2>3. ~Line!Connected(u) /\ u.oia_status # "none"
      BY <2>1, <2>2 DEF Line!Connected
    <2> QED BY <2>1, <2>2, <2>3, WaitBegun
  <1>4. ASSUME Line!AttemptTicks PROVE GoodArea(o')
    <2>1. PICK sec \in 0 .. MaxTime : o' = Line!oia_set_timer(o, sec)
      BY <1>4 DEF Line!AttemptTicks, Line!Becomes
    <2>2. sec \in -1 .. MaxTime
      OBVIOUS
    <2>3. Timed(o', o)
      BY <2>1, <2>2, TimerSet DEF Timed, GoodArea, Displayed
    <2> QED BY <2>3, TimedStep
  <1>5. ASSUME Line!ResolveFails PROVE GoodArea(o')
    <2> DEFINE id == "BLANK"
               u == Line!status_changed(w, id)
               v == Line!host_disconnected(u, zero)
    <2>1. o.attempt = "resolving" /\ o' = Line!EndOfAttempt(v) /\ id \in {"RESOLVING", "CONNECTING", "BLANK"}
      BY <1>5 DEF Line!ResolveFails, Line!Becomes, zero
    <2>2. ~Line!Connected(w)
      BY <1>1, <2>1 DEF GoodArea, Stage, Line!Connected
    <2> HIDE DEF w, id
    <2>3. Displayed(u)
      BY <1>1, <2>1, <2>2, StageTold
    <2> HIDE DEF u
    <2>4. GoodArea(v) /\ v.cstate = "NOT_CONNECTED" /\ v.told = "DISCONNECTED" /\ v.oia_status # "none"
      BY <1>2, <2>3, DisplayedBeside, SessionEnded
    <2> HIDE DEF v
    <2> QED BY <2>1, <2>4, AttemptOver DEF GoodArea, Line!Connected
  <1>6. ASSUME Line!Resolved PROVE GoodArea(o')
    <2> DEFINE id == "CONNECTING"
               stage == "connecting"
               u == Line!status_changed(w, id)
    <2>1. /\ o.attempt = "resolving" /\ o' = Line!Wait(u, stage) /\ stage \in {"resolving", "connecting"}
          /\ id \in {"RESOLVING", "CONNECTING", "BLANK"}
      BY <1>6 DEF Line!Resolved, Line!Becomes
    <2>2. ~Line!Connected(w)
      BY <1>1, <2>1 DEF GoodArea, Stage, Line!Connected
    <2> HIDE DEF w
    <2>3. Displayed(u) /\ u.cstate = w.cstate /\ u.oia_status = id
      BY <1>1, <2>1, <2>2, StageTold
    <2> HIDE DEF u, stage
    <2>4. ~Line!Connected(u) /\ u.oia_status # "none"
      BY <2>2, <2>3 DEF Line!Connected
    <2> QED BY <2>1, <2>3, <2>4, WaitBegun
  <1>7. ASSUME Line!ConnectFails PROVE GoodArea(o')
    <2> DEFINE v == Line!host_disconnected(w, zero)
    <2>1. o' = Line!EndOfAttempt(v)
      BY <1>7 DEF Line!ConnectFails, Line!Becomes, zero
    <2> HIDE DEF w
    <2>2. GoodArea(v) /\ v.cstate = "NOT_CONNECTED" /\ v.told = "DISCONNECTED" /\ v.oia_status # "none"
      BY <1>1, <1>2, DisplayedBeside, SessionEnded DEF GoodArea
    <2> HIDE DEF v
    <2> QED BY <2>1, <2>2, AttemptOver DEF GoodArea, Line!Connected
  <1>8. ASSUME Line!Connects PROVE GoodArea(o')
    <2> DEFINE yes == TRUE
               mode == w.cstate
               tls == w.secure_connection
               old == w.valid_certificate
               s == [w EXCEPT !.sock = yes]
    <2>1. PICK secure \in BOOLEAN, valid \in BOOLEAN :
              o' = Line!EndOfAttempt(Line!host_connected(
                       IF secure
                       THEN Line!host_connected([s EXCEPT !.secure_connection = TRUE, !.valid_certificate = valid], zero)
                       ELSE s, zero))
      BY <1>8 DEF Line!Connects, Line!Becomes, zero
    <2> DEFINE a == [s EXCEPT !.secure_connection = yes, !.valid_certificate = valid]
               u == Line!host_connected(a, zero)
               x == IF secure THEN u ELSE s
               v == Line!host_connected(x, zero)
    <2>2. o' = Line!EndOfAttempt(v)
      BY <2>1
    <2> HIDE DEF w
    <2>3. /\ Sound(w) /\ Beside(w) /\ yes \in BOOLEAN /\ mode \in Line!Modes /\ tls \in BOOLEAN /\ old \in BOOLEAN
          /\ Moded(s, w, mode, tls, old, yes)
      BY <1>1, DisplayedBeside DEF GoodArea, Displayed, Sound, Area, Typed, Fields, Moded
    <2> HIDE DEF s, tls, old, mode, yes
    <2>4. Sound(s) /\ Aside(s, w) /\ KeepsOthers(s, w) /\ s.cstate = mode /\ s.sock = yes
      BY <2>3, SessionSet
    <2>5. Beside(s)
      BY <2>3, <2>4, BesideSet
    <2>6. Moded(a, s, mode, yes, valid, yes)
      BY <2>4 DEF Sound, Area, Fields, Moded
    <2> HIDE DEF a, mode, yes
    <2>7. Sound(a) /\ Aside(a, s) /\ KeepsOthers(a, s)
      BY <2>3, <2>4, <2>6, SessionSet
    <2>8. Beside(a)
      BY <2>5, <2>7, BesideSet
    <2>9. Displayed(u)
      BY <1>2, <2>8, SessionBegun
    <2> HIDE DEF u
    <2>10. Beside(x)
      BY <2>5, <2>9, DisplayedBeside
    <2> HIDE DEF x
    <2>11. Displayed(v) /\ Line!Connected(v) /\ v.oia_status # "none"
      BY <1>2, <2>10, SessionBegun
    <2> HIDE DEF v
    <2> QED BY <2>2, <2>11, AttemptOver
  <1> QED BY <1>3, <1>4, <1>5, <1>6, <1>7, <1>8

-----------------------------------------------------------------------------
(* The session's other steps. *)

(* The seconds that the clock may show are within the bound.                  *)
LEMMA SecondsBounded ==
    ASSUME AreaAssumption, NEW s, NEW sec \in Line!Seconds(s) PROVE sec \in 0 .. MaxTime
  BY DEF AreaAssumption, Line!Seconds

(* net_disconnect (telnet.c) paints the LU's name alone: the lock is as it    *)
(* was, and what tells of the session otherwise is right still.               *)
LEMMA SocketClosed ==
    ASSUME NEW s, GoodArea(s), NEW r, r = Line!net_disconnect(s)
    PROVE  /\ Beside(r) /\ SameStatus(r, s) /\ SameFlags(r, s) /\ r.kybdlock = s.kybdlock
           /\ r.cstate = s.cstate /\ ~r.sock /\ r.attempt = s.attempt
           /\ \A el \in {"UNDERA", "CONNECTION_STATUS"} : Fresh(s, el) => Fresh(r, el)
  <1> DEFINE mode == s.cstate
             no == FALSE
             u == [s EXCEPT !.secure_connection = no, !.valid_certificate = no, !.sock = no]
             lu == Line!CN
  <1>1. r = Line!set_lu(u, lu) /\ lu \in {Line!CN, "LU1"}
    BY DEF Line!net_disconnect
  <1>2. /\ mode \in Line!Modes /\ mode = s.cstate /\ no \in BOOLEAN /\ ~no /\ Sound(s) /\ Beside(s)
        /\ Moded(u, s, mode, no, no, no)
    BY DisplayedBeside DEF GoodArea, Displayed, Sound, Area, Typed, Fields, Moded
  <1> HIDE DEF mode, no, u, lu
  <1>3. /\ Sound(u) /\ Aside(u, s) /\ KeepsOthers(u, s) /\ SameStatus(u, s) /\ SameFlags(u, s)
        /\ u.kybdlock = s.kybdlock /\ u.cstate = s.cstate /\ ~u.sock
        /\ \A el \in {"UNDERA", "CONNECTION_STATUS"} : Fresh(s, el) => Fresh(u, el)
    BY <1>2, SessionSet
  <1>4. Beside(u)
    BY <1>2, <1>3, BesideSet
  <1>5. /\ Sound(r) /\ SameStatus(r, u) /\ SameFlags(r, u) /\ Keeps(r, u) /\ r.kybdlock = u.kybdlock
        /\ r.cstate = u.cstate /\ r.sock = u.sock /\ r.attempt = u.attempt /\ r.updates = u.updates
        /\ \/ r.on_lu_pid = u.on_lu_pid /\ r.children = u.children
           \/ r.on_lu_pid /\ ~u.on_lu_pid /\ r.children = u.children + 1
    BY <1>1, <1>3, LUNamed
  <1>6. Beside(r)
    BY <1>4, <1>5 DEF Beside, Child, Keeps, Line!Elements
  <1>7. \A el \in {"UNDERA", "CONNECTION_STATUS"} : Fresh(s, el) => Fresh(r, el)
    BY <1>3, <1>5 DEF Keeps, Line!Elements
  <1> QED BY <1>3, <1>5, <1>6, <1>7 DEF SameStatus, SameFlags, Aside

(* host_disconnect (host.c) leaves a line that is right, whoever calls it.    *)
LEMMA HostLeft ==
    ASSUME AreaAssumption, NEW s, GoodArea(s), NEW sec \in 0 .. MaxTime, NEW r, r = Line!host_disconnect(s, sec)
    PROVE  /\ GoodArea(r) /\ r.cstate = "NOT_CONNECTED" /\ r.kybdlock = {"NOT_CONNECTED"}
           /\ r.told = "DISCONNECTED" /\ r.oia_status # "none" /\ r.attempt = s.attempt
  <1> DEFINE u == Line!net_disconnect(s)
  <1>1. r = Line!host_disconnected(u, sec)
    BY DEF Line!host_disconnect
  <1>2. Beside(u) /\ u.attempt = s.attempt
    BY SocketClosed
  <1> HIDE DEF u
  <1> QED BY <1>1, <1>2, SessionEnded

(* So does a send, whether it fails or not.                                   *)
LEMMA SendOver ==
    ASSUME AreaAssumption, NEW s, GoodArea(s), NEW r \in Line!Outcomes(s)
    PROVE  /\ GoodArea(r)
           /\ \/ r = s
              \/ /\ r.cstate = "NOT_CONNECTED" /\ r.kybdlock = {"NOT_CONNECTED"}
                 /\ r.told = "DISCONNECTED" /\ r.oia_status # "none" /\ r.attempt = s.attempt
  <1>1. r = s \/ \E sec \in Line!Seconds(s) : r = Line!host_disconnect(s, sec)
    BY DEF Line!Outcomes
  <1>2. CASE r = s
    BY <1>2
  <1>3. ASSUME NEW sec \in Line!Seconds(s), r = Line!host_disconnect(s, sec)
        PROVE  /\ GoodArea(r) /\ r.cstate = "NOT_CONNECTED" /\ r.kybdlock = {"NOT_CONNECTED"}
               /\ r.told = "DISCONNECTED" /\ r.oia_status # "none" /\ r.attempt = s.attempt
    BY <1>3, SecondsBounded, HostLeft
  <1> QED BY <1>1, <1>2, <1>3

(* The end of a session keeps the invariant.                                  *)
LEMMA Disconnecting ==
    ASSUME AreaAssumption, GoodArea(o), Line!HostDisconnects
    PROVE  GoodArea(o')
  <1>1. PICK sec \in Line!Seconds(o) : o' = Line!host_disconnect(o, sec)
    BY DEF Line!HostDisconnects, Line!Becomes
  <1> QED BY <1>1, SecondsBounded, HostLeft

(* continue_tls (telnet.c) keeps it: secure_connection is set before the      *)
(* callbacks that paint what shows it, and where the handshake fails only the *)
(* lock is left as it was.                                                    *)
LEMMA Encrypting ==
    ASSUME AreaAssumption, GoodArea(o), Line!continue_tls
    PROVE  GoodArea(o')
  <1> DEFINE mode == o.cstate
             old == o.valid_certificate
             sock == o.sock
             yes == TRUE
             zero == 0
             u == [o EXCEPT !.secure_connection = yes]
  <1>1. /\ Line!Connected(o) /\ zero \in 0 .. MaxTime
        /\ o' = Line!host_connected(u, zero) \/ o' = Line!net_disconnect(o)
    BY DEF AreaAssumption, Line!continue_tls, Line!Becomes
  <1>2. /\ mode \in Line!Modes /\ mode = o.cstate /\ old \in BOOLEAN /\ sock \in BOOLEAN /\ yes \in BOOLEAN
        /\ Sound(o) /\ Beside(o) /\ Moded(u, o, mode, yes, old, sock)
    BY DisplayedBeside DEF GoodArea, Displayed, Sound, Area, Typed, Fields, Moded
  <1> HIDE DEF mode, old, sock, yes, zero, u
  <1>3. CASE o' = Line!host_connected(u, zero)
    <2>1. Sound(u) /\ Aside(u, o) /\ KeepsOthers(u, o)
      BY <1>2, SessionSet
    <2>2. Beside(u)
      BY <1>2, <2>1, BesideSet
    <2>3. Displayed(o') /\ Line!Connected(o') /\ (o').oia_status # "none" /\ (o').attempt = u.attempt
      BY <1>1, <1>3, <2>2, SessionBegun
    <2> QED BY <1>1, <2>1, <2>3 DEF GoodArea, Stage, Aside
  <1>4. CASE o' = Line!net_disconnect(o)
    <2>1. /\ Beside(o') /\ SameStatus(o', o) /\ SameFlags(o', o) /\ (o').kybdlock = o.kybdlock
          /\ (o').cstate = o.cstate /\ ~(o').sock /\ (o').attempt = o.attempt
          /\ \A el \in {"UNDERA", "CONNECTION_STATUS"} : Fresh(o, el) => Fresh(o', el)
      BY <1>4, SocketClosed
    <2>2. Line!Connected(o')
      BY <1>1, <2>1 DEF Line!Connected
    <2>3. Current(o')
      BY <2>1, <2>2
         DEF GoodArea, Displayed, Current, Beside, ModeShown, SameFlags, Box, Line!Elements, Line!Connected
    <2>4. Locked(o') /\ Free(o') /\ Stage(o')
      BY <2>1
         DEF GoodArea, Displayed, Locked, Free, Stage, SameStatus, Line!Connected, Line!InSscp, Line!In3270
    <2> QED BY <2>1, <2>3, <2>4 DEF GoodArea, Displayed, Beside
  <1> QED BY <1>1, <1>3, <1>4

(* check_in3270 (telnet.c) keeps it, whatever mode it finds, and also when    *)
(* what it was called after has ended the session.                            *)
LEMMA ChoosingMode ==
    ASSUME AreaAssumption, GoodArea(o), Line!check_in3270
    PROVE  GoodArea(o')
  <1>1. PICK mode \in Line!Modes \ {"NOT_CONNECTED", "CONNECTED_INITIAL"}, s \in Line!Outcomes(o) \cup {o} :
            /\ Line!Connected(o) /\ s.cstate # mode
            /\ \E sec \in Line!Seconds(s) : o' = Line!host_in3270(s, mode, sec)
    BY DEF Line!check_in3270, Line!Becomes
  <1>2. PICK sec \in Line!Seconds(s) : o' = Line!host_in3270(s, mode, sec)
    BY <1>1
  <1>3. sec \in 0 .. MaxTime /\ mode \in Line!Modes
    BY SecondsBounded
  <1>4. GoodArea(s) /\ s.oia_status # "none" /\ s.attempt = "none"
    <2>1. o.oia_status # "none" /\ o.attempt = "none"
      BY <1>1 DEF GoodArea, Stage
    <2>2. CASE s = o
      BY <2>1, <2>2
    <2>3. CASE s \in Line!Outcomes(o)
      BY <2>1, <2>3, SendOver
    <2> QED BY <2>2, <2>3
  <1>5. /\ Sound(o') /\ Aside(o', s) /\ KeepsOthers(o', s) /\ Fresh(o', "CONNECTION_STATUS")
        /\ Fresh(s, "SSL_STATE") => Fresh(o', "SSL_STATE")
        /\ Box(o') => Fresh(o', "UNDERA")
        /\ (o').cstate = mode /\ (o').sock = s.sock /\ (o').kybdlock = s.kybdlock \cap {"AWAITING_FIRST"}
        /\ s.oia_status # "none" => (o').oia_status # "none"
    <2> DEFINE r == o'
    <2>1. r = Line!host_in3270(s, mode, sec)
      BY <1>2
    <2> HIDE DEF r
    <2>2. /\ Sound(r) /\ Aside(r, s) /\ KeepsOthers(r, s) /\ Fresh(r, "CONNECTION_STATUS")
          /\ Fresh(s, "SSL_STATE") => Fresh(r, "SSL_STATE")
          /\ Box(r) => Fresh(r, "UNDERA")
          /\ r.cstate = mode /\ r.sock = s.sock /\ r.kybdlock = s.kybdlock \cap {"AWAITING_FIRST"}
          /\ s.oia_status # "none" => r.oia_status # "none"
      BY <1>3, <1>4, <2>1, HostIn3270 DEF GoodArea, Displayed
    <2> QED BY <2>2 DEF r
  <1>6. /\ ModeShown = {"UNDERA", "CONNECTION_STATUS", "SSL_STATE"}
        /\ "CURSOR_POSITION" \in Line!Elements \ ModeShown
    BY DEF ModeShown, Line!Elements
  <1>7. Line!Connected(o') /\ mode # "NOT_CONNECTED"
    BY <1>5 DEF Line!Connected
  <1>8. Current(o')
    <2>1. \A el \in Line!Elements \ {"UNDERA", "CURSOR_POSITION", "SSL_STATE"} : Fresh(o', el)
      BY <1>4, <1>5, <1>6 DEF KeepsOthers, GoodArea, Displayed, Current
    <2> QED BY <1>4, <1>5, <1>6, <1>7, <2>1 DEF KeepsOthers, GoodArea, Displayed, Current, Aside
  <1>9. Locked(o') /\ Free(o') /\ Child(o')
    BY <1>4, <1>5, <1>7 DEF GoodArea, Displayed, Locked, Free, Child, Aside
  <1>10. Stage(o')
    BY <1>4, <1>5, <1>7 DEF Stage, Aside
  <1> QED BY <1>5, <1>8, <1>9, <1>10 DEF GoodArea, Displayed

(* ... and so does the host's naming of the LU, with the child program that   *)
(* the name starts.                                                           *)
LEMMA NamingLU ==
    ASSUME GoodArea(o), Line!HostNamesLU
    PROVE  GoodArea(o')
  <1>1. PICK lu \in {Line!CN, "LU1"} : o' = Line!set_lu(o, lu)
    BY DEF Line!HostNamesLU, Line!Becomes
  <1>2. /\ Sound(o') /\ SameStatus(o', o) /\ SameFlags(o', o) /\ Keeps(o', o) /\ (o').kybdlock = o.kybdlock
        /\ (o').cstate = o.cstate /\ (o').sock = o.sock /\ (o').attempt = o.attempt /\ (o').updates = o.updates
        /\ \/ (o').on_lu_pid = o.on_lu_pid /\ (o').children = o.children
           \/ (o').on_lu_pid /\ ~o.on_lu_pid /\ (o').children = o.children + 1
    BY <1>1, LUNamed DEF GoodArea, Displayed
  <1>3. Current(o')
    BY <1>2 DEF GoodArea, Displayed, Current, Keeps, SameFlags, Box, Line!Elements
  <1>4. Child(o')
    BY <1>2 DEF GoodArea, Displayed, Child
  <1> QED
    BY <1>2, <1>3, <1>4
       DEF GoodArea, Displayed, Locked, Free, Stage, SameStatus, Line!Connected, Line!InSscp,
          Line!In3270

(* A key that was sent, whatever has become of the session.                   *)
LEMMA KeySent ==
    ASSUME AreaAssumption, NEW s, GoodArea(s), NEW r, r = Line!set_status(Line!ticking_start(s), "UNDERA", TRUE)
    PROVE  GoodArea(r)
  <1> DEFINE yes == TRUE
             u == Line!ticking_start(s)
  <1>1. /\ yes \in BOOLEAN /\ "UNDERA" \in Line!Flags /\ "BOXSOLID" \in Line!Flags
        /\ r = Line!set_status(u, "UNDERA", yes)
    BY DEF Line!Flags
  <1> HIDE DEF yes
  <1>2. Timed(u, s)
    BY TickingStarted DEF GoodArea, Displayed
  <1> HIDE DEF u
  <1>3. GoodArea(u)
    BY <1>2, TimedStep
  <1>4. /\ Steady(r, u) /\ SameStatus(r, u) /\ r.kybdlock = u.kybdlock
        /\ \A f \in Line!Flags : r.flag[f] = IF f = "UNDERA" THEN yes ELSE u.flag[f]
    <2>1. Sound(u)
      BY <1>3 DEF GoodArea, Displayed
    <2> QED BY ONLY <1>1, <2>1, FlagSet
  <1>5. Box(r) = Box(u)
    BY <1>1, <1>4 DEF Box
  <1> QED BY <1>3, <1>4, <1>5, UnlockedStep

(* A status and a lock, one after the other.                                  *)
LEMMA ToldAndLocked ==
    ASSUME NEW s, Sound(s), NEW id \in Statuses \ Line!Textless, NEW bits, bits \subseteq Line!Locks,
           NEW r, r = Line!kybdlock_set(Line!status_changed(s, id), bits)
    PROVE  Quiet(r, s) /\ r.told = id /\ r.kybdlock = s.kybdlock \cup bits
  <1> DEFINE u == Line!status_changed(s, id)
  <1>1. Quiet(u, s) /\ u.kybdlock = s.kybdlock /\ u.told = id
    BY StatusChanged DEF Quiet
  <1> HIDE DEF u
  <1>2. r = Line!kybdlock_set(u, bits)
    BY DEF u
  <1>3. Quiet(r, u) /\ r.kybdlock = u.kybdlock \cup bits /\ r.told = u.told
    BY <1>1, <1>2, LockSet DEF Quiet, Steady
  <1> QED BY <1>1, <1>3, QuietChained

(* key_AID (kybd.c) keeps it: the locks it sets are those the message tells.  *)
LEMMA Sending ==
    ASSUME AreaAssumption, GoodArea(o), Line!key_AID
    PROVE  GoodArea(o')
  <1> DEFINE id == "MINUS"
             minus == {"OIA_MINUS"}
             a == Line!kybdlock_set(Line!status_changed(o, id), minus)
             no == FALSE
             u == Line!set_status(o, "UNDERA", no)
             wait == "TWAIT"
             v == Line!status_changed(u, wait)
             w == Line!set_insert(v, no)
             sent == {"OIA_TWAIT", "OIA_LOCKED"}
             x == Line!kybdlock_set(w, sent)
  <1>1. /\ o.kybdlock = {} /\ Line!In3270(o) /\ Line!Connected(o) /\ Sound(o)
        /\ \/ Line!InSscp(o) /\ o' = a
           \/ o' = Line!set_status(Line!ticking_start(o), "UNDERA", TRUE)
           \/ \E s \in Line!Outcomes(x) : o' = Line!set_status(Line!ticking_start(s), "UNDERA", TRUE)
    BY DEF GoodArea, Displayed, Line!key_AID, Line!Becomes, Line!In3270, Line!Connected,
       Line!status_twait
  <1>2. /\ id \in Statuses \ Line!Textless /\ minus \subseteq Line!Locks
        /\ wait \in Statuses \ Line!Textless /\ sent \subseteq Line!Locks /\ no \in BOOLEAN
        /\ "UNDERA" \in Line!Flags /\ "BOXSOLID" \in Line!Flags /\ "UNDERA" # "BOXSOLID"
        /\ wait # "BLANK" /\ id # "BLANK"
    BY DEF Statuses, Line!Textless, Line!Locks, Line!Flags
  <1>3. CASE Line!InSscp(o) /\ o' = a
    <2> HIDE DEF id, minus
    <2>1. Quiet(a, o) /\ a.told = id /\ a.kybdlock = o.kybdlock \cup minus
      <3>1. Sound(o) /\ id \in Statuses \ Line!Textless /\ minus \subseteq Line!Locks
        BY <1>1, <1>2
      <3> QED BY ONLY <3>1, ToldAndLocked
    <2>2. Locked(o') /\ Free(o')
      BY <1>1, <1>2, <1>3, <2>1 DEF Quiet, Steady, Fixed, Locked, Free, Line!Connected,
         Line!InSscp, minus
    <2> QED BY <1>1, <1>3, <2>1, <2>2, SteadyStep DEF Quiet, SameFlags, Box
  <1>4. CASE o' = Line!set_status(Line!ticking_start(o), "UNDERA", TRUE)
    BY <1>4, KeySent
  <1>5. CASE \E s \in Line!Outcomes(x) : o' = Line!set_status(Line!ticking_start(s), "UNDERA", TRUE)
    <2> HIDE DEF no, wait, sent
    <2>1. /\ Steady(u, o) /\ u.kybdlock = o.kybdlock
          /\ \A f \in Line!Flags : u.flag[f] = IF f = "UNDERA" THEN no ELSE o.flag[f]
      BY <1>1, <1>2, FlagSet
    <2>2. Box(u) = Box(o)
      BY <1>2, <2>1 DEF Box
    <2> HIDE DEF u
    <2>3. Quiet(v, u) /\ v.kybdlock = u.kybdlock /\ v.told = wait
      BY <1>2, <2>1, StatusChanged DEF Quiet, Steady
    <2> HIDE DEF v
    <2>4. Steady(w, v) /\ SameStatus(w, v) /\ w.kybdlock = v.kybdlock /\ w.flag = v.flag
      BY <1>2, <2>3, InsertSet DEF Quiet, Steady
    <2> HIDE DEF w
    <2>5. Quiet(x, w) /\ x.kybdlock = w.kybdlock \cup sent /\ x.told = w.told
      BY <1>2, <2>4, LockSet DEF Steady
    <2> HIDE DEF x
    <2>6. Steady(x, o)
      BY <2>1, <2>3, <2>4, <2>5, Chained DEF Quiet
    <2>7. Box(x) = Box(o) /\ x.told = wait /\ x.kybdlock = sent
      BY <1>1, <2>1, <2>2, <2>3, <2>4, <2>5 DEF Quiet, SameFlags, SameStatus, Box
    <2>8. Locked(x) /\ Free(x)
      BY <1>1, <1>2, <2>6, <2>7 DEF Steady, Fixed, Locked, Free, Line!Connected, sent
    <2>9. GoodArea(x)
      BY <1>1, <2>6, <2>7, <2>8, SteadyStep
    <2>10. PICK s \in Line!Outcomes(x) : o' = Line!set_status(Line!ticking_start(s), "UNDERA", TRUE)
      BY <1>5
    <2>11. GoodArea(s)
      BY <2>9, SendOver
    <2> QED BY <2>10, <2>11, KeySent
  <1> QED BY <1>1, <1>3, <1>4, <1>5

(* The sign of keys typed ahead.                                              *)
LEMMA TypingAhead ==
    ASSUME GoodArea(o), NEW on \in BOOLEAN, o' = Line!set_status(o, "TYPEAHEAD", on)
    PROVE  GoodArea(o')
  <1>1. "TYPEAHEAD" \in Line!Flags /\ "BOXSOLID" \in Line!Flags /\ Sound(o)
    BY DEF Line!Flags, GoodArea, Displayed
  <1>2. /\ Steady(o', o) /\ SameStatus(o', o) /\ (o').kybdlock = o.kybdlock
        /\ \A f \in Line!Flags : (o').flag[f] = IF f = "TYPEAHEAD" THEN on ELSE o.flag[f]
    BY <1>1, FlagSet
  <1>3. Box(o') = Box(o)
    BY <1>1, <1>2 DEF Box
  <1> QED BY <1>2, <1>3, UnlockedStep

(* Typing ahead, and running what was typed (enq_ta, run_ta), keep it.        *)
LEMMA Queueing ==
    ASSUME GoodArea(o), Line!Types \/ Line!run_ta
    PROVE  GoodArea(o')
  <1> DEFINE yes == TRUE
             no == FALSE
  <1>1. /\ yes \in BOOLEAN /\ no \in BOOLEAN
        /\ o' = Line!set_status(o, "TYPEAHEAD", yes) \/ o' = Line!set_status(o, "TYPEAHEAD", no)
    BY DEF Line!Types, Line!run_ta, Line!Becomes
  <1> HIDE DEF yes, no
  <1> QED BY <1>1, TypingAhead

(* The inhibition of the keyboard, over and begun.                            *)
LEMMA InhibitOver ==
    ASSUME NEW s, GoodArea(s), Line!Connected(s), NEW r, r = Line!kybd_inhibit(s, FALSE)
    PROVE  GoodArea(r) /\ r.cstate = s.cstate /\ Box(r) = Box(s)
  <1> DEFINE no == FALSE
  <1>1. no \in BOOLEAN /\ ~no /\ r = Line!kybd_inhibit(s, no) /\ Sound(s)
    BY DEF GoodArea, Displayed
  <1> HIDE DEF no
  <1>2. /\ Quiet(r, s) /\ r.kybdlock = s.kybdlock \ {"ENTER_INHIBIT"}
        /\ r.told = IF r.kybdlock = {} THEN "BLANK" ELSE s.told
    <2>1. /\ Quiet(r, s)
          /\ r.kybdlock = IF no THEN s.kybdlock \cup {"ENTER_INHIBIT"} ELSE s.kybdlock \ {"ENTER_INHIBIT"}
          /\ r.told = IF no /\ r.kybdlock = {"ENTER_INHIBIT"} THEN "INHIBIT"
                      ELSE IF ~no /\ r.kybdlock = {} THEN "BLANK" ELSE s.told
      <3>1. no \in BOOLEAN /\ r = Line!kybd_inhibit(s, no) /\ Sound(s)
        BY <1>1
      <3> QED BY ONLY <3>1, Inhibited
    <2> QED BY <1>1, <2>1
  <1>3. r.cstate = s.cstate /\ Box(r) = Box(s)
    BY <1>2 DEF Quiet, Steady, Fixed, SameFlags, Box
  <1>4. Locked(r) /\ Free(r)
    BY <1>2, <1>3 DEF GoodArea, Displayed, Locked, Free, Line!Connected, Line!InSscp, Line!In3270
  <1> QED BY <1>2, <1>3, <1>4, SteadyStep DEF Quiet

(* The keyboard is inhibited after a reply that may have ended the session.   *)
LEMMA InhibitBegun ==
    ASSUME NEW s, GoodArea(s), ~Line!InSscp(s), NEW r, r = Line!kybd_inhibit(s, TRUE)
    PROVE  GoodArea(r)
  <1> DEFINE yes == TRUE
  <1>1. /\ yes \in BOOLEAN /\ yes /\ r = Line!kybd_inhibit(s, yes) /\ Sound(s)
    BY DEF GoodArea, Displayed
  <1> HIDE DEF yes
  <1>2. /\ Quiet(r, s) /\ r.kybdlock = s.kybdlock \cup {"ENTER_INHIBIT"}
        /\ r.told = IF r.kybdlock = {"ENTER_INHIBIT"} THEN "INHIBIT" ELSE s.told
    <2>1. /\ Quiet(r, s)
          /\ r.kybdlock = IF yes THEN s.kybdlock \cup {"ENTER_INHIBIT"} ELSE s.kybdlock \ {"ENTER_INHIBIT"}
          /\ r.told = IF yes /\ r.kybdlock = {"ENTER_INHIBIT"} THEN "INHIBIT"
                      ELSE IF ~yes /\ r.kybdlock = {} THEN "BLANK" ELSE s.told
      BY ONLY <1>1, Inhibited
    <2> QED BY <1>1, <2>1
  <1>3. r.cstate = s.cstate /\ Box(r) = Box(s)
    BY <1>2 DEF Quiet, Steady, Fixed, SameFlags, Box
  <1>4. Locked(r)
    BY <1>2, <1>3 DEF GoodArea, Displayed, Locked, Line!Connected, Line!InSscp
  <1>5. Line!Connected(s) \/ r.told = s.told
    BY <1>2 DEF GoodArea, Displayed, Locked
  <1>6. Free(r)
    <2> SUFFICES ASSUME Line!In3270(r), r.told = "BLANK" PROVE "AWAITING_FIRST" \in r.kybdlock
      BY DEF Free
    <2>1. r.kybdlock # {"ENTER_INHIBIT"} /\ s.told = "BLANK" /\ Line!In3270(s)
      BY <1>2, <1>3 DEF Line!In3270
    <2>2. s.kybdlock \subseteq {"OIA_MINUS"} \/ "AWAITING_FIRST" \in s.kybdlock
      BY <2>1 DEF GoodArea, Displayed, Free
    <2>3. "OIA_MINUS" \notin s.kybdlock
      BY DEF GoodArea, Displayed, Locked
    <2> QED BY <1>2, <2>1, <2>2, <2>3
  <1> QED BY <1>2, <1>3, <1>4, <1>5, <1>6, SteadyStep DEF Quiet

(* The end of a query reply (sf.c) keeps it.                                  *)
LEMMA Replying ==
    ASSUME AreaAssumption, GoodArea(o), Line!query_reply_end
    PROVE  GoodArea(o')
  <1>1. PICK s \in Line!Outcomes(o) : o' = Line!kybd_inhibit(s, TRUE) /\ ~Line!InSscp(o)
    BY DEF Line!query_reply_end, Line!Becomes
  <1>2. GoodArea(s) /\ ~Line!InSscp(s)
    BY <1>1, SendOver DEF Line!InSscp
  <1> QED BY <1>1, <1>2, InhibitBegun

(* A reset, of the host's or of the user's.                                   *)
LEMMA Resetting ==
    ASSUME NEW s, GoodArea(s), Line!Connected(s), NEW explicit \in BOOLEAN,
           NEW r, r = Line!do_reset(s, explicit)
    PROVE  GoodArea(r)
  <1>1. /\ Steady(r, s) /\ Box(r) = Box(s)
        /\ \/ SameStatus(r, s) /\ r.kybdlock = s.kybdlock
           \/ /\ Line!Connected(s) /\ r.told = Text(r.kybdlock)
              /\ \/ r.kybdlock \in {{}, {"DEFERRED_UNLOCK"}}
                 \/ /\ r.kybdlock = s.kybdlock
                    /\ s.kybdlock \cap {"DEFERRED_UNLOCK", "OIA_TWAIT", "OIA_LOCKED", "AWAITING_FIRST"} = {}
    BY ResetDone DEF GoodArea, Displayed
  <1>2. CASE SameStatus(r, s) /\ r.kybdlock = s.kybdlock
    BY <1>1, <1>2, UnlockedStep
  <1>3. CASE r.told = Text(r.kybdlock) /\ r.kybdlock \in {{}, {"DEFERRED_UNLOCK"}}
    <2>1. Line!Connected(r)
      BY <1>1 DEF Steady, Fixed, Line!Connected
    <2>2. Locked(r) /\ Free(r)
      BY <1>3, <2>1 DEF Locked, Free, Text
    <2> QED BY <1>1, <2>2, SteadyStep
  <1>4. CASE /\ r.told = Text(r.kybdlock) /\ r.kybdlock = s.kybdlock
             /\ s.kybdlock \cap {"DEFERRED_UNLOCK", "OIA_TWAIT", "OIA_LOCKED", "AWAITING_FIRST"} = {}
    <2>1. r.cstate = s.cstate
      BY <1>1 DEF Steady, Fixed
    <2>2. Locked(r)
      BY <1>4, <2>1 DEF GoodArea, Displayed, Locked, Line!Connected, Line!InSscp
    <2>3. r.told = "BLANK" => "ENTER_INHIBIT" \notin r.kybdlock
      BY <1>4 DEF Text
    <2>4. s.kybdlock \subseteq Line!Locks /\ "NOT_CONNECTED" \notin s.kybdlock
      BY DEF GoodArea, Displayed, Sound, Area, Typed, Locked
    <2>5. Free(r)
      BY <1>4, <2>3, <2>4 DEF Free, Line!Locks
    <2> QED BY <1>1, <2>2, <2>5, SteadyStep
  <1> QED BY <1>1, <1>2, <1>3, <1>4

(* A write of the host, ctlr_write with all it does to lock and clock, keeps  *)
(* it.                                                                        *)
LEMMA Writing ==
    ASSUME AreaAssumption, GoodArea(o), Line!ctlr_write
    PROVE  GoodArea(o')
  <1> DEFINE s == Line!kybd_inhibit(o, FALSE)
             no == FALSE
             bits == {"OIA_TWAIT"}
             id == "SYSWAIT"
             u == Line!kybdlock_clr(s, bits)
  <1>1. PICK sec \in Line!Seconds(o) :
            \/ o' = Line!do_reset(Line!ticking_stop(s, sec), no)
            \/ "OIA_TWAIT" \in s.kybdlock /\ o' = Line!status_changed(u, id)
            \/ o' = s
    BY DEF Line!ctlr_write, Line!Becomes
  <1>2. sec \in 0 .. MaxTime /\ no \in BOOLEAN /\ id \in Statuses \ Line!Textless /\ id # "BLANK"
    BY SecondsBounded DEF Statuses, Line!Textless
  <1>3. Line!Connected(o)
    BY DEF Line!ctlr_write, Line!In3270, Line!Connected
  <1>4. GoodArea(s) /\ s.cstate = o.cstate
    BY <1>3, InhibitOver
  <1> HIDE DEF s, no, id
  <1>5. Line!Connected(s) /\ Sound(s)
    BY <1>3, <1>4 DEF Line!Connected, GoodArea, Displayed
  <1>6. CASE o' = Line!do_reset(Line!ticking_stop(s, sec), no)
    <2> DEFINE v == Line!ticking_stop(s, sec)
    <2>1. Timed(v, s)
      BY <1>2, <1>5, TickingStopped
    <2> HIDE DEF v
    <2>2. GoodArea(v) /\ Line!Connected(v)
      BY <1>4, <1>5, <2>1, TimedStep DEF Timed, Steady, Fixed, Line!Connected
    <2>3. o' = Line!do_reset(v, no)
      BY <1>6 DEF v
    <2> QED BY <1>2, <2>2, <2>3, Resetting
  <1>7. CASE "OIA_TWAIT" \in s.kybdlock /\ o' = Line!status_changed(u, id)
    <2>1. Quiet(u, s) /\ u.kybdlock = s.kybdlock \ bits
      BY <1>5, LockCleared
    <2> HIDE DEF u
    <2>2. Quiet(o', u) /\ (o').kybdlock = u.kybdlock /\ (o').told = id
      BY <1>2, <1>7, <2>1, StatusChanged DEF Quiet, Steady
    <2>3. Quiet(o', s)
      BY <2>1, <2>2, QuietChained
    <2>4. Locked(o') /\ Free(o')
      BY <1>2, <1>4, <1>5, <2>1, <2>2, <2>3
         DEF Quiet, Steady, Fixed, GoodArea, Displayed, Locked, Free, Line!Connected, Line!InSscp
    <2> QED BY <1>4, <1>5, <2>3, <2>4, SteadyStep DEF Quiet, SameFlags, Box
  <1> QED BY <1>1, <1>4, <1>6, <1>7

(* The keyboard is unlocked by the first data of a line-mode host, and after  *)
(* the delay.                                                                 *)
LEMMA Unlocking ==
    ASSUME GoodArea(o), Line!AnsiData \/ Line!defer_unlock
    PROVE  GoodArea(o')
  <1> DEFINE first == {"AWAITING_FIRST"}
             delay == {"DEFERRED_UNLOCK"}
  <1> SUFFICES ASSUME NEW bits \in {first, delay}, o' = Line!status_reset(Line!kybdlock_clr(o, bits)),
                      Line!Connected(o), bits = first => ~Line!In3270(o),
                      bits = delay => "DEFERRED_UNLOCK" \in o.kybdlock
               PROVE  GoodArea(o')
    <2>1. Line!AnsiData => Line!Connected(o) /\ ~Line!In3270(o)
      BY DEF Line!AnsiData, Line!InAnsi, Line!In3270, Line!Connected
    <2>2. Line!defer_unlock => Line!Connected(o)
      BY DEF Line!defer_unlock, GoodArea, Displayed, Locked
    <2>3. first # delay
      OBVIOUS
    <2>4. CASE Line!AnsiData
      BY <2>1, <2>3, <2>4 DEF Line!AnsiData, Line!Becomes
    <2>5. CASE Line!defer_unlock
      BY <2>2, <2>3, <2>5 DEF Line!defer_unlock, Line!Becomes
    <2> QED BY <2>4, <2>5
  <1> DEFINE u == Line!kybdlock_clr(o, bits)
  <1>1. Quiet(u, o) /\ u.kybdlock = o.kybdlock \ bits
    BY LockCleared DEF GoodArea, Displayed
  <1> HIDE DEF u
  <1>2. Quiet(o', u) /\ (o').kybdlock = u.kybdlock /\ (o').told = Text(u.kybdlock)
    <2>1. o' = Line!status_reset(u) /\ Sound(u)
      BY <1>1 DEF u, Quiet, Steady
    <2> QED BY <2>1, StatusReset
  <1>3. Quiet(o', o)
    BY <1>1, <1>2, QuietChained
  <1>4. (o').cstate = o.cstate /\ (o').kybdlock = o.kybdlock \ bits
    BY <1>1, <1>2, <1>3 DEF Quiet, Steady, Fixed
  <1>5. Locked(o')
    BY <1>4 DEF GoodArea, Displayed, Locked, Line!Connected, Line!InSscp
  <1>6. Free(o')
    <2>1. CASE bits = first
      BY <1>4, <2>1 DEF Free, Line!In3270
    <2>2. CASE bits = delay
      <3>1. o.kybdlock \subseteq {"DEFERRED_UNLOCK", "ENTER_INHIBIT"}
        BY <2>2 DEF GoodArea, Displayed, Locked
      <3> QED BY <1>1, <1>2, <2>2, <3>1 DEF Free, Text
    <2> QED BY <2>1, <2>2
  <1> QED BY <1>3, <1>5, <1>6, SteadyStep DEF Quiet, SameFlags, Box

(* keep_ticking (ctlr.c) keeps it, each second.                               *)
LEMMA Ticking ==
    ASSUME AreaAssumption, GoodArea(o), Line!keep_ticking
    PROVE  GoodArea(o')
  <1>1. PICK sec \in 0 .. MaxTime : o' = Line!oia_set_timer(o, sec)
    BY DEF Line!keep_ticking, Line!Becomes
  <1>2. sec \in -1 .. MaxTime
    OBVIOUS
  <1>3. Timed(o', o)
    BY <1>1, <1>2, TimerSet DEF Timed, GoodArea, Displayed
  <1> QED BY <1>3, TimedStep

(* The spinner's last turn, and the end of an LU's program.                   *)
LEMMA Turning ==
    ASSUME GoodArea(o), Line!SpinnerTurns
    PROVE  GoodArea(o')
  <1> DEFINE left == o.spinners - 1
  <1>1. o' = [o EXCEPT !.spinners = left] /\ ~(o.timer >= 0) /\ Sound(o) /\ left \in Nat
    BY DEF Line!SpinnerTurns, Line!Becomes, GoodArea, Displayed, Sound, Area, Typed
  <1> HIDE DEF left
  <1>2. Area(o')
    BY <1>1 DEF Sound, Area, Typed, Fields
  <1>3. /\ (o').cstate = o.cstate /\ (o').flag = o.flag /\ (o').text = o.text /\ (o').shift = o.shift
        /\ (o').secure_connection = o.secure_connection /\ (o').insert = o.insert
        /\ (o').valid_certificate = o.valid_certificate /\ (o').sock = o.sock
        /\ (o').script = o.script /\ (o').script_blink = o.script_blink
        /\ (o').connected_lu = o.connected_lu /\ (o').timer = o.timer
        /\ (o').cursor_position = o.cursor_position /\ (o').cursor_pos = o.cursor_pos /\ (o').painted = o.painted
        /\ (o').valid = o.valid /\ (o').updates = o.updates /\ (o').kybdlock = o.kybdlock
        /\ (o').attempt = o.attempt /\ (o').on_lu_pid = o.on_lu_pid /\ (o').children = o.children
    BY <1>1, <1>2 DEF Sound, Area, Fields
  <1>4. SameStatus(o', o)
    BY <1>1, <1>2 DEF Sound, Area, Fields, SameStatus
  <1>5. Keeps(o', o)
    BY <1>3, <1>4, Unseen DEF SameStatus
  <1>6. Sound(o')
    BY <1>1, <1>2, <1>3, <1>4 DEF Sound, Told, Spins, SameStatus
  <1>7. Current(o')
    BY <1>3, <1>5 DEF GoodArea, Displayed, Current, Keeps, Box, Line!Elements
  <1> QED BY <1>3, <1>4, <1>6, <1>7, WindowStep

(* The end of the child program that the LU's name has started keeps it.      *)
LEMMA ProgramEnding ==
    ASSUME GoodArea(o), Line!ChildEnds
    PROVE  GoodArea(o')
  <1> DEFINE left == o.children - 1
  <1>1. o' = [o EXCEPT !.children = left, !.on_lu_pid = FALSE] /\ Sound(o) /\ left = 0
    BY DEF Line!ChildEnds, Line!Becomes, GoodArea, Displayed, Child
  <1> HIDE DEF left
  <1>2. Area(o')
    BY <1>1 DEF Sound, Area, Typed, Fields
  <1>3. /\ (o').cstate = o.cstate /\ (o').flag = o.flag /\ (o').text = o.text /\ (o').shift = o.shift
        /\ (o').secure_connection = o.secure_connection /\ (o').insert = o.insert
        /\ (o').valid_certificate = o.valid_certificate /\ (o').sock = o.sock
        /\ (o').script = o.script /\ (o').script_blink = o.script_blink
        /\ (o').connected_lu = o.connected_lu /\ (o').timer = o.timer
        /\ (o').cursor_position = o.cursor_position /\ (o').cursor_pos = o.cursor_pos /\ (o').painted = o.painted
        /\ (o').valid = o.valid /\ (o').updates = o.updates /\ (o').kybdlock = o.kybdlock
        /\ (o').attempt = o.attempt /\ ~(o').on_lu_pid /\ (o').children = 0 /\ (o').spinners = o.spinners
    BY <1>1, <1>2 DEF Sound, Area, Fields
  <1>4. SameStatus(o', o)
    BY <1>1, <1>2 DEF Sound, Area, Fields, SameStatus
  <1>5. Keeps(o', o)
    BY <1>3, <1>4, Unseen DEF SameStatus
  <1>6. Sound(o')
    BY <1>1, <1>2, <1>3, <1>4 DEF Sound, Told, Spins, SameStatus
  <1>7. Current(o')
    BY <1>3, <1>5 DEF GoodArea, Displayed, Current, Keeps, Box, Line!Elements
  <1>8. Locked(o') /\ Free(o') /\ Child(o') /\ Stage(o')
    BY <1>3, <1>4
       DEF GoodArea, Displayed, Locked, Free, Child, Stage, SameStatus, Line!Connected,
          Line!InSscp, Line!In3270
  <1> QED BY <1>6, <1>7, <1>8 DEF GoodArea, Displayed

-----------------------------------------------------------------------------
(* The window and its user. *)

(* A step that repaints the one element it changes.                           *)
LEMMA RepaintingStep ==
    ASSUME NEW s, GoodArea(s), NEW el \in Line!Elements \ {"UNDERA"}, NEW u, Area(u),
           u.painted = s.painted, u.valid = s.valid,
           \A x \in Line!Elements \ {el} : Line!Drawn(u, x) = Line!Drawn(s, x),
           SameStatus(u, s), SameFlags(u, s), SameClock(u, s), u.kybdlock = s.kybdlock,
           u.cstate = s.cstate, u.sock = s.sock, u.attempt = s.attempt, u.updates = s.updates,
           u.on_lu_pid = s.on_lu_pid, u.children = s.children,
           NEW r, r = Line!update_oia_element(u, el)
    PROVE  GoodArea(r)
  <1>1. /\ Area(r) /\ Fixed(r, u) /\ SameStatus(r, u) /\ SameClock(r, u) /\ SameFlags(r, u)
        /\ r.kybdlock = u.kybdlock
        /\ Keeps(r, s) /\ Fresh(r, el)
    BY Repainted
  <1>2. Sound(r)
    BY <1>1 DEF GoodArea, Displayed, Sound, Told, Spins, SameStatus, SameClock
  <1>3. Current(r)
    BY <1>1 DEF GoodArea, Displayed, Current, Fixed, Keeps, SameFlags, Box, Line!Elements
  <1>4. SameStatus(r, s)
    BY <1>1 DEF SameStatus
  <1> QED BY <1>1, <1>2, <1>3, <1>4, WindowStep DEF Fixed

(* set_insert keeps it.                                                       *)
LEMMA Inserting ==
    ASSUME GoodArea(o), Line!Insert
    PROVE  GoodArea(o')
  <1> DEFINE on == ~o.insert
  <1>1. on \in BOOLEAN /\ o' = Line!set_insert(o, on) /\ Sound(o)
    BY DEF Line!Insert, Line!Happens, GoodArea, Displayed
  <1> HIDE DEF on
  <1>2. /\ Steady(o', o) /\ SameStatus(o', o) /\ (o').kybdlock = o.kybdlock /\ (o').flag = o.flag
    BY <1>1, InsertSet
  <1> QED BY <1>2, UnlockedStep DEF Box

(* ... and so does the shift key (update_keyboard_state).                     *)
LEMMA Shifting ==
    ASSUME GoodArea(o), Line!ShiftKey
    PROVE  GoodArea(o')
  <1> DEFINE shift == ~o.shift
             u == [o EXCEPT !.shift = shift]
             el == "SHIFT_STATE"
  <1>1. o' = Line!update_oia_element(u, el) /\ shift \in BOOLEAN /\ Sound(o)
    BY DEF Line!ShiftKey, Line!Happens, GoodArea, Displayed
  <1> HIDE DEF shift
  <1>2. /\ Area(u) /\ u.painted = o.painted /\ u.kybdlock = o.kybdlock /\ u.text = o.text
    BY <1>1 DEF Sound, Area, Typed, Fields
  <1>3. /\ u.cstate = o.cstate /\ u.secure_connection = o.secure_connection /\ u.script = o.script
        /\ u.valid_certificate = o.valid_certificate /\ u.sock = o.sock
        /\ u.script_blink = o.script_blink /\ u.connected_lu = o.connected_lu
        /\ u.cursor_position = o.cursor_position /\ u.cursor_pos = o.cursor_pos /\ u.valid = o.valid /\ u.updates = o.updates
        /\ u.attempt = o.attempt /\ u.on_lu_pid = o.on_lu_pid /\ u.children = o.children
    BY <1>1 DEF Sound, Area, Fields
  <1>4. SameStatus(u, o) /\ SameFlags(u, o) /\ SameClock(u, o)
    BY <1>1 DEF Sound, Area, Fields, SameStatus, SameFlags, SameClock
  <1> HIDE DEF u
  <1>5. el \in Line!Elements \ {"UNDERA"} /\ el = "SHIFT_STATE"
    BY DEF Line!Elements
  <1> HIDE DEF el
  <1>6. \A x \in Line!Elements \ {el} : Line!Drawn(u, x) = Line!Drawn(o, x)
    BY <1>2, <1>3, <1>4, <1>5, Depends DEF Line!Elements, SameStatus, SameFlags, SameClock
  <1> QED BY <1>1, <1>2, <1>3, <1>4, <1>5, <1>6, RepaintingStep

(* The script's sign, which blinks while a script runs or rests.              *)
Scripted(r, s, script, blink, blinks) ==
    r = [s EXCEPT !.script = script, !.script_blink = blink, !.blinks = blinks]

(* The sign of scripts is painted whenever what it shows changes.             *)
LEMMA ScriptStep ==
    ASSUME GoodArea(o), NEW script \in {"NONE", "RUNNING", "HALTED"}, NEW blink \in BOOLEAN,
           NEW blinks \in Int, NEW u, Scripted(u, o, script, blink, blinks),
           NEW r, r = Line!update_oia_element(u, "SCRIPT_INDICATOR")
    PROVE  GoodArea(r)
  <1> DEFINE el == "SCRIPT_INDICATOR"
  <1>1. Sound(o)
    BY DEF GoodArea, Displayed
  <1>2. /\ Area(u) /\ u.painted = o.painted /\ u.kybdlock = o.kybdlock /\ u.text = o.text
    BY <1>1 DEF Scripted, Sound, Area, Typed, Fields
  <1>3. /\ u.cstate = o.cstate /\ u.secure_connection = o.secure_connection /\ u.shift = o.shift
        /\ u.valid_certificate = o.valid_certificate /\ u.sock = o.sock
        /\ u.connected_lu = o.connected_lu
        /\ u.cursor_position = o.cursor_position /\ u.cursor_pos = o.cursor_pos /\ u.valid = o.valid /\ u.updates = o.updates
        /\ u.attempt = o.attempt /\ u.on_lu_pid = o.on_lu_pid /\ u.children = o.children
    BY <1>1 DEF Scripted, Sound, Area, Fields
  <1>4. SameStatus(u, o) /\ SameFlags(u, o) /\ SameClock(u, o)
    BY <1>1 DEF Scripted, Sound, Area, Fields, SameStatus, SameFlags, SameClock
  <1>5. el \in Line!Elements \ {"UNDERA"} /\ el = "SCRIPT_INDICATOR"
    BY DEF Line!Elements
  <1> HIDE DEF el
  <1>6. \A x \in Line!Elements \ {el} : Line!Drawn(u, x) = Line!Drawn(o, x)
    BY <1>2, <1>3, <1>4, <1>5, Depends DEF Line!Elements, SameStatus, SameFlags, SameClock
  <1>7. r = Line!update_oia_element(u, el)
    BY <1>5
  <1> QED BY <1>2, <1>3, <1>4, <1>5, <1>6, <1>7, RepaintingStep

(* SetScript and the timer that makes the sign blink keep the invariant.      *)
LEMMA Scripting ==
    ASSUME GoodArea(o), Line!SetScript \/ Line!script_timer
    PROVE  GoodArea(o')
  <1>1. Sound(o) /\ o.blinks \in Int /\ o.script_blink \in BOOLEAN /\ o.script \in {"NONE", "RUNNING", "HALTED"}
    BY DEF GoodArea, Displayed, Sound, Area, Typed
  <1>2. CASE Line!SetScript
    <2> DEFINE yes == TRUE
               blinks == IF o.script = "NONE" THEN o.blinks + 1 ELSE o.blinks
    <2>1. PICK state \in {"NONE", "RUNNING", "HALTED"} :
              o' = Line!update_oia_element([o EXCEPT !.script = state, !.script_blink = TRUE,
                                                     !.blinks = IF o.script = "NONE" THEN @ + 1 ELSE @],
                                           "SCRIPT_INDICATOR")
      BY <1>2 DEF Line!SetScript, Line!Happens
    <2> DEFINE u == [o EXCEPT !.script = state, !.script_blink = yes, !.blinks = blinks]
    <2>2. o' = Line!update_oia_element(u, "SCRIPT_INDICATOR") /\ Scripted(u, o, state, yes, blinks)
      BY <2>1 DEF Scripted
    <2>3. yes \in BOOLEAN /\ blinks \in Int
      BY <1>1
    <2> HIDE DEF u, yes, blinks
    <2> QED BY ONLY GoodArea(o), <2>2, <2>3, ScriptStep
  <1>3. CASE Line!script_timer
    <2> DEFINE blink == ~o.script_blink
               blinks == IF o.script = "NONE" THEN o.blinks - 1 ELSE o.blinks
               u == [o EXCEPT !.script = o.script, !.script_blink = blink, !.blinks = blinks]
    <2>1. u = [o EXCEPT !.script_blink = blink, !.blinks = blinks]
      BY <1>1 DEF Sound, Area, Fields
    <2>2. o' = Line!update_oia_element(u, "SCRIPT_INDICATOR") /\ Scripted(u, o, o.script, blink, blinks)
      BY <1>3, <2>1 DEF Scripted, Line!script_timer, Line!Becomes
    <2>3. blink \in BOOLEAN /\ blinks \in Int
      BY <1>1
    <2> HIDE DEF u, blink, blinks
    <2> QED BY <1>1, <2>2, <2>3, ScriptStep
  <1> QED BY <1>2, <1>3

(* The pixmap painted whole, lost, and with it or without it the cursor.      *)
LEMMA DrawnWhole ==
    ASSUME NEW s, GoodArea(s), NEW u, Area(u), SameStatus(u, s), SameFlags(u, s), SameClock(u, s),
           u.kybdlock = s.kybdlock, u.cstate = s.cstate, u.attempt = s.attempt,
           u.on_lu_pid = s.on_lu_pid, u.children = s.children, NEW r, r = Line!draw_oia(u)
    PROVE  GoodArea(r)
  <1> DEFINE els == Line!Elements
  <1>1. els \subseteq Line!Elements /\ els = Line!Elements /\ r = Line!update_oia_elements(u, els)
    BY DEF Line!draw_oia
  <1> HIDE DEF els
  <1>2. /\ Area(r) /\ Fixed(r, u) /\ SameStatus(r, u) /\ SameClock(r, u) /\ SameFlags(r, u)
        /\ r.kybdlock = u.kybdlock /\ \A el \in els : Fresh(r, el)
    BY <1>1, Painted
  <1>3. Sound(r)
    BY <1>2 DEF GoodArea, Displayed, Sound, Told, Spins, SameStatus, SameClock
  <1>4. Current(r)
    BY <1>1, <1>2 DEF Current, Line!Elements
  <1> QED BY <1>2, <1>3, <1>4, WindowStep DEF Fixed, SameStatus

(* What the window's own fields are.                                          *)
Windowed(r, s, valid, updates, position, shown) ==
    r = [s EXCEPT !.valid = valid, !.updates = updates, !.cursor_position = position, !.cursor_pos = shown]

(* What of the session no step of the window's changes.                       *)
SameSession(r, s) ==
    /\ SameStatus(r, s) /\ SameFlags(r, s) /\ SameClock(r, s) /\ r.kybdlock = s.kybdlock
    /\ r.cstate = s.cstate /\ r.sock = s.sock /\ r.attempt = s.attempt
    /\ r.on_lu_pid = s.on_lu_pid /\ r.children = s.children

(* What is the window's own in the state shows on no element but the cursor's *)
(* position.                                                                  *)
LEMMA WindowSet ==
    ASSUME NEW s, Sound(s), NEW valid \in BOOLEAN, NEW updates \in BOOLEAN, NEW position \in {0, 1},
           NEW shown \in BOOLEAN, NEW r, Windowed(r, s, valid, updates, position, shown)
    PROVE  /\ Sound(r) /\ SameSession(r, s)
           /\ r.valid = valid /\ r.updates = updates /\ r.cursor_position = position /\ r.cursor_pos = shown
           /\ r.painted = s.painted
           /\ \A el \in Line!Elements \ {"CURSOR_POSITION"} : Line!Drawn(r, el) = Line!Drawn(s, el)
  <1>1. /\ Area(r) /\ r.painted = s.painted /\ r.kybdlock = s.kybdlock /\ r.text = s.text
        /\ r.valid = valid /\ r.updates = updates /\ r.cursor_position = position /\ r.cursor_pos = shown
    BY DEF Windowed, Sound, Area, Typed, Fields
  <1>2. /\ r.cstate = s.cstate /\ r.secure_connection = s.secure_connection /\ r.shift = s.shift
        /\ r.valid_certificate = s.valid_certificate /\ r.sock = s.sock
        /\ r.connected_lu = s.connected_lu /\ r.script = s.script /\ r.script_blink = s.script_blink
        /\ r.attempt = s.attempt /\ r.on_lu_pid = s.on_lu_pid /\ r.children = s.children
    BY DEF Windowed, Sound, Area, Fields
  <1>3. SameStatus(r, s) /\ SameFlags(r, s) /\ SameClock(r, s)
    BY DEF Windowed, Sound, Area, Fields, SameStatus, SameFlags, SameClock
  <1>4. Sound(r)
    BY <1>1, <1>3 DEF Sound, Told, Spins, SameStatus, SameClock
  <1>5. \A el \in Line!Elements \ {"CURSOR_POSITION"} : Line!Drawn(r, el) = Line!Drawn(s, el)
    BY <1>1, <1>2, <1>3, Depends DEF Line!Elements, SameStatus, SameFlags, SameClock
  <1> QED BY <1>1, <1>2, <1>3, <1>4, <1>5 DEF SameSession

(* While the drawing is suspended the cursor's position may be late.          *)
LEMMA HiddenStep ==
    ASSUME NEW s, GoodArea(s), NEW r, Sound(r), SameSession(r, s), ~r.updates,
           r.painted = s.painted, r.valid = s.valid,
           \A x \in Line!Elements \ {"CURSOR_POSITION"} : Line!Drawn(r, x) = Line!Drawn(s, x)
    PROVE  GoodArea(r)
  <1>1. \A x \in Line!Elements \ {"CURSOR_POSITION"} : Fresh(s, x) => Fresh(r, x)
    BY DEF Fresh
  <1>2. Current(r)
    BY <1>1 DEF GoodArea, Displayed, Current, SameSession, SameFlags, Box, Line!Elements
  <1> QED BY <1>2, WindowStep DEF SameSession

(* Drawing suspended and resumed.                                             *)
LEMMA Suspending ==
    ASSUME GoodArea(o), Line!SetSuspended
    PROVE  GoodArea(o')
  <1> DEFINE valid == o.valid
             updates == ~o.updates
             position == o.cursor_position
             shown == o.cursor_pos
             u == [o EXCEPT !.updates = updates]
  <1>1. /\ valid \in BOOLEAN /\ updates \in BOOLEAN /\ position \in {0, 1} /\ shown \in BOOLEAN /\ Sound(o)
        /\ Windowed(u, o, valid, updates, position, shown)
    BY DEF GoodArea, Displayed, Sound, Area, Typed, Fields, Windowed
  <1>2. /\ updates \/ o' = u
        /\ ~updates \/ o' = Line!draw_oia(u)
    BY <1>1 DEF Line!SetSuspended, Line!Happens, Line!Becomes, Sound, Area, Typed, Fields
  <1>3. valid = o.valid
    OBVIOUS
  <1> HIDE DEF valid, updates, position, shown, u
  <1>4. /\ Sound(u) /\ SameSession(u, o) /\ u.valid = valid /\ u.updates = updates /\ u.painted = o.painted
        /\ \A el \in Line!Elements \ {"CURSOR_POSITION"} : Line!Drawn(u, el) = Line!Drawn(o, el)
    BY <1>1, WindowSet
  <1>5. CASE ~updates
    BY <1>2, <1>3, <1>4, <1>5, HiddenStep
  <1>6. CASE updates
    BY <1>2, <1>4, <1>6, DrawnWhole DEF Sound, SameSession
  <1> QED BY <1>5, <1>6

(* The cursor moves, which is shown unless the drawing is suspended.          *)
LEMMA CursorMoving ==
    ASSUME GoodArea(o), Line!update_cursor_position
    PROVE  GoodArea(o')
  <1> DEFINE valid == o.valid
             updates == o.updates
             position == 1 - o.cursor_position
             shown == o.cursor_pos
             u == [o EXCEPT !.cursor_position = position]
             el == "CURSOR_POSITION"
  <1>1. /\ valid \in BOOLEAN /\ updates \in BOOLEAN /\ position \in {0, 1} /\ shown \in BOOLEAN /\ Sound(o)
        /\ Windowed(u, o, valid, updates, position, shown)
    <2>1. valid \in BOOLEAN /\ updates \in BOOLEAN /\ position \in {0, 1} /\ shown \in BOOLEAN /\ Sound(o)
      BY DEF GoodArea, Displayed, Sound, Area, Typed
    <2> HIDE DEF position
    <2> QED BY <2>1 DEF Sound, Area, Fields, Windowed
  <1>2. o' = IF u.updates THEN Line!update_oia_element(u, el) ELSE u
    BY DEF Line!update_cursor_position, Line!Happens, Line!Becomes
  <1>3. valid = o.valid /\ updates = o.updates /\ el = "CURSOR_POSITION" /\ el \in Line!Elements \ {"UNDERA"}
    BY DEF Line!Elements
  <1> HIDE DEF valid, updates, position, shown, u, el
  <1>4. /\ Sound(u) /\ SameSession(u, o) /\ u.valid = valid /\ u.updates = updates /\ u.painted = o.painted
        /\ \A x \in Line!Elements \ {"CURSOR_POSITION"} : Line!Drawn(u, x) = Line!Drawn(o, x)
    BY <1>1, WindowSet
  <1>5. CASE ~u.updates
    BY <1>2, <1>3, <1>4, <1>5, HiddenStep
  <1>6. CASE u.updates
    <2>1. o' = Line!update_oia_element(u, el)
      BY <1>2, <1>6
    <2> QED BY <1>3, <1>4, <2>1, RepaintingStep DEF Sound, SameSession
  <1> QED BY <1>5, <1>6

(* Its position is shown or not (set_showcursor, terminal.c).                 *)
LEMMA ShowingCursor ==
    ASSUME GoodArea(o), Line!set_showcursor
    PROVE  GoodArea(o')
  <1> DEFINE valid == o.valid
             updates == o.updates
             position == o.cursor_position
             shown == ~o.cursor_pos
             u == [o EXCEPT !.cursor_pos = shown]
             el == "CURSOR_POSITION"
  <1>1. /\ valid \in BOOLEAN /\ updates \in BOOLEAN /\ position \in {0, 1} /\ shown \in BOOLEAN /\ Sound(o)
        /\ Windowed(u, o, valid, updates, position, shown)
    BY DEF GoodArea, Displayed, Sound, Area, Typed, Fields, Windowed
  <1>2. o' = Line!update_oia_element(u, el)
    BY DEF Line!set_showcursor, Line!Happens
  <1>3. valid = o.valid /\ updates = o.updates /\ el = "CURSOR_POSITION" /\ el \in Line!Elements \ {"UNDERA"}
    BY DEF Line!Elements
  <1> HIDE DEF valid, updates, position, shown, u, el
  <1>4. /\ Sound(u) /\ SameSession(u, o) /\ u.valid = valid /\ u.updates = updates /\ u.painted = o.painted
        /\ \A x \in Line!Elements \ {"CURSOR_POSITION"} : Line!Drawn(u, x) = Line!Drawn(o, x)
    BY <1>1, WindowSet
  <1> QED BY <1>2, <1>3, <1>4, RepaintingStep DEF Sound, SameSession

(* The pixmap is lost, and painted again.                                     *)
LEMMA Exposing ==
    ASSUME GoodArea(o), Line!expose
    PROVE  GoodArea(o')
  <1> DEFINE valid == TRUE
             updates == o.updates
             position == o.cursor_position
             shown == o.cursor_pos
             u == [o EXCEPT !.valid = valid]
  <1>1. /\ valid \in BOOLEAN /\ updates \in BOOLEAN /\ position \in {0, 1} /\ shown \in BOOLEAN /\ Sound(o)
        /\ Windowed(u, o, valid, updates, position, shown)
    BY DEF GoodArea, Displayed, Sound, Area, Typed, Fields, Windowed
  <1>2. o' = Line!draw_oia(u)
    BY DEF Line!expose, Line!Becomes
  <1> HIDE DEF valid, updates, position, shown, u
  <1>3. Sound(u) /\ SameSession(u, o)
    BY <1>1, WindowSet
  <1> QED BY <1>2, <1>3, DrawnWhole DEF Sound, SameSession

(* ResizeTerminal keeps the invariant: the pixmap of the area is gone, and    *)
(* nothing is claimed of it until it is drawn.                                *)
LEMMA Resizing ==
    ASSUME GoodArea(o), Line!ResizeTerminal
    PROVE  GoodArea(o')
  <1> DEFINE blank == Line!Blank
  <1>1. o' = [o EXCEPT !.valid = FALSE, !.painted = blank] /\ Sound(o)
    BY DEF Line!ResizeTerminal, Line!Happens, GoodArea, Displayed
  <1>2. blank \in [Line!Elements -> Signs]
    BY DEF Line!Blank, Signs
  <1> HIDE DEF blank
  <1>3. Area(o')
    BY <1>1, <1>2 DEF Sound, Area, Typed, Fields
  <1>4. /\ (o').kybdlock = o.kybdlock /\ (o').cstate = o.cstate /\ (o').attempt = o.attempt
        /\ (o').on_lu_pid = o.on_lu_pid /\ (o').children = o.children /\ ~(o').valid
    BY <1>1, <1>3 DEF Sound, Area, Fields
  <1>5. SameStatus(o', o) /\ SameClock(o', o)
    BY <1>1, <1>3 DEF Sound, Area, Fields, SameStatus, SameClock
  <1>6. Sound(o')
    BY <1>1, <1>3, <1>5 DEF Sound, Told, Spins, SameStatus, SameClock
  <1>7. Current(o')
    BY <1>4 DEF Current, Fresh
  <1> QED BY <1>4, <1>5, <1>6, <1>7, WindowStep

(* The whole of it.                                                           *)
LEMMA AreaInit ==
    ASSUME AreaAssumption, Line!Init
    PROVE  GoodArea(o) /\ o.spinners <= MaxTimers
  <1>1. /\ o.cstate = "NOT_CONNECTED" /\ o.kybdlock = {"NOT_CONNECTED"} /\ o.oia_status = "none"
        /\ o.attempt = "none" /\ o.msg = "DISCONNECTED" /\ o.told = "DISCONNECTED"
        /\ ~o.valid /\ o.timer = -1 /\ o.spinners = 0 /\ ~o.on_lu_pid /\ o.children = 0
    BY DEF Line!Init
  <1>2. Area(o)
    <2>1. o = [f \in Fields |-> o[f]]
      BY DEF Line!Init, Fields
    <2>2. Line!Blank \in [Line!Elements -> Signs] /\ [f \in Line!Flags |-> FALSE] \in [Line!Flags -> BOOLEAN]
      BY DEF Line!Blank, Signs
    <2>3. "BLANK" \in Texted /\ "DISCONNECTED" \in Texted /\ "DISCONNECTED" \in Statuses
          /\ "NOT_CONNECTED" \in Line!Modes /\ "NOT_CONNECTED" \in Line!Locks
      BY DEF Texted, Statuses, Line!Textless, Line!Modes, Line!Locks
    <2>4. Typed(o)
      BY <2>2, <2>3 DEF AreaAssumption, Line!Init, Typed
    <2> QED BY <2>1, <2>4 DEF Area
  <1>3. Sound(o)
    BY <1>1, <1>2 DEF Sound, Told, Spins
  <1>4. Current(o)
    BY <1>1 DEF Current, Fresh
  <1>5. Locked(o) /\ Free(o) /\ Child(o) /\ Stage(o)
    BY <1>1 DEF Locked, Free, Child, Stage, Line!Connected, Line!In3270
  <1> QED BY <1>1, <1>3, <1>4, <1>5 DEF AreaAssumption, GoodArea, Displayed

(* Every step of the model keeps the invariant.                               *)
LEMMA AreaNext ==
    ASSUME AreaAssumption, GoodArea(o), Line!Next
    PROVE  GoodArea(o')
  <1>1. CASE Line!Session
    BY <1>1, Attempting, Disconnecting, Encrypting, ChoosingMode, NamingLU, Sending, Queueing,
       Writing,
       Replying, Unlocking, Ticking, Turning, ProgramEnding DEF Line!Session
  <1>2. CASE Line!Window
    <2>1. ASSUME Line!Reset PROVE GoodArea(o')
      <3> DEFINE yes == TRUE
      <3>1. Line!Connected(o) /\ o' = Line!do_reset(o, yes) /\ yes \in BOOLEAN
        BY <2>1 DEF Line!Reset, Line!Happens
      <3> HIDE DEF yes
      <3> QED BY <3>1, Resetting
    <2> QED BY <1>2, <2>1, Inserting, Shifting, Scripting, Suspending, CursorMoving, ShowingCursor,
       Exposing,
       Resizing
            DEF Line!Window
  <1> QED BY <1>1, <1>2 DEF Line!Next

(* In every behaviour the area tells the truth: each element shows what it    *)
(* stands for, but for the letter where the box is not solid and the lock of  *)
(* a session whose socket a failed STARTTLS took away; no message tells of a  *)
(* wait, a lock or a session that is over, the clock turns while it shows     *)
(* seconds, and each program started for an LU is watched (oia.c).            *)
THEOREM AreaTellsTheTruth ==
    ASSUME AreaAssumption PROVE Line!Spec => []OiaTruthful
  <1> DEFINE AreaKept == GoodArea(o) /\ o.spinners <= MaxTimers
  <1>1. Line!Init => AreaKept
    BY AreaInit
  <1>2. AreaKept /\ [Line!Next]_Line!vars => AreaKept'
    <2>1. CASE Line!Next
      BY <2>1, AreaNext DEF Line!Next
    <2>2. CASE UNCHANGED Line!vars
      BY <2>2 DEF Line!vars, GoodArea, Displayed, Sound, Area, Typed, Told, Spins, Current, Fresh,
         Box, Locked, Free, Child, Stage
    <2> QED BY <2>1, <2>2
  <1>3. AreaKept => OiaTruthful
    BY Truthful DEF OiaTruthful
  <1> QED BY <1>1, <1>2, <1>3, PTL DEF Line!Spec
=============================================================================
