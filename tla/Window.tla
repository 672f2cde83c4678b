-------------------------------- MODULE Window --------------------------------
(***************************************************************************)
(* The terminal window: how the library's buffer reaches it                *)
(* (src/src/lib/screen.c), what the window keeps of it                     *)
(* (src/src/gtk2/screen.c) and what is painted on the pixmap it is exposed *)
(* from (src/src/gtk2/draw.c, terminal.c), through changes of model, of    *)
(* the part of the screen in use and of the window itself.                 *)
(*                                                                         *)
(* A size is <<rows, columns>>.  The buffer is addressed by the size in    *)
(* use, the window by that of the model.  Colours and fonts are left out.  *)
(***************************************************************************)
EXTENDS Integers, FiniteSets, FiniteSetsExt

CONSTANTS
    Models,         \* sizes of the models that can be chosen
    Oversizes,      \* sizes the option "oversize" may ask for
    Standard,       \* the size of a write that is not alternate, 24x80
    Screens         \* what the host writes: buffers of the largest size

VARIABLES
    w,              \* library and window: see Windows
    connected

vars == <<w, connected>>

NoPixmap   == <<>>
NoOversize == <<0, 0>>
Area(size) == 0 .. size[1] * size[2] - 1
Shown      == {"blank", "a", "A"}
Blanked(size) == [x \in Area(size) |-> "blank"]
Largest    == Max({s[1] * s[2] : s \in Models \cup Oversizes})
Fits(s, t) == s[1] <= t[1] /\ s[2] <= t[2]

(* A buffer position as the window addresses it.                              *)
Place(x, size, all) == (x \div size[2]) * all[2] + (x % size[2])
Places(size, all)   == {Place(x, size, all) : x \in Area(size)}

(* ... and the one that the window addresses so.                              *)
Position(at, size, all) == (at \div all[2]) * size[2] + (at % all[2])

Windows ==
    [model : Models, ov : Oversizes \cup {NoOversize}, max : Models \cup Oversizes,
     size : Models \cup Oversizes \cup {Standard}, alt : BOOLEAN, cursor : Nat,
     ea : [0 .. Largest - 1 -> {"null", "a", "A", "field", "hidden"}], upper : BOOLEAN,
     view : Models \cup Oversizes \cup {Standard}, gcursor : Nat, enabled : BOOLEAN]

-----------------------------------------------------------------------------
(* Painting. *)

(* The whole of what the window keeps is painted; redraw and expose do it.    *)
update_terminal_contents(s) == [s EXCEPT !.pix = s.content]

redraw(s) == IF s.pix = NoPixmap THEN s ELSE update_terminal_contents(s)

(* What has changed in the part in view is painted.                           *)
display(s) ==
    LET now == s.changed \cap Places(s.view, s.max)
    IN  IF s.pix = NoPixmap \/ ~s.enabled THEN s
        ELSE [s EXCEPT !.pix = [x \in DOMAIN @ |-> IF x \in now THEN s.content[x] ELSE @[x]],
                       !.changed = @ \ now]

erase(s) ==
    LET view == Places(s.view, s.max)
    IN  [s EXCEPT !.content = Blanked(s.max), !.changed = {},
                  !.pix = IF @ = NoPixmap \/ ~s.enabled THEN @
                          ELSE [x \in DOMAIN @ |-> IF x \in view THEN "blank" ELSE @[x]]]

update_cursor_position(s, a) ==
    [s EXCEPT !.cursor = a, !.gcursor = IF a = s.cursor THEN @ ELSE Place(a, s.size, s.max)]

-----------------------------------------------------------------------------
(* From the buffer to the window. *)

Attributes(s) == {x \in Area(s.size) : s.ea[x] \in {"field", "hidden"}}

(* The attribute in force at x is the last one up to it, round the end.       *)
InForce(s, x) ==
    LET before == {y \in Attributes(s) : y <= x}
    IN  IF Attributes(s) = {} THEN "field"
        ELSE s.ea[IF before # {} THEN Max(before) ELSE Max(Attributes(s))]

Displayed(s, x) ==
    CASE s.ea[x] \notin {"a", "A"} \/ InForce(s, x) = "hidden" -> "blank"
      [] s.upper -> "A"
      [] OTHER   -> s.ea[x]

(* Mutant: what the window is given is kept, but nothing is marked.           *)
addchUnmarked(s, shown) == [s EXCEPT !.content = shown]

(* The window keeps what it is given for each of its positions, and marks     *)
(* those where that is not what it had.                                       *)
addch(s, shown) ==
    [s EXCEPT !.content = shown, !.changed = @ \cup {at \in DOMAIN shown : shown[at] # s.content[at]}]

screen_update(s) ==
    LET used == Places(s.size, s.max)
    IN  addch(s, [at \in DOMAIN s.content |->
                    IF at \in used THEN Displayed(s, Position(at, s.size, s.max)) ELSE s.content[at]])

screen_disp(s) == display(screen_update(s))

(* Resuming what was not suspended paints nothing.                            *)
SetSuspended(s, suspended) ==
    LET t == [s EXCEPT !.enabled = ~suspended]
    IN  IF s.enabled = ~suspended \/ suspended THEN t ELSE redraw(t)

-----------------------------------------------------------------------------
(* Sizes. *)

view_changed(s, size) == IF Fits(size, s.max) THEN redraw([s EXCEPT !.view = size]) ELSE s

set_viewsize(s, size) ==
    IF size = s.size THEN s ELSE view_changed([s EXCEPT !.size = size], size)

model_changed(s) ==
    redraw([s EXCEPT !.content = Blanked(s.max), !.changed = {}, !.view = s.max])

update_model_info(s, model, size) ==
    IF s.model = model /\ s.max = size THEN s
    ELSE model_changed([s EXCEPT !.model = model, !.max = size])

ctlr_set_rows_cols(s, model, ov) ==
    LET plain == [update_model_info(s, model, model) EXCEPT !.ov = NoOversize]
        large == IF ov # NoOversize /\ Fits(model, ov)
                 THEN update_model_info([plain EXCEPT !.ov = ov], model, ov) ELSE plain
    IN  set_viewsize([large EXCEPT !.alt = FALSE], model)

ctlr_reinit(s) ==
    [s EXCEPT !.ea = [x \in DOMAIN @ |-> "null"], !.cursor = 0]

(* The part in use is cleared, with the cursor, and the window erased.        *)
ctlr_clear(s) ==
    erase(update_cursor_position(
        [s EXCEPT !.ea = [x \in DOMAIN @ |-> IF x \in Area(s.size) THEN "null" ELSE @[x]]], 0))

(* Mutant: the window is not erased before it changes its size.               *)
ctlr_eraseLate(s, alt) ==
    LET t == [s EXCEPT !.ea = [x \in DOMAIN @ |-> "null"]]
    IN  [set_viewsize(update_cursor_position(t, 0), IF alt THEN t.max ELSE Standard)
           EXCEPT !.alt = alt]

ctlr_erase(s, alt) ==
    LET t == ctlr_clear(s)
        sized == CASE alt -> set_viewsize(screen_disp(t), t.max)
                   [] ~alt /\ ~Fits(t.max, Standard) -> set_viewsize(t, Standard)
                   [] OTHER -> t
    IN  IF alt = s.alt THEN t ELSE [sized EXCEPT !.alt = alt]

-----------------------------------------------------------------------------
(* The program after its start-up, with no window on the display yet.  With   *)
(* an oversize, the window is of that size and the buffer in use is not.      *)
Init ==
    /\ connected = FALSE
    /\ \E model \in Models, ov \in Oversizes \cup {NoOversize} :
         LET over == ov # NoOversize /\ Fits(model, ov)
             max  == IF over THEN ov ELSE model
         IN  w = [model |-> model, ov |-> IF over THEN ov ELSE NoOversize, max |-> max,
                  size |-> model, alt |-> FALSE, cursor |-> 0,
                  ea |-> [x \in 0 .. Largest - 1 |-> "null"], upper |-> FALSE,
                  view |-> max, content |-> Blanked(max), changed |-> {}, gcursor |-> 0,
                  pix |-> NoPixmap, enabled |-> FALSE]

Does(s) == w' = s /\ UNCHANGED connected

(* Orders of the host, which reach the window with the next display.          *)
HostWrites ==
    \E buf \in Screens :
        /\ connected
        /\ Does([w EXCEPT !.ea = [x \in DOMAIN @ |-> IF x \in Area(w.size) THEN buf[x] ELSE @[x]]])

HostErases == \E alt \in BOOLEAN : connected /\ Does(ctlr_erase(w, alt))

(* status_reset and the keys that edit.                                       *)
Displays == connected /\ Does(screen_disp(w))

CursorMoves == \E a \in Area(w.size) : connected /\ Does(update_cursor_position(w, a))

(* The debugging action fills the buffer, the part not in use too.            *)
testpattern == \E c \in {"a", "A"} : Does(screen_disp([w EXCEPT !.ea = [x \in DOMAIN @ |-> c]]))

(* Mutant: the end of a session leaves the screen as it is.                   *)
KeepScreen == connected' = ~connected /\ UNCHANGED w

status_connect == connected' = ~connected /\ w' = ctlr_erase(w, TRUE)

lib3270_set_model ==
    \E m \in Models : ~connected /\ Does(ctlr_reinit(ctlr_set_rows_cols(w, m, w.ov)))

set_monocase == Does(screen_disp([w EXCEPT !.upper = ~@]))

screen_suspend == w.enabled /\ Does(SetSuspended(w, TRUE))

screen_resume == Does(SetSuspended(screen_disp(w), FALSE))

(* A window that was resized is painted anew when it is exposed.              *)
ResizeTerminal == w.pix # NoPixmap /\ Does([w EXCEPT !.pix = NoPixmap])

expose == w.pix = NoPixmap /\ Does(update_terminal_contents(w))

Next == \/ HostWrites \/ HostErases \/ Displays \/ CursorMoves \/ testpattern
        \/ status_connect \/ lib3270_set_model \/ set_monocase
        \/ screen_suspend \/ screen_resume \/ ResizeTerminal \/ expose

Spec == Init /\ [][Next]_vars

-----------------------------------------------------------------------------
(* While updates are not suspended, each position of the window shows what    *)
(* the window keeps for it, or is marked to be painted: display paints only   *)
(* the marked ones, and erasing, resizing and resuming have to leave none     *)
(* behind.                                                                    *)
PixmapCurrent ==
    w.pix # NoPixmap /\ w.enabled =>
        /\ DOMAIN w.pix = DOMAIN w.content
        /\ \A x \in DOMAIN w.pix : x \in w.changed \/ w.pix[x] = w.content[x]

(* The window's cursor and view are those of the buffer, in the window's own  *)
(* addresses, and the cursor is on the screen: changing the model resets the  *)
(* library's cursor without a word to the window, which is right only because *)
(* the end of the session had moved both home.  With an oversize the view is  *)
(* that of the whole window: model and oversize set it one after the other.   *)
(* Positions outside the part in use are blank, though only those inside are  *)
(* ever updated: the larger screen is erased before the smaller one is used.  *)
WindowAgrees ==
    /\ \A x \in DOMAIN w.content \ Places(w.size, w.max) : w.content[x] = "blank"
    /\ w.gcursor = Place(w.cursor, w.size, w.max)
    /\ w.gcursor \in DOMAIN w.content
    /\ w.ov = NoOversize => w.view = w.size
    /\ [f \in DOMAIN w \ {"content", "changed", "pix"} |-> w[f]] \in Windows

(* Both: what is kept is right, and it is what is seen.                       *)
WindowShows == PixmapCurrent /\ WindowAgrees
=============================================================================
