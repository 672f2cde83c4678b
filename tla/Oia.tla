--------------------------------- MODULE Oia ---------------------------------
(***************************************************************************)
(* The operator information area under the screen: what the library tells  *)
(* the window (src/src/lib/screen.c, and its callers in host.c, kybd.c,    *)
(* ctlr.c and telnet.c), and what the window paints of it                  *)
(* (src/src/gtk2/oia.c, screen.c, terminal.c).  An element is painted from *)
(* the state of the library and of the window at that moment, into a       *)
(* pixmap that lasts: it stays as it is until something paints it again.   *)
(*                                                                         *)
(* A helper takes the record of all this and returns the changed one.  The *)
(* session is Keyboard's and Connection's subject; here it is as much as   *)
(* the area shows.  Colours and positions are left out.                    *)
(***************************************************************************)
EXTENDS Integers, Sequences, FiniteSets, TLC

CONSTANTS
    ShowTiming,     \* toggled(SHOW_TIMING)
    LUCommand,      \* on_lu_command: a program runs for each LU
    MaxTime,        \* bounds of the model: seconds a command takes,
    MaxTimers,      \* timers of one kind,
    MaxWindow,      \* events of the window and its user,
    MaxMixed        \* and those after which the session still goes on

VARIABLES
    o,              \* the session as far as it is shown, and the window: see Init
    events          \* the events of the window so far

vars == <<o, events>>

-----------------------------------------------------------------------------
(* What is shown. *)

CN == "no LU"
Modes == {"NOT_CONNECTED", "CONNECTED_INITIAL", "CONNECTED_ANSI", "CONNECTED_3270",
          "CONNECTED_INITIAL_E", "CONNECTED_NVT", "CONNECTED_SSCP", "CONNECTED_TN3270E"}

Connected(s) == s.cstate # "NOT_CONNECTED"
InAnsi(s)    == s.cstate \in {"CONNECTED_ANSI", "CONNECTED_NVT"}
InSscp(s)    == s.cstate = "CONNECTED_SSCP"
In3270(s)    == s.cstate \in {"CONNECTED_3270", "CONNECTED_TN3270E", "CONNECTED_SSCP"}
InE(s)       == s.cstate \in {"CONNECTED_INITIAL_E", "CONNECTED_NVT", "CONNECTED_SSCP", "CONNECTED_TN3270E"}

(* Two states of the library have no text: the former one's stays.            *)
Textless == {"CONNECTED", "KYBDLOCK"}

Flags    == {"BOXSOLID", "UNDERA", "SECURE", "TYPEAHEAD"}
Elements == {"UNDERA", "CONNECTION_STATUS", "MESSAGE_AREA", "SSL_STATE", "SHIFT_STATE", "TYPEAHEAD_INDICATOR",
             "INSERT_INDICATOR", "SCRIPT_INDICATOR", "LUNAME", "COMMAND_TIMER", "CURSOR_POSITION"}

Blank   == [el \in Elements |-> ""]

(* What each element shows when it is painted.                                *)
oia_undera_indicator(s)      == IF s.flag.UNDERA THEN IF InE(s) THEN "B" ELSE "A" ELSE ""
oia_connection_status(s)     == CASE InAnsi(s) -> "N" [] s.flag.BOXSOLID -> "solid" [] InSscp(s) -> "S" [] OTHER -> "?"
oia_message_area(s)          == IF s.msg \in Textless THEN s.text ELSE s.msg
oia_draw_ssl_state(s)        == CASE ~s.valid_certificate -> "warning" [] s.secure_connection -> "locked" [] OTHER -> "unlocked"
oia_draw_shift_state(s)      == IF s.shift THEN "arrow" ELSE ""
oia_draw_typeahead_state(s)  == IF s.flag.TYPEAHEAD THEN "T" ELSE ""
oia_draw_insert_state(s)     == IF s.insert THEN "wedge" ELSE ""
oia_draw_script_state(s)     == IF s.script # "NONE" /\ s.script_blink THEN "S" ELSE ""
oia_draw_lu_name(s)          == IF s.connected_lu = CN THEN "" ELSE s.connected_lu
oia_draw_timer(s)            == IF s.timer >= 0 THEN ToString(s.timer) ELSE ""
oia_draw_cursor_position(s)  == IF s.cursor_pos THEN ToString(s.cursor_position) ELSE ""

Drawn(s, el) ==
    CASE el = "UNDERA"              -> oia_undera_indicator(s)
      [] el = "CONNECTION_STATUS"   -> oia_connection_status(s)
      [] el = "MESSAGE_AREA"        -> oia_message_area(s)
      [] el = "SSL_STATE"           -> oia_draw_ssl_state(s)
      [] el = "SHIFT_STATE"         -> oia_draw_shift_state(s)
      [] el = "TYPEAHEAD_INDICATOR" -> oia_draw_typeahead_state(s)
      [] el = "INSERT_INDICATOR"    -> oia_draw_insert_state(s)
      [] el = "SCRIPT_INDICATOR"    -> oia_draw_script_state(s)
      [] el = "LUNAME"              -> oia_draw_lu_name(s)
      [] el = "COMMAND_TIMER"       -> oia_draw_timer(s)
      [] el = "CURSOR_POSITION"     -> oia_draw_cursor_position(s)

(* update_oia_element and draw_oia; nothing where there is no pixmap.         *)
update_oia_elements(s, els) ==
    IF ~s.valid THEN s
    ELSE [s EXCEPT !.painted = [el \in Elements |-> IF el \in els THEN Drawn(s, el) ELSE @[el]],
                   !.text = IF "MESSAGE_AREA" \in els THEN oia_message_area(s) ELSE @]
update_oia_element(s, el) == update_oia_elements(s, {el})
draw_oia(s) == update_oia_elements(s, Elements)

SetStatusCode(s, id) ==
    IF s.msg = id THEN s
    ELSE update_oia_element([s EXCEPT !.msg = id, !.told = IF id \in Textless THEN @ ELSE id], "MESSAGE_AREA")

status_changed(s, id) ==
    IF s.oia_status = id THEN s ELSE SetStatusCode([s EXCEPT !.oia_status = id], id)

ElementOf(flag) == CASE flag = "BOXSOLID" -> "CONNECTION_STATUS" [] flag = "UNDERA"    -> "UNDERA"
                     [] flag = "SECURE"   -> "SSL_STATE"         [] flag = "TYPEAHEAD" -> "TYPEAHEAD_INDICATOR"
set_status(s, flag, on) == update_oia_element([s EXCEPT !.flag[flag] = on], ElementOf(flag))

status_reset(s) ==
    status_changed(s, IF "ENTER_INHIBIT" \in s.kybdlock THEN "INHIBIT"
                      ELSE IF "DEFERRED_UNLOCK" \in s.kybdlock THEN "X" ELSE "BLANK")

status_twait(s) == status_changed(set_status(s, "UNDERA", FALSE), "TWAIT")

(* A program runs while there is an LU; its end clears the identifier.        *)
set_lu(s, lu) ==
    LET t == update_oia_element([s EXCEPT !.connected_lu = lu], "LUNAME")
    IN  IF lu # CN /\ LUCommand /\ ~t.on_lu_pid THEN [t EXCEPT !.on_lu_pid = TRUE, !.children = @ + 1] ELSE t

-----------------------------------------------------------------------------
(* The clock. *)

(* Mutant: the spinner is started by the clock's first second alone.          *)
oia_set_timerSecond(s, seconds) ==
    IF seconds < 0 THEN update_oia_element([s EXCEPT !.timer = -1], "COMMAND_TIMER")
    ELSE IF seconds = s.timer THEN s
    ELSE update_oia_element([s EXCEPT !.timer = seconds, !.spinners = IF seconds = 0 THEN @ + 1 ELSE @],
                            "COMMAND_TIMER")

oia_set_timer(s, seconds) ==
    IF seconds < 0 THEN update_oia_element([s EXCEPT !.timer = -1], "COMMAND_TIMER")
    ELSE IF seconds = s.timer THEN s
    ELSE update_oia_element([s EXCEPT !.timer = seconds, !.spinners = IF s.timer < 0 THEN @ + 1 ELSE @],
                            "COMMAND_TIMER")

status_untiming(s) == oia_set_timer(s, -1)

ticking_start(s) ==
    LET t == [s EXCEPT !.mticking = TRUE]
    IN  IF ShowTiming THEN [status_untiming(t) EXCEPT !.ticking = TRUE] ELSE t

ticking_stop(s, seconds) ==
    IF ~s.mticking THEN s
    ELSE IF ~s.ticking THEN [s EXCEPT !.mticking = FALSE]
    ELSE oia_set_timer([s EXCEPT !.mticking = FALSE, !.ticking = FALSE], seconds)

-----------------------------------------------------------------------------
(* The lock of the keyboard. *)

kybdlock_set(s, bits) ==
    IF bits \subseteq s.kybdlock THEN s ELSE status_changed([s EXCEPT !.kybdlock = @ \cup bits], "KYBDLOCK")
kybdlock_clr(s, bits) ==
    IF bits \cap s.kybdlock = {} THEN s ELSE status_changed([s EXCEPT !.kybdlock = @ \ bits], "KYBDLOCK")
Locks == {"NOT_CONNECTED", "AWAITING_FIRST", "OIA_TWAIT", "OIA_LOCKED", "OIA_MINUS",
          "DEFERRED_UNLOCK", "ENTER_INHIBIT"}

kybd_inhibit(s, on) ==
    IF on THEN LET t == kybdlock_set(s, {"ENTER_INHIBIT"})
               IN  IF t.kybdlock = {"ENTER_INHIBIT"} THEN status_reset(t) ELSE t
    ELSE LET t == kybdlock_clr(s, {"ENTER_INHIBIT"}) IN IF t.kybdlock = {} THEN status_reset(t) ELSE t

flush_ta(s) == set_status(s, "TYPEAHEAD", FALSE)

set_insert(s, on) == update_oia_element([s EXCEPT !.insert = on], "INSERT_INDICATOR")

(* From the host with the unlock delayed, or from the user.                   *)
do_reset(s, explicit) ==
    LET t == set_insert(s, FALSE)
        u == IF explicit THEN kybdlock_clr(t, Locks)
             ELSE IF t.kybdlock \cap {"DEFERRED_UNLOCK", "OIA_TWAIT", "OIA_LOCKED", "AWAITING_FIRST"} # {}
             THEN kybdlock_set(kybdlock_clr(t, Locks \ {"DEFERRED_UNLOCK"}), {"DEFERRED_UNLOCK"})
             ELSE t
    IN  IF explicit /\ s.flag.TYPEAHEAD THEN flush_ta(s)
        ELSE IF ~Connected(s) THEN t
        ELSE status_reset(u)

-----------------------------------------------------------------------------
(* The chains of callbacks, in the order of their registration. *)

status_connect(s, connected) ==
    LET t == kybd_inhibit(s, FALSE)                                   \* ctlr_erase
        u == set_status(t, "BOXSOLID", connected /\ In3270(t) /\ ~InSscp(t))
        v == set_status(u, "SECURE", connected /\ u.secure_connection)
    IN  status_changed(v, IF ~connected THEN "DISCONNECTED"
                          ELSE IF "AWAITING_FIRST" \in v.kybdlock THEN "AWAITING_FIRST" ELSE "CONNECTED")

status_3270_mode(s) ==
    LET solid == In3270(s) /\ ~InSscp(s)
    IN  set_status(IF solid THEN set_status(s, "UNDERA", TRUE) ELSE s, "BOXSOLID", solid)

ctlr_connect(s, seconds) ==
    LET t == status_untiming(ticking_stop(s, seconds))
    IN  IF ~In3270(t) \/ (InSscp(t) /\ "OIA_TWAIT" \in t.kybdlock)
        THEN status_reset(kybdlock_clr(t, {"OIA_TWAIT"}))
        ELSE t

kybd_connect(s, connected) ==
    LET t == kybdlock_clr(s, Locks)
    IN  IF connected THEN kybdlock_set(t, {"AWAITING_FIRST"})
        ELSE flush_ta(kybdlock_set(t, {"NOT_CONNECTED"}))

kybd_in3270(s) == kybdlock_clr(s, Locks \ {"AWAITING_FIRST"})

connect_main(s, connected) ==
    LET t == IF connected THEN s ELSE SetStatusCode(s, "DISCONNECTED")
    IN  update_oia_elements(t, {"CONNECTION_STATUS", "UNDERA"})

ST_CONNECT(s, connected, seconds) ==
    connect_main(kybd_connect(ctlr_connect(status_connect(s, connected), seconds), connected), connected)

host_connected(s, seconds) == ST_CONNECT([s EXCEPT !.cstate = "CONNECTED_INITIAL"], TRUE, seconds)

host_disconnected(s, seconds) ==
    status_changed(ST_CONNECT(set_status([s EXCEPT !.cstate = "NOT_CONNECTED"], "UNDERA", FALSE), FALSE, seconds),
                   "DISCONNECTED")

net_disconnect(s) ==
    set_lu([s EXCEPT !.secure_connection = FALSE, !.valid_certificate = FALSE, !.sock = FALSE], CN)

host_disconnect(s, seconds) == host_disconnected(net_disconnect(s), seconds)

(* Mutant: the mode reaches the keyboard and not the window.                  *)
host_in3270Silent(s, mode, seconds) == kybd_in3270(ctlr_connect([s EXCEPT !.cstate = mode], seconds))

host_in3270(s, mode, seconds) ==
    kybd_in3270(ctlr_connect(status_3270_mode([s EXCEPT !.cstate = mode]), seconds))

-----------------------------------------------------------------------------
(* The session.  The window's main loop runs in the two waits of an attempt,  *)
(* which show their seconds unless a clock is running already.                *)

Becomes(s) == o' = s /\ UNCHANGED events

(* What the last command has taken, which is asked where a clock runs.        *)
Seconds(s) == IF s.ticking THEN 0 .. MaxTime ELSE {0}

(* What a send leaves behind: one that fails ends the session, and one where  *)
(* there is no socket fails.                                                  *)
Outcomes(s) == {host_disconnect(s, t) : t \in Seconds(s)} \cup (IF s.sock THEN {s} ELSE {})

Wait(s, stage)    == [s EXCEPT !.attempt = stage, !.start = s.timer < 0]
Waited(s)         == IF s.start THEN oia_set_timer(s, -1) ELSE s
EndOfAttempt(s)   == [s EXCEPT !.attempt = "none", !.start = FALSE]

Attempt ==
    /\ ~Connected(o) /\ o.attempt = "none"
    /\ Becomes(Wait(status_changed(o, "RESOLVING"), "resolving"))

AttemptTicks ==
    /\ o.attempt # "none" /\ o.start
    /\ \E t \in 0 .. MaxTime : t >= o.timer /\ Becomes(oia_set_timer(o, t))

ResolveFails ==
    /\ o.attempt = "resolving"
    /\ Becomes(EndOfAttempt(host_disconnected(status_changed(Waited(o), "BLANK"), 0)))

Resolved ==
    /\ o.attempt = "resolving"
    /\ Becomes(Wait(status_changed(Waited(o), "CONNECTING"), "connecting"))

ConnectFails ==
    /\ o.attempt = "connecting"
    /\ Becomes(EndOfAttempt(host_disconnected(Waited(o), 0)))

(* A handshake that fails is only shown, and the session goes on without it.  *)
Connects ==
    /\ o.attempt = "connecting"
    /\ \E tls, valid \in BOOLEAN :
         LET s == [Waited(o) EXCEPT !.sock = TRUE]
             u == host_connected([s EXCEPT !.secure_connection = TRUE, !.valid_certificate = valid], 0)
         IN  Becomes(EndOfAttempt(host_connected(IF tls THEN u ELSE s, 0)))

HostDisconnects ==
    /\ Connected(o)
    /\ \E t \in Seconds(o) : Becomes(host_disconnect(o, t))

(* The handshake the host asks for, of a secure session too, starts the       *)
(* session again; nobody looks at its certificate.  One that fails takes the  *)
(* socket away, and the session stays.                                        *)
continue_tls ==
    /\ Connected(o) /\ o.sock
    /\ \/ Becomes(host_connected([o EXCEPT !.secure_connection = TRUE], 0))
       \/ Becomes(net_disconnect(o))

(* After what was sent for the option, whether it could be or not.            *)
check_in3270 ==
    /\ Connected(o)
    /\ \E mode \in Modes \ {"NOT_CONNECTED", "CONNECTED_INITIAL"}, s \in Outcomes(o) \cup {o} :
         s.cstate # mode /\ \E t \in Seconds(s) : Becomes(host_in3270(s, mode, t))

HostNamesLU ==
    /\ Connected(o)
    /\ \E lu \in {CN, "LU1"} : Becomes(set_lu(o, lu))

key_AID ==
    /\ o.kybdlock = {} /\ In3270(o)
    /\ \E clear, enter \in BOOLEAN :
         /\ ~(clear /\ enter)
         /\ IF InSscp(o) /\ ~clear /\ ~enter
            THEN Becomes(kybdlock_set(status_changed(o, "MINUS"), {"OIA_MINUS"}))
            ELSE LET t == IF InSscp(o) /\ clear THEN o
                          ELSE kybdlock_set(set_insert(status_twait(o), FALSE), {"OIA_TWAIT", "OIA_LOCKED"})
                     sent == IF InSscp(o) /\ clear THEN {t} ELSE Outcomes(t)
                 IN  \E u \in sent : Becomes(set_status(ticking_start(u), "UNDERA", TRUE))

Types ==
    /\ Connected(o) /\ o.kybdlock # {}
    /\ Becomes(set_status(o, "TYPEAHEAD", TRUE))

(* The last key of the queue is taken.                                        *)
run_ta ==
    /\ o.kybdlock = {} /\ o.flag.TYPEAHEAD
    /\ Becomes(set_status(o, "TYPEAHEAD", FALSE))

ctlr_write ==
    /\ In3270(o)
    /\ \E restore \in BOOLEAN, t \in Seconds(o) :
         LET s == kybd_inhibit(o, FALSE)
         IN  Becomes(IF restore THEN do_reset(ticking_stop(s, t), FALSE)
                     ELSE IF "OIA_TWAIT" \in s.kybdlock
                     THEN status_changed(kybdlock_clr(s, {"OIA_TWAIT"}), "SYSWAIT")
                     ELSE s)

query_reply_end ==
    /\ In3270(o) /\ ~InSscp(o)
    /\ \E s \in Outcomes(o) : Becomes(kybd_inhibit(s, TRUE))

AnsiData ==
    /\ InAnsi(o) /\ "AWAITING_FIRST" \in o.kybdlock
    /\ Becomes(status_reset(kybdlock_clr(o, {"AWAITING_FIRST"})))

defer_unlock ==
    /\ "DEFERRED_UNLOCK" \in o.kybdlock
    /\ Becomes(status_reset(kybdlock_clr(o, {"DEFERRED_UNLOCK"})))

keep_ticking ==
    /\ o.ticking
    /\ \E t \in 0 .. MaxTime : t > o.timer /\ Becomes(oia_set_timer(o, t))

SpinnerTurns ==
    /\ o.spinners > 0 /\ o.timer < 0
    /\ Becomes([o EXCEPT !.spinners = @ - 1])

ChildEnds ==
    /\ o.children > 0
    /\ Becomes([o EXCEPT !.children = @ - 1, !.on_lu_pid = FALSE])

-----------------------------------------------------------------------------
(* The window and its user. *)

Happens(s) == events < MaxWindow /\ events' = events + 1 /\ o' = s

Reset        == Connected(o) /\ Happens(do_reset(o, TRUE))
Insert       == In3270(o) /\ o.kybdlock = {} /\ Happens(set_insert(o, ~o.insert))
ShiftKey     == Happens(update_oia_element([o EXCEPT !.shift = ~@], "SHIFT_STATE"))

SetScript ==
    \E state \in {"NONE", "RUNNING", "HALTED"} \ {o.script} :
        Happens(update_oia_element([o EXCEPT !.script = state, !.script_blink = TRUE,
                                             !.blinks = IF o.script = "NONE" THEN @ + 1 ELSE @],
                                   "SCRIPT_INDICATOR"))

script_timer ==
    /\ o.blinks > 0
    /\ Becomes(update_oia_element([o EXCEPT !.script_blink = ~@, !.blinks = IF o.script = "NONE" THEN @ - 1 ELSE @],
                                  "SCRIPT_INDICATOR"))

(* Mutant: the cursor is shown again when it next moves.                      *)
SetSuspendedQuiet ==
    IF o.updates THEN Happens([o EXCEPT !.updates = FALSE]) ELSE Becomes([o EXCEPT !.updates = TRUE])

SetSuspended ==
    IF o.updates THEN Happens([o EXCEPT !.updates = FALSE]) ELSE Becomes(draw_oia([o EXCEPT !.updates = TRUE]))

update_cursor_position ==
    LET s == [o EXCEPT !.cursor_position = 1 - @]
    IN  IF s.updates THEN Happens(update_oia_element(s, "CURSOR_POSITION")) ELSE Becomes(s)

set_showcursor == Happens(update_oia_element([o EXCEPT !.cursor_pos = ~@], "CURSOR_POSITION"))

expose         == ~o.valid /\ Becomes(draw_oia([o EXCEPT !.valid = TRUE]))
ResizeTerminal == o.valid /\ Happens([o EXCEPT !.valid = FALSE, !.painted = Blank])

-----------------------------------------------------------------------------
Init ==
    /\ events = 0
    /\ o = [cstate |-> "NOT_CONNECTED", kybdlock |-> {"NOT_CONNECTED"}, oia_status |-> "none",
            flag |-> [f \in Flags |-> FALSE], secure_connection |-> FALSE, valid_certificate |-> FALSE,
            sock |-> FALSE, connected_lu |-> CN, insert |-> FALSE,
            ticking |-> FALSE, mticking |-> FALSE, attempt |-> "none", start |-> FALSE,
            msg |-> "DISCONNECTED", told |-> "DISCONNECTED", text |-> "BLANK", valid |-> FALSE, updates |-> TRUE,
            cursor_position |-> 0, cursor_pos |-> TRUE,
            timer |-> -1, spinners |-> 0, script |-> "NONE", script_blink |-> TRUE, blinks |-> 0, shift |-> FALSE,
            painted |-> Blank, on_lu_pid |-> FALSE, children |-> 0]

Session ==
    \/ Attempt \/ AttemptTicks \/ ResolveFails \/ Resolved \/ ConnectFails \/ Connects
    \/ HostDisconnects \/ continue_tls \/ check_in3270 \/ HostNamesLU \/ key_AID \/ Types \/ run_ta
    \/ ctlr_write \/ query_reply_end \/ AnsiData \/ defer_unlock \/ keep_ticking \/ SpinnerTurns \/ ChildEnds

Window == \/ Reset \/ Insert \/ ShiftKey \/ SetScript \/ script_timer \/ SetSuspended
          \/ update_cursor_position \/ set_showcursor \/ expose \/ ResizeTerminal

Next == ((events <= MaxMixed /\ Session) \/ Window) /\ o'.spinners <= MaxTimers /\ o'.blinks <= MaxTimers

Spec == Init /\ [][Next]_vars

-----------------------------------------------------------------------------
TypeOK ==
    /\ o.cstate \in Modes /\ o.kybdlock \subseteq Locks
    /\ o.msg \notin {"none"} /\ o.text \notin Textless
    /\ o.timer \in -1 .. MaxTime /\ o.spinners \in 0 .. MaxTimers

(* Whatever order things happen in, and however often the pixmap is lost, the *)
(* area shows the present: each element is as it would be painted now.  Two   *)
(* may be late: the letter, where the box is not solid, and the lock, where   *)
(* a handshake within the session took the socket away and nothing has shown  *)
(* the session's end yet.                                                     *)
OiaCurrent ==
    o.valid /\ o.updates =>
        \A el \in Elements :
            \/ o.painted[el] = Drawn(o, el)
            \/ el = "UNDERA" /\ ~o.flag.BOXSOLID
            \/ el = "SSL_STATE" /\ Connected(o) /\ ~o.sock

(* Off line the last text the window was told says so, however the connection *)
(* was lost or failed; on line its message is the library's status.           *)
MessageHonest ==
    IF Connected(o) THEN o.msg = o.oia_status
    ELSE o.attempt = "none" => o.told = "DISCONNECTED"

(* After the host's first screen, when the last text the window was told is   *)
(* none, the keyboard takes keys.  The field told is the property's own: with *)
(* no pixmap the text is told and not kept, and the next exposure may paint   *)
(* the one before it.                                                         *)
BlankIsFree ==
    In3270(o) /\ o.told = "BLANK" => \/ o.kybdlock \subseteq {"OIA_MINUS"}
                                        \/ "AWAITING_FIRST" \in o.kybdlock

(* A clock that runs has a spinner, and each LU one program at most, which    *)
(* the window knows of.                                                       *)
ClockTurns == (o.timer >= 0 => o.spinners > 0) /\ o.children = (IF o.on_lu_pid THEN 1 ELSE 0)

(* All of it.                                                                 *)
OiaTruthful == TypeOK /\ OiaCurrent /\ MessageHonest /\ BlankIsFree /\ ClockTurns
=============================================================================
