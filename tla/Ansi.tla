--------------------------------- MODULE Ansi ---------------------------------
(***************************************************************************)
(* The ANSI terminal of src/src/lib/ansi.c: what each control character    *)
(* and escape sequence does to the screen, the margins and the modes.      *)
(*                                                                         *)
(* A terminal is a record: ea and aea, the screen shown and the other one; *)
(* isAltbuffer, which of the two is shown; cursor; saved, the saved cursor;*)
(* held, "held_wrap", that the next character goes to the next line; modes *)
(* and savedModes; top and bottom, the margins, counted from 1; tabs.      *)
(* The assembly of sequences from bytes, character sets, colours and the   *)
(* 132-column mode are left out.                                           *)
(***************************************************************************)
EXTENDS Integers, Sequences, SequencesExt, FiniteSets, FiniteSetsExt

CONSTANTS
    Rows, Cols,
    Graphic         \* what can be printed

ASSUME AnsiAssumption ==
    Rows \in Nat \ {0, 1} /\ Cols \in Nat \ {0, 1} /\ "null" \notin Graphic

N      == Rows * Cols
Addr   == 0 .. N - 1
Cell   == Graphic \cup {"null"}
Mode   == {"insert", "autoNewline", "wrap", "revWrap"}
Saved  == {"wrap", "revWrap", "altBuffer"}

Terminal ==
    [ea : [Addr -> Cell], aea : [Addr -> Cell], isAltbuffer : BOOLEAN,
     cursor : Addr, saved : Addr, held : BOOLEAN,
     modes : SUBSET Mode, savedModes : SUBSET Saved,
     top : 1 .. Rows, bottom : 1 .. Rows, tabs : SUBSET (0 .. Cols - 1)]

Row(s)       == s.cursor \div Cols
Col(s)       == s.cursor % Cols
LineStart(s) == s.cursor - Col(s)

AtLeast1(n)  == IF n < 1 THEN 1 ELSE n
UpTo(n, max) == IF n > max THEN max ELSE n

-----------------------------------------------------------------------------
(* The buffer. *)

ctlr_aclear(s, a, count) ==
    [s EXCEPT !.ea = [x \in Addr |-> IF x \in a .. a + count - 1 THEN "null" ELSE @[x]]]

ctlr_bcopy(s, from, to, count) ==
    [s EXCEPT !.ea = [x \in Addr |-> IF x \in to .. to + count - 1 THEN @[x - to + from]
                                                                   ELSE @[x]]]

ctlr_altbuffer(s, alt) ==
    IF alt = s.isAltbuffer THEN s
    ELSE [s EXCEPT !.ea = s.aea, !.aea = s.ea, !.isAltbuffer = alt]

ctlr_clear(s) == [ctlr_aclear(s, 0, N) EXCEPT !.cursor = 0]

At(s, a)    == [s EXCEPT !.cursor = a]
Moved(s, a) == [s EXCEPT !.cursor = a, !.held = FALSE]

(* Mutant: the last line of the region is kept.                               *)
ansi_scrollKeeps(s) ==
    [ctlr_bcopy(s, s.top * Cols, (s.top - 1) * Cols, (s.bottom - s.top) * Cols)
        EXCEPT !.held = FALSE]

(* The lines of the scrolling region go up by one.                            *)
ansi_scroll(s) ==
    LET up == ctlr_bcopy(s, s.top * Cols, (s.top - 1) * Cols, (s.bottom - s.top) * Cols)
    IN  [ctlr_aclear(up, (s.bottom - 1) * Cols, Cols) EXCEPT !.held = FALSE]

-----------------------------------------------------------------------------
(* Cursor. *)

dec_save_cursor(s)    == [s EXCEPT !.saved = s.cursor]
dec_restore_cursor(s) == Moved(s, s.saved)

ansi_cursor_up(s, n) ==
    LET up == AtLeast1(n) IN Moved(s, IF Row(s) - up < 0 THEN Col(s) ELSE s.cursor - up * Cols)

(* The limit is the number of columns, not of rows.                           *)
ansi_cursor_down(s, n) ==
    LET down == AtLeast1(n)
    IN  Moved(s, IF Row(s) + down >= Cols THEN (Cols - 1) * Cols + Col(s)
                 ELSE s.cursor + down * Cols)

ansi_cursor_right(s, n) ==
    IF Col(s) = Cols - 1 THEN s
    ELSE Moved(s, s.cursor + UpTo(AtLeast1(n), Cols - 1 - Col(s)))

ansi_cursor_left(s, n) ==
    IF s.held THEN [s EXCEPT !.held = FALSE]
    ELSE At(s, s.cursor - UpTo(AtLeast1(n), Col(s)))

ansi_cursor_motion(s, row, col) ==
    Moved(s, (UpTo(AtLeast1(row), Rows) - 1) * Cols + UpTo(AtLeast1(col), Cols) - 1)

(* Mutant: with reverse wraparound there is no first position.                *)
ansi_backspaceFar(s) ==
    IF s.held THEN [s EXCEPT !.held = FALSE]
    ELSE IF "revWrap" \in s.modes \/ Col(s) # 0 THEN At(s, s.cursor - 1) ELSE s

ansi_backspace(s) ==
    IF s.held THEN [s EXCEPT !.held = FALSE]
    ELSE IF IF "revWrap" \in s.modes THEN s.cursor > (s.top - 1) * Cols ELSE Col(s) # 0
    THEN At(s, s.cursor - 1) ELSE s

(* Below the scrolling region the cursor goes down as far as the screen does. *)
ansi_lf(s) ==
    LET next == s.cursor + Cols
    IN  IF Row(s) >= s.bottom THEN Moved(s, IF next < N THEN next ELSE s.cursor)
        ELSE IF next < s.bottom * Cols THEN Moved(s, next) ELSE ansi_scroll(s)

ansi_cr(s) ==
    LET start == At(s, LineStart(s))
    IN  [(IF "autoNewline" \in s.modes THEN ansi_lf(start) ELSE start) EXCEPT !.held = FALSE]

(* Below the scrolling region it scrolls the region all the same.             *)
ansi_newline(s) ==
    LET start == At(s, LineStart(s))
        next  == start.cursor + Cols
    IN  IF next < s.bottom * Cols THEN Moved(s, next) ELSE ansi_scroll(start)

ansi_htab(s) ==
    LET stops == {c \in Col(s) + 1 .. Cols - 1 : c \in s.tabs \/ c = Cols - 1}
    IN  IF stops = {} THEN [s EXCEPT !.held = FALSE] ELSE Moved(s, LineStart(s) + Min(stops))

ansi_htab_set(s) == [s EXCEPT !.tabs = @ \cup {Col(s)}]

ansi_htab_clear(s, n) ==
    [s EXCEPT !.tabs = IF n = 0 THEN @ \ {Col(s)} ELSE IF n = 3 THEN {} ELSE @]

-----------------------------------------------------------------------------
(* Insertion, deletion, erasure. *)

ansi_insert_chars(s, n) ==
    LET max == Cols - Col(s)
        new == UpTo(AtLeast1(n), max)
    IN  ctlr_aclear(ctlr_bcopy(s, s.cursor, s.cursor + new, max - new), s.cursor, new)

ansi_delete_chars(s, n) ==
    LET max  == Cols - Col(s)
        gone == UpTo(AtLeast1(n), max)
    IN  ctlr_aclear(ctlr_bcopy(s, s.cursor + gone, s.cursor, max - gone),
                    s.cursor + max - gone, gone)

InRegion(s) == Row(s) \in s.top - 1 .. s.bottom - 1

(* Mutant: lines are shifted whether the cursor is in the region or not.      *)
ansi_insert_linesAnywhere(s, n) ==
    LET start == Row(s) * Cols
        max   == s.bottom - Row(s)
        new   == UpTo(AtLeast1(n), max)
    IN  ctlr_aclear(ctlr_bcopy(s, start, start + new * Cols, (max - new) * Cols),
                    start, new * Cols)

ansi_insert_lines(s, n) ==
    LET start == Row(s) * Cols
        max   == s.bottom - Row(s)
        new   == UpTo(AtLeast1(n), max)
    IN  IF ~InRegion(s) THEN s
        ELSE ctlr_aclear(ctlr_bcopy(s, start, start + new * Cols, (max - new) * Cols),
                         start, new * Cols)

ansi_delete_lines(s, n) ==
    LET start == Row(s) * Cols
        max   == s.bottom - Row(s)
        gone  == UpTo(AtLeast1(n), max)
    IN  IF ~InRegion(s) THEN s
        ELSE ctlr_aclear(ctlr_bcopy(s, start + gone * Cols, start, (max - gone) * Cols),
                         start + (max - gone) * Cols, gone * Cols)

ansi_erase_in_display(s, n) ==
    CASE n = 0 -> ctlr_aclear(s, s.cursor, N - s.cursor)
      [] n = 1 -> ctlr_aclear(s, 0, s.cursor + 1)
      [] n = 2 -> ctlr_aclear(s, 0, N)

ansi_erase_in_line(s, n) ==
    CASE n = 0 -> ctlr_aclear(s, s.cursor, Cols - Col(s))
      [] n = 1 -> ctlr_aclear(s, LineStart(s), Col(s) + 1)
      [] n = 2 -> ctlr_aclear(s, LineStart(s), Cols)

(* The cursor goes home, and a character held for the next line stays held.   *)
ansi_newpage(s) == ctlr_clear(s)

ansi_reverse_index(s) ==
    LET here  == [s EXCEPT !.held = FALSE]
        above == s.top - 1 - Row(s)
    IN  IF above = 0 THEN ansi_insert_lines(here, 1) ELSE ansi_cursor_up(here, 1)

-----------------------------------------------------------------------------
(* Printing. *)

(* Mutant: the cursor goes on below the region.                               *)
PWRAPPast(s) ==
    LET next == s.cursor + 1
    IN  IF next < N THEN At(s, next) ELSE At(ansi_scroll(s), next - Cols)

(* To the next position: at the end of the region it scrolls; below it the    *)
(* cursor goes back to the start of its line, from wherever it is.            *)
PWRAP(s) ==
    LET next == s.cursor + 1
    IN  IF next < s.bottom * Cols THEN At(s, next)
        ELSE IF Row(s) >= s.bottom THEN At(s, LineStart(s))
        ELSE At(ansi_scroll(s), next - Cols)

(* Mutant: room is made before the line is left.                              *)
ansi_printingInsertsFirst(s, c) ==
    LET room    == IF "insert" \in s.modes THEN ansi_insert_chars(s, 1) ELSE s
        here    == IF s.held THEN [PWRAP(room) EXCEPT !.held = FALSE] ELSE room
        printed == [here EXCEPT !.ea[here.cursor] = c]
        last    == Col(printed) = Cols - 1
    IN  IF "wrap" \in s.modes
        THEN IF last THEN [printed EXCEPT !.held = TRUE] ELSE PWRAP(printed)
        ELSE IF last THEN printed ELSE At(printed, printed.cursor + 1)

ansi_printing(s, c) ==
    LET here    == IF s.held THEN [PWRAP(s) EXCEPT !.held = FALSE] ELSE s
        room    == IF "insert" \in s.modes THEN ansi_insert_chars(here, 1) ELSE here
        printed == [room EXCEPT !.ea[room.cursor] = c]
        last    == Col(printed) = Cols - 1
    IN  IF "wrap" \in s.modes
        THEN IF last THEN [printed EXCEPT !.held = TRUE] ELSE PWRAP(printed)
        ELSE IF last THEN printed ELSE At(printed, printed.cursor + 1)

-----------------------------------------------------------------------------
(* Modes. *)

ansi_set_mode(s, m)   == [s EXCEPT !.modes = @ \cup {m}]
ansi_reset_mode(s, m) == [s EXCEPT !.modes = @ \ {m}]

dec_set(s, m)   == IF m = "altBuffer" THEN ctlr_altbuffer(s, TRUE) ELSE ansi_set_mode(s, m)
dec_reset(s, m) == IF m = "altBuffer" THEN ctlr_altbuffer(s, FALSE) ELSE ansi_reset_mode(s, m)

DecMode(s, m) == IF m = "altBuffer" THEN s.isAltbuffer ELSE m \in s.modes

dec_save(s, m) ==
    [s EXCEPT !.savedModes = IF DecMode(s, m) THEN @ \cup {m} ELSE @ \ {m}]
dec_restore(s, m) == IF m \in s.savedModes THEN dec_set(s, m) ELSE dec_reset(s, m)

(* With margins that leave nothing out the cursor stays where it is.          *)
dec_scrolling_region(s, t, b) ==
    LET top    == AtLeast1(t)
        bottom == UpTo(b, Rows)
    IN  IF top <= bottom /\ (top > 1 \/ bottom < Rows)
        THEN At([s EXCEPT !.top = top, !.bottom = bottom], 0)
        ELSE [s EXCEPT !.top = 1, !.bottom = Rows]

(* A reset, by ESC c or when a session comes to the ANSI mode.                *)
ansi_reset(s) ==
    ctlr_clear(ctlr_altbuffer(ctlr_aclear(ctlr_altbuffer(
        [s EXCEPT !.saved = 0, !.held = FALSE, !.modes = {"wrap"}, !.savedModes = {"wrap"},
                  !.top = 1, !.bottom = Rows, !.tabs = {c \in 0 .. Cols - 1 : c % 8 = 0}],
        TRUE), 0, N), FALSE))

(* The first reset of the program, of a screen with nothing on it.            *)
FirstReset ==
    [ea |-> [a \in Addr |-> "null"], aea |-> [a \in Addr |-> "null"], isAltbuffer |-> FALSE,
     cursor |-> 0, saved |-> 0, held |-> FALSE, modes |-> {"wrap"}, savedModes |-> {"wrap"},
     top |-> 1, bottom |-> Rows, tabs |-> {c \in 0 .. Cols - 1 : c % 8 = 0}]
=============================================================================
