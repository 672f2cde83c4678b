------------------------------- MODULE Selection ------------------------------
(***************************************************************************)
(* Selecting text in the terminal window with the mouse and the keyboard   *)
(* (src/src/gtk2/mouse.c): the mode, the two corners, which cells are      *)
(* marked as selected and on which of their sides the border runs.         *)
(*                                                                         *)
(* A corner is a pair, the row and the column.  The pointer is in a cell,  *)
(* outside, or on the pixel just past the last row or column, which        *)
(* DecodePosition takes for a row or column of its own.  The text of the   *)
(* screen stays as it is; what is copied and how it is painted are left    *)
(* out.                                                                    *)
(***************************************************************************)
EXTENDS Integers, FiniteSets, FiniteSetsExt

CONSTANTS
    Rows, Cols,
    Texts,          \* screens: records of fields, chars and protect
    Pointer,        \* where the pointer may be: a row and a column
    MaxActs         \* bound of the model: actions

VARIABLES
    sel,            \* the state of mouse.c, and the cursor
    text,           \* one of Texts, the same for ever
    acts            \* actions so far

vars == <<sel, text, acts>>

N    == Rows * Cols
Addr == 0 .. N - 1
Mode == {"none", "text", "rectangle", "word", "field", "copy", "append", "drag"}
Side == {"top", "bottom", "left", "right"}
DragType == {{"inside"}} \cup SUBSET Side       \* {}: none

Row(a) == IF a < 0 THEN -((-a) \div Cols) ELSE a \div Cols
Col(a) == a - Row(a) * Cols
At(p)  == p[1] * Cols + p[2]
Corner(a) == <<Row(a), Col(a)>>
Lower(i, j)  == IF i < j THEN i ELSE j
Higher(i, j) == IF i < j THEN j ELSE i

Plain == [a \in Addr |-> {}]
Marked(cells) == {a \in Addr : "selected" \in cells[a]}

-----------------------------------------------------------------------------
(* Marking cells. *)

SetSelectionMode(s, m) ==
    [s EXCEPT !.mode = m,
              !.again = CASE m = s.mode -> @
                          [] m = "none" -> TRUE
                          [] m \in {"rectangle", "text", "word"} -> FALSE
                          [] OTHER -> @]

SetSelection(s, selected) ==
    [s EXCEPT !.cells = [a \in Addr |-> IF ~selected THEN {}
        ELSE {"selected"} \cup {d \in Side : \/ d = "top"    /\ Row(a) = 0
                                             \/ d = "bottom" /\ Row(a) = Rows - 1
                                             \/ d = "left"   /\ Col(a) = 0
                                             \/ d = "right"  /\ Col(a) = Cols - 1}]]

(* The rectangle of the two corners, in whichever order they are.             *)
UpdateSelectedRectangle(s) ==
    LET top   == Lower(s.start[1], s.end[1])  bottom == Higher(s.start[1], s.end[1])
        left  == Lower(s.start[2], s.end[2])  right  == Higher(s.start[2], s.end[2])
        status(r, c) ==
            IF r \notin top .. bottom \/ c \notin left .. right THEN {}
            ELSE {"selected"} \cup {d \in Side : \/ d = "top"    /\ r = top
                                                 \/ d = "bottom" /\ r = bottom
                                                 \/ d = "left"   /\ c = left
                                                 \/ d = "right"  /\ c = right}
    IN  [s EXCEPT !.cells = [a \in Addr |-> status(Row(a), Col(a))], !.cursor = bottom * Cols + right]

(* Mutant: the cell to the left is taken from the line before, too.           *)
UpdateSelectedRegionWrapped(s, from, to) ==
    LET S == Lower(from, to) .. Higher(from, to)
        status(a) ==
            {"selected"} \cup {d \in Side : \/ d = "top"    /\ ~(Row(a) > 0 /\ a - Cols \in S)
                                            \/ d = "left"   /\ ~(a > 0 /\ a - 1 \in S)
                                            \/ d = "right"  /\ (a + 1 \notin S \/ Col(a) = Cols - 1)
                                            \/ d = "bottom" /\ a + Cols \notin S}
    IN  [s EXCEPT !.cells = [a \in Addr |-> IF a \in S THEN status(a) ELSE {}]]

(* The run of cells between two addresses.                                    *)
UpdateSelectedRegion(s, from, to) ==
    LET S == Lower(from, to) .. Higher(from, to)
        status(a) ==
            {"selected"} \cup
            {d \in Side : \/ d = "top"    /\ ~(Row(a) > 0 /\ a - Cols \in S)
                          \/ d = "left"   /\ ~(Col(a) > 0 /\ a - 1 \in S)
                          \/ d = "right"  /\ (a + 1 > Higher(from, to) \/ Col(a) = Cols - 1)
                          \/ d = "bottom" /\ a + Cols > Higher(from, to)}
    IN  [s EXCEPT !.cells = [a \in Addr |-> IF a \in S THEN status(a) ELSE {}]]

UpdateSelectedText(s) == UpdateSelectedRegion(s, At(s.start), At(s.end))

unselect(s) ==
    IF s.mode = "none" THEN s
    ELSE SetSelectionMode(SetSelection([s EXCEPT !.type = {}], FALSE), "none")

Chosen(s) == IF s.rect THEN "rectangle" ELSE "text"

reselect(s) ==
    LET t == SetSelectionMode(s, Chosen(s))
    IN  IF s.rect THEN UpdateSelectedRectangle(t) ELSE UpdateSelectedText(t)

-----------------------------------------------------------------------------
(* Words and fields. *)

Space(a) == text.chars[a] = " "
Field(a) == IF text.fields = {} THEN -1
            ELSE LET before == {f \in text.fields : f <= a}
                 IN  Max(IF before = {} THEN text.fields ELSE before)

(* -1 where a single field goes all round.                                    *)
find_field_length(f) ==
    IF Cardinality(text.fields) < 2 THEN -1
    ELSE Min({(g - f - 1) % N : g \in text.fields \ {f}})

(* Whether a function key is named, by "F" and digits, and pressed; the cells  *)
(* past the screen may hold anything, and a locked keyboard refuses the key.  *)
CheckForFunction(a, length) ==
    LET named == /\ text.fields # {} /\ text.protect /\ length > 1
                 /\ \A i \in 1 .. length :
                        a + i < N => text.chars[a + i] = (IF i = 1 THEN "F" ELSE "1")
    IN  IF named THEN BOOLEAN ELSE {FALSE}

SelectRegion(s, from, to, mode) ==
    SetSelectionMode([UpdateSelectedRegion(s, from, to)
                        EXCEPT !.start = Corner(from), !.end = Corner(to)], mode)

(* A function key's name is not selected: the key is pressed.                 *)
selectfield(s) ==
    LET f      == Field(s.cursor)
        length == find_field_length(f)
        cleared == SetSelection(s, FALSE)
        taken  == SelectRegion(cleared, f + 1, f + length, "field")
    IN  IF length >= 3 THEN {taken}
        ELSE {IF key THEN cleared ELSE taken : key \in CheckForFunction(f, length)}

(* Back to the blank before the word, which is left out, as the word's first  *)
(* character is when the screen begins with it.                               *)
selectword(s) ==
    LET start == Max({0} \cup {a \in 0 .. s.cursor : Space(a)})
        end   == Min({N} \cup {a \in s.cursor .. N - 1 : Space(a)})
        cleared == SetSelection(s, FALSE)
        taken == SelectRegion(cleared, start + 1, end - 1, "word")
    IN  IF Space(s.cursor) THEN selectfield(s)
        ELSE IF end - start >= 4 THEN {taken}
        ELSE {IF key THEN cleared ELSE taken : key \in CheckForFunction(start, end - start - 1)}
-----------------------------------------------------------------------------
(* The pointer. *)

(* Where the pointer is, and whether it is outside.                           *)
DecodePosition(p) ==
    LET cell(x, n) == IF x < 0 THEN 0 ELSE IF x > n THEN n - 1 ELSE x
    IN  [at |-> <<cell(p[1], Rows), cell(p[2], Cols)>>,
         out |-> p[1] \notin 0 .. Rows \/ p[2] \notin 0 .. Cols]

Becomes(s) == acts < MaxActs /\ acts' = acts + 1 /\ sel' = s /\ UNCHANGED text

(* The first button of the mouse goes down, for the first or the second time. *)
mouse_button_press ==
    /\ ~sel.down
    /\ \E p \in Pointer :
         LET d      == DecodePosition(p)
             s      == [sel EXCEPT !.down = TRUE]
             onCell == At(d.at) \in Addr
             hit    == onCell /\ At(d.at) \in Marked(s.cells)
         IN  CASE s.type = {"inside"} ->
                    Becomes([SetSelectionMode(s, "drag")
                               EXCEPT !.drag = <<d.at[1] - s.start[1], d.at[2] - s.start[2]>>])
               [] s.type \notin {{}, {"inside"}} -> Becomes(SetSelectionMode(s, "drag"))
               [] s.type = {} /\ s.mode = "word" /\ d.out -> Becomes(unselect(s))
               [] s.type = {} /\ s.mode = "word" /\ ~d.out ->
                    \/ (hit \/ ~onCell) /\ Becomes(SetSelectionMode(s, "field"))
                    \/ ~hit /\ Becomes([unselect(s) EXCEPT !.start = <<d.at[1], d.at[1]>>,
                                                           !.combo = TRUE])
               [] OTHER -> Becomes([unselect(s) EXCEPT !.start = d.at, !.combo = ~d.out])

mouse_double_press ==
    /\ sel.down /\ sel.combo /\ sel.mode = "none"
    /\ \E p \in Pointer :
         Becomes(SetSelectionMode([sel EXCEPT !.start = DecodePosition(p).at], "word"))

(* The third button, once or twice, while the first one is down.              *)
mouse_copy_press ==
    /\ sel.down /\ sel.combo
    /\ \E m \in {"copy", "append"} : Becomes(SetSelectionMode(sel, m))

(* A cursor past the screen's end selects nothing that is defined.            *)
mouse_button_release ==
    /\ sel.down
    /\ \E p \in Pointer :
         LET at == DecodePosition(p).at
             s  == [sel EXCEPT !.down = FALSE, !.combo = FALSE]
         IN  CASE s.mode = "none"  -> Becomes([s EXCEPT !.cursor = At(at)])
               [] s.mode = "field" -> s.cursor \in Addr /\ \E t \in selectfield(s) : Becomes(t)
               [] s.mode = "word"  -> s.cursor \in Addr /\ \E t \in selectword(s) : Becomes(t)
               [] s.mode \in {"copy", "append"} -> Becomes(unselect(s))
               [] s.mode = "drag"  -> Becomes([s EXCEPT !.mode = "rectangle", !.type = {}])
               [] OTHER -> Becomes(s)

(* The first button is down since a click outside any selection.              *)
Stretch ==
    /\ sel.down /\ sel.combo /\ sel.mode \in {"none", "rectangle", "text"}
    /\ \E p \in Pointer :
         LET s == [(IF sel.mode = "none" THEN SetSelectionMode(sel, Chosen(sel)) ELSE sel)
                     EXCEPT !.end = DecodePosition(p).at]
         IN  Becomes(IF s.mode = "text" THEN UpdateSelectedText(s) ELSE UpdateSelectedRectangle(s))

(* What a button pressed at this cell of a rectangle would drag.              *)
SidesAt(s, at) ==
    CASE at[1] \notin s.start[1] .. s.end[1] \/ at[2] \notin s.start[2] .. s.end[2] -> {}
      [] at \in (s.start[1] + 1 .. s.end[1] - 1) \X (s.start[2] + 1 .. s.end[2] - 1) -> {"inside"}
      [] OTHER -> {d \in Side : \/ d = "top"    /\ at[1] = s.start[1]
                                \/ d = "bottom" /\ at[1] = s.end[1] /\ at[1] # s.start[1]
                                \/ d = "left"   /\ at[2] = s.start[2]
                                \/ d = "right"  /\ at[2] = s.end[2] /\ at[2] # s.start[2]}

Hover ==
    /\ ~sel.combo /\ sel.mode = "rectangle"
    /\ \E p \in Pointer :
         LET d == DecodePosition(p)
         IN  Becomes([sel EXCEPT !.type = IF d.out THEN {} ELSE SidesAt(sel, d.at)])

(* A span of this length put at i, and back from the last row or column.      *)
Clamped(i, length, n) ==
    LET first == Higher(i, 0)
    IN  IF first + length >= n - 1 THEN <<n - 1 - length, n - 1>> ELSE <<first, first + length>>

(* Mutant: the side the pointer is on follows it, whatever the other one.     *)
DraggedFreely(s, at) ==
    [s EXCEPT !.start = <<IF "top" \in s.type THEN at[1] ELSE @[1],
                          IF "left" \in s.type THEN at[2] ELSE @[2]>>,
              !.end = <<IF "bottom" \in s.type THEN at[1] ELSE @[1],
                        IF "right" \in s.type THEN at[2] ELSE @[2]>>]

(* A side follows the pointer up to the one opposite.                         *)
Dragged(s, at) ==
    [s EXCEPT !.start = <<IF "top" \in s.type /\ at[1] <= s.end[1] THEN at[1] ELSE @[1],
                          IF "left" \in s.type /\ at[2] <= s.end[2] THEN at[2] ELSE @[2]>>,
              !.end = <<IF "bottom" \in s.type /\ at[1] >= s.start[1] THEN at[1] ELSE @[1],
                        IF "right" \in s.type /\ at[2] >= s.start[2] THEN at[2] ELSE @[2]>>]

DraggedWhole(s, at) ==
    LET rows == Clamped(at[1] - s.drag[1], s.end[1] - s.start[1], Rows)
        cols == Clamped(at[2] - s.drag[2], s.end[2] - s.start[2], Cols)
    IN  [s EXCEPT !.start = <<rows[1], cols[1]>>, !.end = <<rows[2], cols[2]>>]

Drag ==
    /\ ~sel.combo /\ sel.mode = "drag"
    /\ \E p \in Pointer :
         LET at == DecodePosition(p).at
         IN  Becomes(UpdateSelectedRectangle(
                 CASE sel.type = {"inside"} -> DraggedWhole(sel, at)
                   [] sel.type = {} -> sel
                   [] OTHER -> Dragged(sel, at)))

-----------------------------------------------------------------------------
(* The keyboard and the menus. *)

(* An arrow key moves the cursor, or waits for the keyboard to be unlocked.   *)
doSelect ==
    \E step \in {-1, 1, -Cols, Cols, 0} :
        LET t == IF sel.mode # "none" THEN sel
                 ELSE [SetSelectionMode(sel, Chosen(sel))
                         EXCEPT !.start = Corner(sel.cursor), !.end = Corner(sel.cursor)]
            moved == IF step = 0 THEN sel.cursor ELSE (sel.cursor + step + N) % N
        IN  Becomes(reselect([t EXCEPT !.cursor = moved, !.end = Corner(moved)]))

MoveSelection ==
    \E axis \in 1 .. 2, step \in {-1, 1} :
        LET last == (IF axis = 1 THEN Rows ELSE Cols) - 1
        IN  /\ sel.mode # "none"
            /\ IF step = -1 THEN sel.start[axis] > 0 /\ sel.end[axis] > 0
                            ELSE sel.start[axis] < last /\ sel.end[axis] < last
            /\ Becomes(reselect([sel EXCEPT !.start[axis] = @ + step, !.end[axis] = @ + step]))

(* The corners are not set.                                                   *)
selectall == Becomes(SetSelectionMode(SetSelection(sel, TRUE), Chosen(sel)))

SelectAtCursor ==
    /\ sel.cursor \in Addr
    /\ \E t \in selectword(sel) \cup selectfield(sel) : Becomes(t)

(* Sensitive once something was unselected.                                   *)
Reselect == sel.mode = "none" /\ sel.again /\ Becomes(reselect(sel))

(* By its own action, by the keys that send, and when the session ends.       *)
Unselect == sel.mode # "none" /\ Becomes(unselect(sel))

(* Mutant: what was selected stays marked.                                    *)
ToggleKeepsMarks == Becomes([sel EXCEPT !.rect = ~@, !.mode = "none"])

set_rectangle_select ==
    LET s == [sel EXCEPT !.rect = ~@]
    IN  Becomes(IF s.mode \in {"rectangle", "text"} THEN reselect(unselect(s)) ELSE s)

(* The start-up has called unselect.                                          *)
Init ==
    /\ text \in Texts /\ acts = 0
    /\ \E rect \in BOOLEAN :
         sel = [mode |-> "none", start |-> <<-1, 0>>, end |-> <<0, 0>>, drag |-> <<0, 0>>,
                type |-> {}, combo |-> FALSE, down |-> FALSE, again |-> FALSE,
                cells |-> Plain, rect |-> rect, cursor |-> 0]

Next == \/ mouse_button_press \/ mouse_double_press \/ mouse_copy_press \/ mouse_button_release
        \/ Stretch \/ Hover \/ Drag
        \/ doSelect \/ MoveSelection \/ selectall \/ SelectAtCursor
        \/ Reselect \/ Unselect \/ set_rectangle_select

Spec == Init /\ [][Next]_vars

-----------------------------------------------------------------------------
OnScreen(p) == p \in (0 .. Rows - 1) \X (0 .. Cols - 1)

Neighbour(a, d) ==
    CASE d = "top"    -> IF Row(a) = 0 THEN -1 ELSE a - Cols
      [] d = "bottom" -> IF Row(a) = Rows - 1 THEN -1 ELSE a + Cols
      [] d = "left"   -> IF Col(a) = 0 THEN -1 ELSE a - 1
      [] d = "right"  -> IF Col(a) = Cols - 1 THEN -1 ELSE a + 1

(* With nothing selected no cell is marked, and otherwise the border runs     *)
(* along exactly those sides of the marked cells that have no marked cell on  *)
(* the other side, whichever of the ways of marking was the last: dragging    *)
(* from any corner to any other, moving, words, fields.  Corners off the      *)
(* screen, which the pixel past its edge gives, leave the border open.        *)
SelectionOutlined ==
    /\ sel.mode \in Mode /\ sel.type \in DragType
    /\ sel.mode = "none" => Marked(sel.cells) = {}
    /\ OnScreen(sel.start) /\ OnScreen(sel.end) =>
         \A a \in Addr :
            sel.cells[a] = IF a \notin Marked(sel.cells) THEN {}
                           ELSE {"selected"} \cup {d \in Side : Neighbour(a, d) \notin Marked(sel.cells)}

Ordered(s) == s.start[1] <= s.end[1] /\ s.start[2] <= s.end[2]

Size(s) == <<s.end[1] - s.start[1], s.end[2] - s.start[2]>>

(* Dragging a side of a rectangle never turns it over, and dragging it as a   *)
(* whole keeps its size and keeps it on the screen, wherever the pointer goes.*)
DragKeepsShape ==
    [][sel.mode = "drag" /\ sel'.mode = "drag" /\ Ordered(sel) =>
         /\ Ordered(sel')
         /\ sel.type = {"inside"} /\ OnScreen(sel.start) /\ OnScreen(sel.end) =>
              Size(sel') = Size(sel) /\ OnScreen(sel'.start) /\ OnScreen(sel'.end)]_vars

(* Both, which is all that is promised of the selection (mouse.c).            *)
SelectionKept == []SelectionOutlined /\ DragKeepsShape
=============================================================================
