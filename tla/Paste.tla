-------------------------------- MODULE Paste ---------------------------------
(***************************************************************************)
(* Text that the program types into the screen by itself: pasting          *)
(* (src/src/lib/paste.c, src/src/gtk2/clipboard.c), and the command that   *)
(* starts a file transfer (lib3270_emulate_input in src/src/lib/kybd.c).   *)
(*                                                                         *)
(* A text is a sequence of characters and "newline"; tabs have become      *)
(* blanks.  What a locked keyboard refuses changes nothing here.           *)
(***************************************************************************)
EXTENDS Editing

CONSTANTS
    Pasted,         \* texts that are pasted, or copied from the screen
    Commands        \* file transfer commands, without the Enter at their end

VARIABLES
    smart,          \* the toggle SMART_PASTE
    margined,       \* the toggle MARGINED_PASTE
    clip            \* clipboard_string, <<>> for none

pasteVars == <<smart, margined, clip>>

Line(a) == a \div Cols

-----------------------------------------------------------------------------
(* lib3270_set_string.  Its state t is the screen s, the number n of          *)
(* characters consumed, row, last ("stop" for 0), and typed, the pairs of     *)
(* address and character of all that were accepted.                           *)

(* Back to the right of the margin; the code loops until it is, and gives up  *)
(* where that would go back to the top.                                       *)
remargin(s, margin) ==
    LET first == s.cursor - Column(s.cursor) + margin
        stays(a) == find_field_attribute(s, a) # a /\ ~FA_IS_PROTECTED(get_field_attribute(s, a))
        step(r, i) ==
            LET a == r.at - Column(r.at) + margin
            IN  CASE ~r.ok \/ Column(r.at) >= margin -> r
                  [] stays(a) -> [r EXCEPT !.at = a]
                  [] OTHER -> [at |-> next_unprotected(s, a), ok |-> next_unprotected(s, a) > first]
    IN  FoldLeft(step, [at |-> s.cursor, ok |-> TRUE], [i \in 1 .. N |-> i])

MovedTo(t, r) == IF r.ok THEN [t EXCEPT !.s = cursor_move(t.s, r.at)] ELSE [t EXCEPT !.last = "stop"]

Remargined(t, margin) == IF margined THEN MovedTo(t, remargin(t.s, margin)) ELSE t

key_ACharacter(t, c) ==
    IF Accepts(t.s)
    THEN [t EXCEPT !.s = Keyed(t.s, c), !.typed = Append(@, <<t.s.cursor, c>>)]
    ELSE t

OnLine(back) ==
    IF back.last = "stop" THEN back
    ELSE [back EXCEPT !.row = Line(back.s.cursor), !.last = "newline"]

InLine(keyed, margin) ==
    IF Line(keyed.s.cursor) = keyed.row THEN keyed ELSE OnLine(Remargined(keyed, margin))

(* A smart paste steps over a protected position.                             *)
paste_char(t, margin, c) ==
    LET skips == smart /\ FA_IS_PROTECTED(get_field_attribute(t.s, t.s.cursor))
    IN  InLine([(IF skips THEN [t EXCEPT !.s.cursor = @ + 1] ELSE key_ACharacter(t, c))
                   EXCEPT !.n = @ + 1, !.last = c], margin)

(* The line that a newline goes to; one right after a full line is dropped.   *)
paste_newline(t) ==
    LET line == Ahead(t.s.cursor - Column(t.s.cursor), Cols)
        f    == find_field_attribute(t.s, line)
        to   == IF f # line /\ ~FA_IS_PROTECTED(FieldAttribute(t.s, f)) THEN line
                ELSE next_unprotected(t.s, line)
        done == [t EXCEPT !.n = @ + 1, !.last = "space"]
    IN  IF t.last = "newline" THEN done
        ELSE [done EXCEPT !.s = cursor_move(t.s, to), !.row = Line(to)]

Margined(u, margin) == IF Column(u.s.cursor) < margin THEN Remargined(u, margin) ELSE u

(* Mutant: no look at the cursor between the characters.                      *)
lib3270_set_stringRound(s, str) ==
    LET margin == Column(s.cursor)
        step(t, c) ==
            IF t.last = "stop" THEN t
            ELSE Margined(IF c = "newline" THEN paste_newline(t) ELSE paste_char(t, margin, c), margin)
    IN  FoldLeft(step, [s |-> s, n |-> 0, row |-> Line(s.cursor), last |-> "none",
                        typed |-> <<>>], str)

(* Until the text ends, the cursor wraps or finds no place.                   *)
lib3270_set_string(s, str) ==
    LET margin == Column(s.cursor)
        step(t, c) ==
            IF t.last = "stop" \/ t.s.cursor < s.cursor \/ t.s.cursor >= N THEN t
            ELSE Margined(IF c = "newline" THEN paste_newline(t) ELSE paste_char(t, margin, c), margin)
    IN  FoldLeft(step, [s |-> s, n |-> 0, row |-> Line(s.cursor), last |-> "none",
                        typed |-> <<>>], str)

-----------------------------------------------------------------------------
(* The clipboard. *)

(* What was not consumed is left for the action "paste next".  A smart paste  *)
(* may step off the end of the screen, where the code reads past its buffer:  *)
(* that is left out.                                                          *)
paste_string(str) ==
    \E t \in {lib3270_set_string(screen, str)} :
        /\ str # <<>> /\ t.s.cursor \in Addr
        /\ Becomes(t.s)
        /\ clip' = SubSeq(str, t.n + 1, Len(str))

(* A text from the system's clipboard, which other programs set and which     *)
(* arrives some time after it was asked for, or from a file.                  *)
process_text_received == \E str \in Pasted : paste_string(str) /\ UNCHANGED <<smart, margined>>

(* With nothing left, the system's clipboard is asked for its text.           *)
pastenext == clip # <<>> /\ paste_string(clip) /\ UNCHANGED <<smart, margined>>

(* Append joins the text to what is left of the last copy or paste.           *)
set_clipboard_contents(str, append) ==
    /\ clip' = IF append /\ clip # <<>> THEN clip \o <<"newline">> \o str ELSE str
    /\ UNCHANGED <<vars, smart, margined>>

copy   == \E str \in Pasted : set_clipboard_contents(str, FALSE)
append == \E str \in Pasted : Len(clip) < 2 /\ set_clipboard_contents(str, TRUE)

(* Copying an image, and the end of a session.                                *)
clear_clipboard_string == clip' = <<>> /\ UNCHANGED <<vars, smart, margined>>

-----------------------------------------------------------------------------
(* The command of a file transfer: what precedes it is checked first.         *)

(* Where kybd_prime puts the cursor, 0 for nowhere.                           *)
Primed(s) == LET start == INC_BA(LastUpTo(s.cursor, Fields(s.ea)))
             IN  IF OpenIn(s) THEN start ELSE next_unprotected(s, s.cursor)

FieldSize(s, start) == (FirstFrom(start, Fields(s.ea)) - start) % N

MayStart(s, cmd) ==
    /\ s.formatted /\ (OpenIn(s) \/ Primed(s) # 0)
    /\ FieldSize(s, Primed(s)) # 0 /\ FieldSize(s, Primed(s)) >= Len(cmd)

(* Typed as from the keyboard.                                                *)
lib3270_emulate_input(s, cmd) ==
    FoldLeft(key_ACharacter, [s |-> s, typed |-> <<>>], cmd).s

(* Mutant: the field is not emptied.                                          *)
CommandSentOver(s, cmd) == lib3270_emulate_input(cursor_move(s, Primed(s)), cmd)

CommandSent(s, cmd) ==
    LET primed == cursor_move(FieldNulled(s, Primed(s)), Primed(s))
    IN  lib3270_emulate_input(primed, cmd)

ft_start ==
    \E cmd \in Commands :
        MayStart(screen, cmd) /\ Becomes(CommandSent(screen, cmd)) /\ UNCHANGED pasteVars

-----------------------------------------------------------------------------
PasteInit == Init /\ smart \in BOOLEAN /\ margined \in BOOLEAN /\ clip = <<>>

PasteNext ==
    \/ (HostWrites \/ right \/ ToggleInsert) /\ UNCHANGED pasteVars
    \/ process_text_received \/ pastenext
    \/ copy \/ append \/ clear_clipboard_string
    \/ ft_start

PasteSpec == PasteInit /\ [][PasteNext]_<<vars, pasteVars>>

-----------------------------------------------------------------------------
(* Wherever the cursor is, the characters of a paste that are accepted are    *)
(* put in the order of the text at positions one after the other, none before *)
(* that of the cursor and, with margins, none to the left of it; and what is  *)
(* typed over nothing is still there at the end.  A wrap round the screen is  *)
(* noticed unless it ends on the very position the paste began at, or at the  *)
(* left of the margin, from where the cursor goes on to the next line.        *)
PasteGoesForward ==
    \A str \in Pasted : \A t \in {lib3270_set_string(screen, str)} :
        LET at(i) == t.typed[i][1]
            again == \E i \in 2 .. Len(t.typed) : at(i) <= at(i - 1)
        IN  \A i \in 1 .. Len(t.typed) :
                /\ at(i) >= screen.cursor
                /\ margined => Column(at(i)) >= Column(screen.cursor)
                /\ i > 1 /\ ~margined => at(i) > at(i - 1) \/ at(i) = screen.cursor
                /\ ~insert /\ ~again => t.s.ea[at(i)].cc = t.typed[i][2]

(* When the command of a file transfer is accepted, its field is all it says, *)
(* and is among those that the Enter after it sends.                          *)
CommandReachesHost ==
    \A cmd \in Commands :
        MayStart(screen, cmd) =>
            [at |-> Primed(screen), text |-> cmd] \in
                Range(ctlr_read_modified(CommandSent(screen, cmd)))

(* Together: what goes into the screen in one piece stays in one piece.        *)
TextArrives == PasteGoesForward /\ CommandReachesHost
=============================================================================
