------------------------------- MODULE AnsiHost -------------------------------
(***************************************************************************)
(* A host that sends characters and escape sequences to the terminal of    *)
(* Ansi, in any order.                                                     *)
(***************************************************************************)
EXTENDS Ansi

CONSTANTS
    Page,           \* a page of characters, each at one place only
    Printed,        \* what is printed after it
    Counts,         \* the parameters of sequences
    MaxSequences    \* bound of the model: characters and sequences after a page

ASSUME AnsiHostAssumption ==
    /\ Page \in [1 .. N -> Graphic \ Printed] /\ Printed \subseteq Graphic
    /\ \A i, j \in 1 .. N : Page[i] = Page[j] => i = j
    /\ Counts \subseteq Nat /\ MaxSequences \in Nat

VARIABLES
    term,
    text,           \* the characters printed since the last sequence
    sequences       \* sent since the page, up to MaxSequences

vars == <<term, text, sequences>>

TypeOK ==
    /\ term \in Terminal
    /\ text \in Seq(Printed) /\ sequences \in 0 .. MaxSequences + 1

Init == term = FirstReset /\ text = <<>> /\ sequences = 0

(* The host fills the screen, from the top left.                              *)
FillPage ==
    /\ sequences = 0 /\ sequences' = 1 /\ text' = <<>>
    /\ term' = FoldLeft(ansi_printing, term, Page)

Sends(t) ==
    /\ sequences \in 1 .. MaxSequences /\ sequences' = sequences + 1
    /\ term' = t /\ text' = <<>>

TypeOut ==
    /\ sequences \in 1 .. MaxSequences /\ sequences' = sequences + 1
    /\ \E c \in Printed : term' = ansi_printing(term, c) /\ text' = Append(text, c)

SaveCursor    == Sends(dec_save_cursor(term))
RestoreCursor == Sends(dec_restore_cursor(term))
CursorUp      == \E n \in Counts : Sends(ansi_cursor_up(term, n))
CursorDown    == \E n \in Counts : Sends(ansi_cursor_down(term, n))
CursorRight   == \E n \in Counts : Sends(ansi_cursor_right(term, n))
CursorLeft    == \E n \in Counts : Sends(ansi_cursor_left(term, n))
CursorMotion  == \E row, col \in Counts : Sends(ansi_cursor_motion(term, row, col))
Backspace     == Sends(ansi_backspace(term))
Return        == Sends(ansi_cr(term))
LineFeed      == Sends(ansi_lf(term))
NewLine       == Sends(ansi_newline(term))
ReverseIndex  == Sends(ansi_reverse_index(term))
Tab           == Sends(ansi_htab(term))
SetTab        == Sends(ansi_htab_set(term))
ClearTabs     == \E n \in {0, 3} : Sends(ansi_htab_clear(term, n))
InsertChars   == \E n \in Counts : Sends(ansi_insert_chars(term, n))
DeleteChars   == \E n \in Counts : Sends(ansi_delete_chars(term, n))
InsertLines   == \E n \in Counts : Sends(ansi_insert_lines(term, n))
DeleteLines   == \E n \in Counts : Sends(ansi_delete_lines(term, n))
EraseDisplay  == \E n \in 0 .. 2 : Sends(ansi_erase_in_display(term, n))
EraseLine     == \E n \in 0 .. 2 : Sends(ansi_erase_in_line(term, n))
NewPage       == Sends(ansi_newpage(term))
Reset         == Sends(ansi_reset(term))
ScrollRegion  == \E t, b \in Counts : Sends(dec_scrolling_region(term, t, b))

SetMode   == \E m \in Mode \ Saved : Sends(ansi_set_mode(term, m)) \/ Sends(ansi_reset_mode(term, m))
DecModes  ==
    \E m \in Saved :
        \/ Sends(dec_set(term, m)) \/ Sends(dec_reset(term, m))
        \/ Sends(dec_save(term, m)) \/ Sends(dec_restore(term, m))

MovesLine   == LineFeed \/ NewLine \/ Return \/ ReverseIndex \/ TypeOut \/ Backspace \/ Tab
ChangesLine == InsertLines \/ DeleteLines \/ InsertChars \/ DeleteChars

Next ==
    \/ FillPage \/ MovesLine \/ ChangesLine
    \/ SaveCursor \/ RestoreCursor \/ CursorUp \/ CursorDown \/ CursorRight \/ CursorLeft
    \/ CursorMotion \/ SetTab \/ ClearTabs \/ EraseDisplay \/ EraseLine \/ NewPage \/ Reset
    \/ ScrollRegion \/ SetMode \/ DecModes

Spec == Init /\ [][Next]_vars

-----------------------------------------------------------------------------
Place(c) == CHOOSE i \in 1 .. N : Page[i] = c

InOrder(ea) ==
    \A a, b \in {x \in Addr : ea[x] \in Range(Page)} : a < b => Place(ea[a]) < Place(ea[b])

(* Scrolling, inserting and deleting move the characters of a page and drop   *)
(* some, on either screen, but never double one or change their order.        *)
OrderKept == InOrder(term.ea) /\ InOrder(term.aea)

(* Lines outside of the scrolling region do not move: what scrolls, inserts,  *)
(* deletes or prints changes at most the cursor's own line there; and of these *)
(* sequences none takes the cursor out of the region.                         *)
RegionKept ==
    [][(MovesLine \/ ChangesLine) =>
        /\ InRegion(term) => InRegion(term')
        /\ \A a \in Addr : \/ a \div Cols \in {Row(term), Row(term')}
                           \/ a \div Cols \in term.top - 1 .. term.bottom - 1
                           \/ term'.ea[a] = term.ea[a]]_vars

(* "Another printing character will put the cursor in column 2 of the next    *)
(* line" (ansi.c): characters printed one after the other are one after the   *)
(* other on the screen, as far as they have not scrolled away.                *)
TextFlows ==
    LET end == IF term.held THEN term.cursor ELSE term.cursor - 1
    IN  "wrap" \in term.modes =>
            \A i \in 1 .. Len(text) :
                LET a == end - (Len(text) - i)
                IN  a >= (term.top - 1) * Cols => term.ea[a] = text[i]

(* The same down to the bottom margin: below it each character goes back to   *)
(* the start of the line.                                                     *)
TextFlowsInRegion == Row(term) < term.bottom => TextFlows

(* Together with its type: what was on the screen stays in order, and what is *)
(* printed flows.                                                             *)
PageKept == TypeOK /\ OrderKept /\ TextFlowsInRegion
=============================================================================
