------------------------------- MODULE Editing --------------------------------
(***************************************************************************)
(* The user's side of the screen: the keys of src/src/lib/kybd.c that edit *)
(* fields and move the cursor, in 3270 mode with the keyboard unlocked     *)
(* (the module Keyboard has its lock), and whole writes of the host        *)
(* between them.  A key the code refuses changes nothing here.             *)
(***************************************************************************)
EXTENDS Screen

CONSTANTS
    Writes,         \* what the host writes: orders, and whether after an erase
    InsertAcross,   \* whether an insertion may shift across the end of the screen
    MaxEdits        \* bound of the model: edits between two writes

ASSUME EditingAssumption == InsertAcross \in BOOLEAN /\ MaxEdits \in Nat

VARIABLES
    screen,
    insert,         \* the toggle INSERT
    blankFill,      \* the toggle BLANK_FILL
    edits           \* changes since the last write, up to MaxEdits

vars == <<screen, insert, blankFill, edits>>

TypeOK ==
    /\ screen \in [ea : [Addr -> Cell], cursor : Addr, buffer : 0 .. N, formatted : BOOLEAN]
    /\ insert \in BOOLEAN /\ blankFill \in BOOLEAN /\ edits \in 0 .. MaxEdits

Init ==
    /\ screen = ctlr_clear([ea |-> Blanked]) /\ edits = 0
    /\ insert = FALSE /\ blankFill \in BOOLEAN

faddr == find_field_attribute(screen, screen.cursor)

(* A position the user may change.                                            *)
OpenIn(s) == s.ea[s.cursor].fa = {} /\ ~FA_IS_PROTECTED(get_field_attribute(s, s.cursor))

Open == OpenIn(screen)

Becomes(s) ==
    /\ edits < MaxEdits /\ edits' = edits + 1
    /\ screen' = s /\ UNCHANGED <<insert, blankFill>>

-----------------------------------------------------------------------------
(* The host: a write, after an erase or over what is there, with or without   *)
(* keyboard restore, which resets the insert mode; Erase All Unprotected.     *)

HostWrites ==
    \E w \in Writes, restore \in BOOLEAN :
        /\ screen' = ctlr_write(IF w.erase THEN ctlr_clear(screen) ELSE screen, FALSE, w.orders)
        /\ insert' = (insert /\ ~restore)
        /\ edits' = 0 /\ UNCHANGED blankFill

Erased == IF screen.formatted THEN EraseFields(screen) ELSE ctlr_clear(screen)

HostErases == screen' = Erased /\ insert' = FALSE /\ edits' = 0 /\ UNCHANGED blankFill

-----------------------------------------------------------------------------
(* Typing. *)

IsBlank(c) == blankFill /\ c = "space"

(* Copies cells one at a time where a region crosses the end of the screen.   *)
(* % and * bind alike, so each address is cut to a row and then multiplied.   *)
Misplaced(a) == (a % Rows) * Cols

ctlr_wrapping_memmove(s, to, from, count) ==
    LET index(i) == IF to > from THEN count - i ELSE i - 1
        crosses  == from + count > N \/ to + count > N
    IN  IF crosses
        THEN [s EXCEPT !.ea = FoldLeft(LAMBDA ea, i :
                  [ea EXCEPT ![Misplaced(to + index(i))] = ea[Misplaced(from + index(i))]],
                  @, [i \in 1 .. count |-> i])]
        ELSE [s EXCEPT !.ea = [a \in Addr |-> IF a \in to .. to + count - 1
                                              THEN @[a - to + from] ELSE @[a]]]

(* The positions from a to the end of its field, or of its line.              *)
RestOfField(s, f, a) ==
    LET next == IF f = -1 THEN (a - Column(a) + Cols) % N
                ELSE FirstFrom(INC_BA(f), Fields(s.ea))
    IN  [i \in 1 .. (next - a) % N |-> Ahead(a, i - 1)]

(* Where one character at a finds room, as places in the rest of the field:   *)
(* the nulls and the blanks that end what is before the first of them.  A     *)
(* position is taken for such a blank when its address is not below theirs.   *)
Room(s, rest) ==
    LET n     == Len(rest)
        cc(i) == s.ea[rest[i]].cc
        nulls == {i \in 1 .. n : cc(i) = "null"}
        upTo  == (IF nulls = {} THEN n + 1 ELSE Min(nulls)) - 1
        tail  == {i \in 1 .. upTo : \A j \in i .. upTo : blankFill /\ cc(j) = "space"}
    IN  nulls \cup {i \in 1 .. n : tail # {} /\ rest[i] >= rest[Min(tail)]}

(* Mutant: one cell too many is shifted.                                      *)
ins_prepLonger(s, a, room) == ctlr_wrapping_memmove(s, INC_BA(a), a, Min(room))

ins_prep(s, a, room) ==
    LET count == Min(room) - 1
    IN  IF count = 0 THEN s ELSE ctlr_wrapping_memmove(s, INC_BA(a), a, count)

(* The nulls before a in its field become blanks, back to a line's end that   *)
(* has nothing but nulls before it on its line.                               *)
FillBlanks(s, f, a) ==
    LET len     == (a - f) % N
        empty(n) == /\ Column(Behind(a, n)) = Cols - 1
                    /\ \A m \in n .. len - 1 : m - n < Cols => s.ea[Behind(a, m)].cc = "null"
        end     == Min({n \in 0 .. len - 1 : empty(n)} \cup {len})
        filled  == {x \in {Behind(a, n) : n \in 0 .. end - 1} : s.ea[x].cc = "null"}
    IN  [s EXCEPT !.ea = [x \in Addr |-> IF x \in filled THEN [cc |-> "space", fa |-> {}]
                                                         ELSE @[x]]]

(* Mutant: one attribute is stepped over, no more.                            *)
LandingOnce(s, a) == IF a \in Fields(s.ea) THEN INC_BA(a) ELSE a

(* Where the cursor goes: past attributes, and from one that says skip to the *)
(* next unprotected field.                                                    *)
Landing(s, a) ==
    LET stops == (Addr \ Fields(s.ea)) \cup {x \in Fields(s.ea) : FA_IS_SKIP(s.ea[x].fa)}
        stop  == FirstFrom(a, stops)
    IN  IF stop \in Fields(s.ea) THEN next_unprotected(s, stop) ELSE stop

(* Mutant: the tag of the field is not set.                                   *)
TypedUnmarked(s, c) ==
    LET a      == s.cursor
        added  == ctlr_add(s, a, c)
    IN  IF c = "dup" THEN added ELSE cursor_move(added, Landing(added, INC_BA(a)))

Typed(s, c) ==
    LET a      == s.cursor
        f      == find_field_attribute(s, a)
        added  == ctlr_add(s, a, c)
        filled == IF s.formatted /\ f # -1 /\ blankFill THEN FillBlanks(added, f, a) ELSE added
        marked == mdt_set(filled, a)
    IN  IF c = "dup" THEN marked ELSE cursor_move(marked, Landing(marked, INC_BA(a)))

(* A character goes over what is there or, in insert mode, between: then it   *)
(* needs room in its field.                                                   *)
Rest(s) == RestOfField(s, find_field_attribute(s, s.cursor), s.cursor)

Accepts(s) ==
    /\ OpenIn(s)
    /\ insert => Room(s, Rest(s)) # {} /\ (InsertAcross \/ s.cursor + Len(Rest(s)) <= N)

Keyed(s, c) == Typed(IF insert THEN ins_prep(s, s.cursor, Room(s, Rest(s))) ELSE s, c)

key_Character(c) == Accepts(screen) /\ Becomes(Keyed(screen, c))

Type == \E c \in Graphic \cup {"space"} : key_Character(c)

dup ==
    /\ Accepts(screen)
    /\ LET s == Keyed(screen, "dup")
       IN  Becomes(cursor_move(s, next_unprotected(s, screen.cursor)))

ToggleInsert    == insert' = ~insert /\ UNCHANGED <<screen, blankFill, edits>>
ToggleBlankFill == blankFill' = ~blankFill /\ UNCHANGED <<screen, insert, edits>>

-----------------------------------------------------------------------------
(* Erasing. *)

ctlr_bcopy(s, from, to, count) ==
    [s EXCEPT !.ea = [a \in Addr |-> IF a \in to .. to + count - 1 THEN @[a - to + from] ELSE @[a]]]

(* The last position that a deletion at a moves: of its field, or its line.   *)
DeleteEnd(s, a) ==
    IF s.formatted THEN DEC_BA(FirstFrom(INC_BA(a), Fields(s.ea) \cup {a}))
    ELSE a - Column(a) + Cols - 1

(* Mutant: the cell that crosses the end of the screen is copied last.        *)
ShiftedSwapped(s, a, end) ==
    CASE end > a -> ctlr_bcopy(s, a + 1, a, end - a)
      [] end = a -> s
      [] OTHER   -> ctlr_bcopy(ctlr_bcopy(ctlr_bcopy(s, a + 1, a, N - 1 - a), 1, 0, end), 0, N - 1, 1)

Shifted(s, a, end) ==
    CASE end > a -> ctlr_bcopy(s, a + 1, a, end - a)
      [] end = a -> s
      [] OTHER   -> ctlr_bcopy(ctlr_bcopy(ctlr_bcopy(s, a + 1, a, N - 1 - a), 0, N - 1, 1), 1, 0, end)

do_delete(s) ==
    LET a == s.cursor
        end == DeleteEnd(s, a)
    IN  IF ~OpenIn(s) \/ (~s.formatted /\ Column(a) = Cols - 1) THEN s
        ELSE mdt_set(ctlr_add(Shifted(s, a, end), end, "null"), a)

(* The attribute tested is that of the cursor's own position, and the first   *)
(* position of a field is known by its address, which fails at 0.             *)
do_erase(s) ==
    LET f == find_field_attribute(s, s.cursor)
    IN  IF f = s.cursor \/ (s.cursor # 0 /\ f = s.cursor - 1) THEN s
        ELSE do_delete(cursor_move(s, DEC_BA(s.cursor)))

delete == Open /\ Becomes(do_delete(screen))
erase  == Becomes(do_erase(screen))

Blank(s, a) == s.ea[a].cc \in {"null", "space"}

(* First the blanks left of the cursor go, then what is left of it up to a    *)
(* blank; an attribute ends either.                                           *)
DeleteWord(s) ==
    FoldLeft(LAMBDA r, i :
                 LET left == DEC_BA(r.s.cursor)
                 IN  IF r.done \/ left \in Fields(r.s.ea) \/ (r.inWord /\ Blank(r.s, left))
                     THEN [r EXCEPT !.done = TRUE]
                     ELSE [s |-> do_erase(r.s), inWord |-> ~Blank(r.s, left), done |-> FALSE],
             [s |-> s, inWord |-> FALSE, done |-> FALSE], [i \in 1 .. N |-> i]).s

deleteword == screen.formatted /\ Open /\ Becomes(DeleteWord(screen))

EraseTo(end) == Becomes(mdt_set(Nulled(screen, Span(screen.cursor, end)), screen.cursor))

eraseeol ==
    /\ Open
    /\ EraseTo(FirstFrom(INC_BA(screen.cursor),
                         Fields(screen.ea) \cup {a \in Addr : Column(a) = 0}))

(* Mutant: the next attribute goes too.                                       *)
EofEndPast == INC_BA(FirstFrom(INC_BA(screen.cursor), Fields(screen.ea) \cup {0}))

EofEnd == FirstFrom(INC_BA(screen.cursor), IF screen.formatted THEN Fields(screen.ea) ELSE {0})

eraseeof == Open /\ EraseTo(EofEnd)

eraseinput == Becomes(Erased)

FieldStart == INC_BA(LastUpTo(screen.cursor, Fields(screen.ea)))

FieldNulled(s, start) == Nulled(s, Span(start, FirstFrom(start, Fields(s.ea))))

deletefield ==
    /\ screen.formatted /\ Open
    /\ Becomes(cursor_move(mdt_set(FieldNulled(screen, FieldStart), screen.cursor), FieldStart))

clear == Becomes(ctlr_clear(screen))

(* For the command of a file transfer.  A field that starts at address 0 is   *)
(* taken for none.                                                            *)
kybd_prime ==
    /\ screen.formatted
    /\ \E start \in {IF Open THEN FieldStart ELSE next_unprotected(screen, screen.cursor)} :
        /\ Open \/ start # 0
        /\ Becomes(cursor_move(FieldNulled(screen, start), start))

-----------------------------------------------------------------------------
(* Moving the cursor. *)

MovesTo(a) == screen' = cursor_move(screen, a) /\ UNCHANGED <<insert, blankFill, edits>>

tab == MovesTo(next_unprotected(screen, screen.cursor))

backtab ==
    LET before == DEC_BA(screen.cursor)
        from   == IF before \in Fields(screen.ea) THEN DEC_BA(before) ELSE before
    IN  MovesTo(IF Unprotected(screen.ea) = {} THEN 0
                ELSE INC_BA(LastUpTo(from, Unprotected(screen.ea))))

firstfield == MovesTo(IF screen.formatted THEN next_unprotected(screen, N - 1) ELSE 0)

left  == MovesTo(DEC_BA(screen.cursor))
right == MovesTo(INC_BA(screen.cursor))

(* Mutant: no wrap at the top.                                                *)
upUnwrapped == MovesTo(screen.cursor - Cols)

up    == MovesTo(Behind(screen.cursor, Cols))
down  == MovesTo(Ahead(screen.cursor, Cols))

newline ==
    LET line == Ahead(screen.cursor - Column(screen.cursor), Cols)
        f    == find_field_attribute(screen, line)
    IN  MovesTo(IF f # line /\ ~FA_IS_PROTECTED(FieldAttribute(screen, f)) THEN line
                ELSE next_unprotected(screen, line))

Letters == {a \in Addr \ Fields(screen.ea) : ~Blank(screen, a)}
OpenLetters == {a \in Letters : ~FA_IS_PROTECTED(get_field_attribute(screen, a))}

previousword ==
    LET word == LastUpTo(IF screen.cursor \in OpenLetters
                         THEN LastUpTo(screen.cursor, Addr \ Letters) ELSE screen.cursor,
                         OpenLetters)
    IN  /\ screen.formatted /\ OpenLetters # {}
        /\ MovesTo(INC_BA(LastUpTo(word, Addr \ Letters)))

nu_word(a) == FirstFrom(a, OpenLetters)

(* The letters of the field after the cursor's word.                          *)
LaterWords ==
    LET rest == RestOfField(screen, faddr, screen.cursor)
    IN  {rest[i] : i \in {j \in 1 .. Len(rest) :
                             rest[j] \in Letters /\ \E k \in 1 .. j - 1 : Blank(screen, rest[k])}}

(* The end of a word is its first blank or null: an attribute has a null, so  *)
(* that a word that fills its field is left for the attribute after it.       *)
nextword ==
    /\ screen.formatted
    /\ IF Open /\ LaterWords # {} THEN MovesTo(FirstFrom(screen.cursor, LaterWords))
       ELSE IF Open /\ screen.cursor \in Letters
            THEN MovesTo(FirstFrom(screen.cursor, {a \in Addr : Blank(screen, a)}))
       ELSE OpenLetters # {} /\ MovesTo(nu_word(screen.cursor))

fieldend ==
    LET rest    == RestOfField(screen, faddr, FieldStart)
        letters == {i \in 1 .. Len(rest) : ~Blank(screen, rest[i])}
    IN  /\ screen.formatted /\ Open
        /\ MovesTo(IF letters = {} THEN FieldStart
                   ELSE rest[Min({Max(letters) + 1, Len(rest)})])

-----------------------------------------------------------------------------
Edits == Type \/ dup \/ delete \/ erase \/ deleteword \/ eraseeol \/ eraseeof \/ deletefield

Moves ==
    \/ tab \/ backtab \/ firstfield \/ left \/ right \/ up \/ down \/ newline
    \/ previousword \/ nextword \/ fieldend

Next ==
    \/ HostWrites \/ HostErases
    \/ Edits \/ eraseinput \/ clear \/ kybd_prime \/ Moves
    \/ ToggleInsert \/ ToggleBlankFill

Spec == Init /\ [][Next]_vars

-----------------------------------------------------------------------------
Kind(ea, a) == ea[a].fa \ {"modify"}

KeepsProtected ==
    \A a \in Addr :
        /\ Kind(screen'.ea, a) = Kind(screen.ea, a)
        /\ FA_IS_PROTECTED(get_field_attribute(screen, a)) => screen'.ea[a].cc = screen.ea[a].cc

(* No key but Clear makes, moves or removes an attribute, or changes one but  *)
(* for its modified tag, or a character of a protected field; and auto-skip   *)
(* leaves the cursor on no attribute, however many follow each other.  No key *)
(* leaves the screen's types.                                                 *)
ProtectedKept ==
    [][/\ TypeOK'
       /\ \/ screen'.ea = screen.ea \/ KeepsProtected
          \/ ~(Edits \/ kybd_prime \/ Moves \/ (screen.formatted /\ eraseinput))
       /\ screen'.cursor \in Fields(screen'.ea) => ~Type]_vars

(* The fields that a Read Modified returns, by their first address.           *)
Reads(s) == {r.at : r \in Range(ctlr_read_modified(s))}

(* What the user edits the host can read: a field whose text a key changes is *)
(* in the next Read Modified, and none that was in it leaves.                 *)
EditsReachHost ==
    [][screen.formatted /\ screen'.ea # screen.ea /\ Edits =>
        /\ Reads(screen) \subseteq Reads(screen')
        /\ \A a \in Fields(screen.ea) :
               INC_BA(a) \in Reads(screen') \/ FieldText(screen', a) = FieldText(screen, a)]_vars

FieldLength == (FirstFrom(FieldStart, Fields(screen.ea)) - FieldStart) % N
Before      == (screen.cursor - FieldStart) % N

CellsFrom(s, a, n) == [i \in 1 .. n |-> s.ea[Ahead(a, i - 1)]]

(* The characters, blanks and nulls apart, of n positions.                    *)
Written(s, a, n) ==
    SelectSeq([i \in 1 .. n |-> s.ea[Ahead(a, i - 1)].cc], LAMBDA c : c \in Graphic \cup {"dup"})

(* "Shift the buffer to the right until we've consumed the available (and     *)
(* needed) NULLs" (kybd.c): an insertion loses no character of the field and  *)
(* comes before those that the cursor was before.                             *)
InsertionShifts ==
    [][insert /\ screen.formatted /\ screen'.ea # screen.ea =>
        \A c \in Graphic :
            key_Character(c) =>
                Written(screen', FieldStart, FieldLength) =
                    Written(screen, FieldStart, Before) \o <<c>>
                        \o Written(screen, screen.cursor, FieldLength - Before)]_vars

(* A deletion takes one position out of the field and puts a null at its end, *)
(* also where the field goes on at the start of the screen ("XXX: Need to     *)
(* verify this", kybd.c).                                                     *)
DeletionShifts ==
    [][screen.formatted /\ delete =>
        CellsFrom(screen', FieldStart, FieldLength) =
            Append(RemoveAt(CellsFrom(screen, FieldStart, FieldLength), Before + 1),
                   [cc |-> "null", fa |-> {}])]_vars

(* Together, for a terminal whose insertion stays on its line.                *)
FieldsShift == InsertionShifts /\ DeletionShifts
=============================================================================
