------------------------------ MODULE Controller ------------------------------
(***************************************************************************)
(* The host's side of the screen (src/src/lib/ctlr.c): Erase, Erase All    *)
(* Unprotected, and a Write taken one order at a time, in any order, so    *)
(* that every run of orders is met.  SSCP-LU data is an action of its own  *)
(* specification.  The module Editing has the user's side.                 *)
(***************************************************************************)
EXTENDS Screen

CONSTANTS
    FieldKinds      \* the attributes the host gives, sets of bits

ASSUME ControllerAssumption == FieldKinds \subseteq SUBSET Bit

VARIABLES
    t,              \* the screen and the state of a write
    writing

vars == <<t, writing>>

Closed(s) == [s |-> s, lastCmd |-> TRUE, lastZpt |-> FALSE, currentFa |-> {}, aborted |-> FALSE]

TypeOK ==
    /\ writing \in BOOLEAN
    /\ t \in [s : [ea : [Addr -> Cell], cursor : Addr, buffer : 0 .. N, formatted : BOOLEAN],
              lastCmd : BOOLEAN, lastZpt : BOOLEAN, currentFa : SUBSET (Bit \cup {"printable"}),
              aborted : BOOLEAN]
    /\ t.s.buffer = N => t.aborted \/ ~writing

Init == t = Closed(ctlr_clear([ea |-> Blanked])) /\ writing = FALSE

ctlr_erase == ~writing /\ t' = Closed(ctlr_clear(t.s)) /\ UNCHANGED writing

(* A formatted screen with no field has ctlr_erase_all_unprotected loop.      *)
ctlr_erase_all_unprotected ==
    /\ ~writing /\ (t.s.formatted => Fields(t.s.ea) # {})
    /\ t' = Closed(IF t.s.formatted THEN EraseFields(t.s) ELSE ctlr_clear(t.s))
    /\ UNCHANGED writing

WriteBegins ==
    /\ ~writing /\ writing' = TRUE
    /\ \E resetMdt \in BOOLEAN : t' = StartWrite(t.s, resetMdt)

(* Mutant: the flag of the screen is left alone.                              *)
WriteEndsStale == writing /\ writing' = FALSE /\ t' = Closed(t.s)

WriteEnds == writing /\ writing' = FALSE /\ t' = Closed(set_formatted(t.s))

Written(o) == writing /\ ~t.aborted /\ t' = Order(t, o) /\ UNCHANGED writing

Chars == Graphic \cup {"null"}

StartField    == \E fa \in FieldKinds : Written([op |-> "SF", fa |-> fa])
SetAddress    == \E a \in 0 .. N : Written([op |-> "SBA", at |-> a])
SetCursor     == Written([op |-> "IC"])
Tab           == Written([op |-> "PT"])
Repeat        == \E a \in 0 .. N, c \in Chars : Written([op |-> "RA", at |-> a, cc |-> c])
Erase         == \E a \in 0 .. N : Written([op |-> "EUA", at |-> a])
Escape        == \E c \in Graphic : Written([op |-> "GE", cc |-> c])
Modify        == \E fas \in {<<>>} \cup {<<fa>> : fa \in FieldKinds} : Written([op |-> "MF", fas |-> fas])
SetCharacter  == Written([op |-> "SA"])
Control       == Written([op |-> "FC", cc |-> "dup"])
Enter         == \E c \in Chars : Written([op |-> "text", cc |-> c])

Next ==
    \/ ctlr_erase \/ ctlr_erase_all_unprotected
    \/ WriteBegins \/ WriteEnds
    \/ StartField \/ SetAddress \/ SetCursor \/ Tab \/ Repeat \/ Erase \/ Escape \/ Modify
    \/ SetCharacter \/ Control \/ Enter

Spec == Init /\ [][Next]_vars

-----------------------------------------------------------------------------
(* SSCP-LU data: characters, and new lines that null the rest of a row.  It   *)
(* is written where the last write left the buffer address, on the screen.    *)
SscpNewLine(s) ==
    LET b == s.buffer
        S == {a \in b .. N - 1 : a \div Cols = b \div Cols}
    IN  [Nulled(s, S) EXCEPT !.buffer = (b - Column(b) + Cols) % N]

SscpCharacter(s, c) == [ctlr_add(s, s.buffer, c) EXCEPT !.buffer = INC_BA(@)]

SscpCursor(s) == cursor_move(s, s.buffer)

ctlr_write_sscp_lu ==
    /\ ~writing /\ t.s.buffer \in Addr /\ UNCHANGED writing
    /\ \/ t' = Closed(SscpCursor(SscpNewLine(t.s)))
       \/ \E c \in Graphic : t' = Closed(SscpCursor(SscpCharacter(t.s, c)))

SscpSpec == Init /\ [][Next \/ ctlr_write_sscp_lu]_vars

-----------------------------------------------------------------------------
(* Outside of a write, "formatted" says whether the screen has a field: the   *)
(* loops over fields, in ctlr.c and kybd.c, end only if it does.              *)
FormattedAgrees == ~writing => (t.s.formatted <=> Fields(t.s.ea) # {})

(* Together with its type, and the buffer address that no order leaves outside *)
(* of the screen but one that aborts the write.                               *)
ScreenConsistent == TypeOK /\ FormattedAgrees

(* What the host reads with Read Buffer, written back to a cleared screen, is *)
(* the same screen: attributes, their modified tags and every character.      *)
ReadBufferRestores ==
    ~writing => ctlr_write(ctlr_clear(t.s), FALSE, ctlr_read_buffer(t.s)).ea = t.s.ea

(* Erase All Unprotected leaves nothing for a Read Modified to find in an     *)
(* unprotected field, and everything of a protected one.                      *)
EraseLeavesProtected ==
    [][ctlr_erase_all_unprotected =>
        SelectSeq(ctlr_read_modified(t'.s), LAMBDA r : r.text # <<>>) =
        (IF t.s.formatted
         THEN SelectSeq(ctlr_read_modified(t.s),
                        LAMBDA r : r.text # <<>>
                                   /\ FA_IS_PROTECTED(get_field_attribute(t.s, DEC_BA(r.at))))
         ELSE <<>>)]_vars
=============================================================================
