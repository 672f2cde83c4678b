-------------------------------- MODULE Screen --------------------------------
(***************************************************************************)
(* The 3270 screen buffer (src/src/lib/ctlr.c): its positions, the fields  *)
(* that attributes cut it into, and what the orders of a host's write do   *)
(* to it.                                                                  *)
(*                                                                         *)
(* A screen is a record: ea, a cell for every position; cursor and buffer, *)
(* the two addresses; formatted.  A cell is a character cc and an          *)
(* attribute fa, the set of its bits, empty where there is none.           *)
(* Colours, character sets, DBCS and the intensity bits are left out.      *)
(***************************************************************************)
EXTENDS Integers, Sequences, SequencesExt, FiniteSets, FiniteSetsExt

CONSTANTS
    Rows, Cols,
    Graphic         \* characters other than those below

ASSUME ScreenAssumption ==
    /\ Rows \in Nat \ {0, 1} /\ Cols \in Nat \ {0, 1}
    /\ Graphic \cap {"null", "space", "dup"} = {}

N    == Rows * Cols
Addr == 0 .. N - 1
Char == Graphic \cup {"null", "space", "dup"}
Bit  == {"protect", "numeric", "modify"}
Attribute == {{"printable"} \cup b : b \in SUBSET Bit}
Cell == [cc : Char, fa : {{}} \cup Attribute]

INC_BA(a) == (a + 1) % N
DEC_BA(a) == (a + N - 1) % N
Ahead(a, n)  == (a + n) % N
Behind(a, n) == (a - n) % N
Column(a) == a % Cols

(* The addresses met on the way from a up to b, all of them if b is a.        *)
Span(a, b) == {Ahead(a, n) : n \in 0 .. (b - a - 1) % N}

(* The first address from a onwards, or backwards, in a set that has one.     *)
FirstFrom(a, S) ==
    Ahead(a, CHOOSE n \in 0 .. N - 1 : Ahead(a, n) \in S /\ \A m \in 0 .. n - 1 : Ahead(a, m) \notin S)
LastUpTo(a, S) ==
    Behind(a, CHOOSE n \in 0 .. N - 1 : Behind(a, n) \in S /\ \A m \in 0 .. n - 1 : Behind(a, m) \notin S)

FA_IS_PROTECTED(fa) == "protect" \in fa
FA_IS_MODIFIED(fa)  == "modify" \in fa
FA_IS_SKIP(fa)      == {"protect", "numeric"} \subseteq fa

Fields(ea) == {a \in Addr : ea[a].fa # {}}

Blanked  == [a \in Addr |-> [cc |-> "null", fa |-> {}]]

-----------------------------------------------------------------------------
(* Fields. *)

find_field_attribute(s, a) ==
    IF ~s.formatted \/ Fields(s.ea) = {} THEN -1 ELSE LastUpTo(a, Fields(s.ea))

(* Position -1 holds the attribute of an unformatted screen.                  *)
FieldAttribute(s, faddr) == IF faddr = -1 THEN {"printable", "modify"} ELSE s.ea[faddr].fa

get_field_attribute(s, a) == FieldAttribute(s, find_field_attribute(s, a))

(* The attributes of unprotected fields of at least one position.             *)
Unprotected(ea) ==
    {a \in Fields(ea) : ~FA_IS_PROTECTED(ea[a].fa) /\ INC_BA(a) \notin Fields(ea)}

next_unprotected(s, a) ==
    IF Unprotected(s.ea) = {} THEN 0 ELSE INC_BA(FirstFrom(a, Unprotected(s.ea)))

set_formatted(s) == [s EXCEPT !.formatted = Fields(s.ea) # {}]

-----------------------------------------------------------------------------
(* Changes. *)

(* A character removes the attribute of its position.                         *)
ctlr_add(s, a, c) == [s EXCEPT !.ea[a] = [cc |-> c, fa |-> {}]]

ctlr_add_fa(s, a, fa) == [s EXCEPT !.ea[a] = [cc |-> "null", fa |-> {"printable"} \cup fa]]

Unmodified(ea, S) ==
    [a \in Addr |-> IF a \in S THEN [ea[a] EXCEPT !.fa = @ \ {"modify"}] ELSE ea[a]]

Nulled(s, S) == [s EXCEPT !.ea = [a \in Addr |-> IF a \in S THEN [cc |-> "null", fa |-> {}]
                                                            ELSE @[a]]]

mdt_set(s, a) ==
    LET faddr == find_field_attribute(s, a)
    IN  IF faddr = -1 THEN s ELSE [s EXCEPT !.ea[faddr].fa = @ \cup {"modify"}]

cursor_move(s, a) == [s EXCEPT !.cursor = a]

ctlr_clear(s) == [ea |-> Blanked, cursor |-> 0, buffer |-> 0, formatted |-> FALSE]

(* Mutant: a position has the attribute of the one after it.                  *)
EraseFieldsEarly(s) ==
    cursor_move(Nulled(s, {x \in Addr \ Fields(s.ea) :
                             ~FA_IS_PROTECTED(get_field_attribute(s, INC_BA(x)))}), 0)

(* The host's Erase All Unprotected and the user's Erase Input: field by      *)
(* field, from the first attribute round to it.  The cursor goes to the first *)
(* position after an unprotected attribute, data or not.                      *)
EraseFields(s) ==
    LET first == FirstFrom(0, Fields(s.ea))
        ofs   == {a \in Fields(s.ea) : ~FA_IS_PROTECTED(s.ea[a].fa)}
        data(a) == LET next == FirstFrom(INC_BA(a), Fields(s.ea))
                   IN  IF next = INC_BA(a) THEN {} ELSE Span(INC_BA(a), next)
        wiped == Nulled(s, UNION {data(a) : a \in ofs})
    IN  [wiped EXCEPT
            !.ea = Unmodified(@, ofs),
            !.cursor = IF ofs = {} THEN 0 ELSE INC_BA(FirstFrom(first, ofs))]

-----------------------------------------------------------------------------
(* A write is a run of orders.  Its state t is the screen and, in fields of   *)
(* their own, lastCmd, lastZpt, currentFa and aborted.                        *)

Ordered(t)  == [t EXCEPT !.lastCmd = TRUE, !.lastZpt = FALSE]
Located(t)  == [t EXCEPT !.currentFa = get_field_attribute(t.s, t.s.buffer)]
Advanced(t) == [t EXCEPT !.s.buffer = INC_BA(@)]

StartWrite(s, resetMdt) ==
    LET here == [s EXCEPT !.buffer = s.cursor]
        t == IF resetMdt THEN [here EXCEPT !.ea = Unmodified(@, Addr)] ELSE here
    IN  [s |-> t, lastCmd |-> TRUE, lastZpt |-> FALSE,
         currentFa |-> get_field_attribute(t, t.buffer), aborted |-> FALSE]

START_FIELD(t, fa) ==
    Ordered(Advanced([t EXCEPT !.s = [ctlr_add_fa(t.s, t.s.buffer, fa) EXCEPT !.formatted = TRUE],
                               !.currentFa = fa]))

(* Mutant: any address will do.                                               *)
SetAnyAddress(t, a) == Ordered(Located([t EXCEPT !.s.buffer = a]))

SetBufferAddress(t, a) ==
    LET moved == [t EXCEPT !.s.buffer = a]
    IN  IF a >= N THEN [moved EXCEPT !.aborted = TRUE] ELSE Ordered(Located(moved))

InsertCursor(t) == Ordered([t EXCEPT !.s = cursor_move(t.s, t.s.buffer)])

ProgramTab(t) ==
    LET b    == t.s.buffer
        fa   == t.s.ea[b].fa
        next == next_unprotected(t.s, b)
        to   == IF next < b THEN 0 ELSE next
        end  == FirstFrom(b, Fields(t.s.ea) \cup {to})
        nulling == ~t.lastCmd \/ t.lastZpt
    IN  IF fa # {} /\ ~FA_IS_PROTECTED(fa) THEN Ordered(Advanced(t))
        ELSE [t EXCEPT !.s = [(IF nulling /\ end # b THEN Nulled(t.s, Span(b, end)) ELSE t.s)
                                EXCEPT !.buffer = to],
                       !.lastCmd = TRUE,
                       !.lastZpt = nulling /\ (to = 0 \/ @)]

RepeatToAddress(t, a, c) ==
    LET S == Span(t.s.buffer, a)
        filled == [t.s EXCEPT !.buffer = a,
                              !.ea = [x \in Addr |-> IF x \in S THEN [cc |-> c, fa |-> {}]
                                                                ELSE @[x]]]
    IN  IF a >= N THEN [t EXCEPT !.aborted = TRUE] ELSE Ordered(Located([t EXCEPT !.s = filled]))

(* The attribute in force is current_fa until the first one on the way.       *)
EraseUnprotectedToAddress(t, a) ==
    LET b == t.s.buffer
        S == Span(b, a)
        passed(x) == {y \in Fields(t.s.ea) \cap S : (y - b) % N <= (x - b) % N}
        fa(x) == IF passed(x) = {} THEN t.currentFa ELSE t.s.ea[LastUpTo(x, passed(x))].fa
        open  == {x \in S \ Fields(t.s.ea) : ~FA_IS_PROTECTED(fa(x))}
    IN  IF a >= N THEN [t EXCEPT !.aborted = TRUE]
        ELSE Ordered(Located([t EXCEPT !.s = [Nulled(t.s, open) EXCEPT !.buffer = a]]))

(* Of several attributes of the 3270 kind the last one stays; an order that    *)
(* has none leaves fa as it is.                                               *)
ModifyField(t, fas) ==
    LET b == t.s.buffer
        s == IF fas = <<>> THEN t.s ELSE ctlr_add_fa(t.s, b, Last(fas))
    IN  IF t.s.ea[b].fa = {} THEN Ordered(t) ELSE Ordered(Advanced([t EXCEPT !.s = s]))

EnterCharacter(t, c) ==
    [Advanced([t EXCEPT !.s = ctlr_add(t.s, t.s.buffer, c)])
        EXCEPT !.lastCmd = FALSE, !.lastZpt = FALSE]

GraphicEscape(t, c) == Located(EnterCharacter(t, c))

FormatControl(t, c) == Ordered(EnterCharacter(t, c))

SetAttribute(t) == Ordered(t)

(* SF and SFE are one order here; an SFE without a 3270 attribute has {}.     *)
Order(t, o) ==
    CASE o.op = "SF"   -> START_FIELD(t, o.fa)
      [] o.op = "SBA"  -> SetBufferAddress(t, o.at)
      [] o.op = "IC"   -> InsertCursor(t)
      [] o.op = "PT"   -> ProgramTab(t)
      [] o.op = "RA"   -> RepeatToAddress(t, o.at, o.cc)
      [] o.op = "EUA"  -> EraseUnprotectedToAddress(t, o.at)
      [] o.op = "GE"   -> GraphicEscape(t, o.cc)
      [] o.op = "MF"   -> ModifyField(t, o.fas)
      [] o.op = "SA"   -> SetAttribute(t)
      [] o.op = "FC"   -> FormatControl(t, o.cc)
      [] o.op = "text" -> EnterCharacter(t, o.cc)

Orders(t, seq) == FoldLeft(LAMBDA x, o : IF x.aborted THEN x ELSE Order(x, o), t, seq)

(* A whole write, from the command to its end.                                *)
ctlr_write(s, resetMdt, seq) == set_formatted(Orders(StartWrite(s, resetMdt), seq).s)

-----------------------------------------------------------------------------
(* What the host reads. *)

(* Read Modified: for each modified field its first address and its           *)
(* characters, without the nulls; on a screen with no field, all characters.  *)
Text(ea, S) ==
    LET inOrder == SetToSortSeq(S, <)
    IN  SelectSeq([i \in 1 .. Len(inOrder) |-> ea[inOrder[i]].cc], LAMBDA c : c # "null")

FieldText(s, a) ==
    LET next == FirstFrom(INC_BA(a), Fields(s.ea))
        len  == (next - INC_BA(a)) % N
    IN  SelectSeq([i \in 1 .. len |-> s.ea[Ahead(a, i)].cc], LAMBDA c : c # "null")

ctlr_read_modified(s) ==
    LET sent(out, a) == IF FA_IS_MODIFIED(s.ea[a].fa)
                        THEN Append(out, [at |-> INC_BA(a), text |-> FieldText(s, a)])
                        ELSE out
    IN  IF s.formatted THEN FoldLeft(sent, <<>>, SetToSortSeq(Fields(s.ea), <))
        ELSE << [at |-> 0, text |-> Text(s.ea, Addr)] >>

(* Mutant: nulls are left out, as Read Modified does.                         *)
ctlr_read_bufferPacked(s) ==
    SelectSeq([i \in 1 .. N |->
        LET c == s.ea[i - 1]
        IN  IF c.fa # {} THEN [op |-> "SF", fa |-> c.fa \ {"printable"}]
                         ELSE [op |-> "text", cc |-> c.cc]],
        LAMBDA o : o.op = "SF" \/ o.cc # "null")

(* Read Buffer: an SF for each attribute and every character, nulls too, as   *)
(* the orders that would write them.                                          *)
ctlr_read_buffer(s) ==
    [i \in 1 .. N |->
        LET c == s.ea[i - 1]
        IN  IF c.fa # {} THEN [op |-> "SF", fa |-> c.fa \ {"printable"}]
                         ELSE [op |-> "text", cc |-> c.cc]]
=============================================================================
