--------------------------- MODULE ScreenProofs ---------------------------
(***************************************************************************)
(* What the host's writes leave of a screen, for every size of it, every   *)
(* set of characters and every set of attributes.                          *)
(*                                                                         *)
(* ScreenConsistent is inductive as it stands.  Its two hard parts are     *)
(* that every order leaves a screen, with the buffer address inside of it  *)
(* unless the order aborts the write, and that Erase All Unprotected,      *)
(* which leaves "formatted" alone, erases no attribute: the data of a      *)
(* field end before the next one (DataHasNoField).  Both rest on what the  *)
(* two searches of the buffer find (FirstFound, LastFound), and that rests *)
(* on the least element of a set of numbers (Least), which the library's   *)
(* theorem on well-founded relations gives without an induction.           *)
(*                                                                         *)
(* The second part is about what the user marks of a screen (Selection):   *)
(* the marks of sel are those of a set of cells, outlined, in every state  *)
(* (GoodMarks), and what is dragged keeps its shape, as its cells are      *)
(* moved by one row and one column for all (Shape).                        *)
(*                                                                         *)
(* The third part is about what the window shows of a screen (Window).     *)
(* WindowShows is not inductive: what is pending has to be in view when it *)
(* is painted, so it has to be in the part in use, outside of which all is *)
(* blank, and the cursor has to be home when the model changes, which is   *)
(* so because a session that ends leaves it there (GoodWindow, WindowInv). *)
(***************************************************************************)
EXTENDS Controller, Drawing, FiniteSetTheorems, WellFoundedInduction, TLAPS

(* Screens, attributes as they are kept, and states of a write.                *)
ScreenType == [ea : [Addr -> Cell], cursor : Addr, buffer : 0 .. N, formatted : BOOLEAN]

Fa == SUBSET (Bit \cup {"printable"})

WriteType == [s : ScreenType, lastCmd : BOOLEAN, lastZpt : BOOLEAN, currentFa : Fa, aborted : BOOLEAN]

(* A screen has a position.                                                   *)
LEMMA NIsPositive == N \in Nat \ {0}
<1>1. Rows \in Nat /\ Cols \in Nat /\ Rows >= 1 /\ Cols >= 1
  BY ScreenAssumption
<1> QED BY <1>1 DEF N

(* Every set of natural numbers that is not empty has a least element.        *)
LEMMA Least ==
    ASSUME NEW T, T \subseteq Nat, T # {}
    PROVE  \E n \in T : \A m \in T : n <= m
<1> DEFINE R == OpToRel(<, Nat)
<1>1. IsWellFoundedOn(R, Nat)
  BY NatLessThanWellFounded
<1>2. PICK n \in T : \A m \in T : ~(<<m, n>> \in R)
  BY <1>1, WFMin
<1>3. \A m \in T : ~(m < n)
  BY <1>2 DEF OpToRel
<1> QED BY <1>3

(* Addresses wrap around at most once: the remainder of a sum or a difference *)
(* of two of them takes one comparison.                                       *)
LEMMA Modulo ==
    ASSUME NEW n \in Nat \ {0}, NEW x \in -n .. 2 * n - 1
    PROVE  x % n = IF x < 0 THEN x + n ELSE IF x < n THEN x ELSE x - n
<1>1. CASE x \in -n .. -1
  BY <1>1
<1>2. CASE x \in 0 .. n - 1
  BY <1>2
<1>3. CASE x \in n .. 2 * n - 1
  BY <1>3
<1> QED BY <1>1, <1>2, <1>3

(* A remainder is an address.                                                 *)
LEMMA InRange ==
    ASSUME NEW n \in Nat \ {0}, NEW x \in Int
    PROVE  x % n \in 0 .. n - 1
OBVIOUS

(* Ahead, Behind and INC_BA (3270ds.h:138-142), without the remainder.        *)
LEMMA Around ==
    ASSUME NEW a \in Addr, NEW n \in 0 .. N - 1
    PROVE  /\ Ahead(a, n) = IF a + n < N THEN a + n ELSE a + n - N
           /\ Behind(a, n) = IF n <= a THEN a - n ELSE a - n + N
           /\ INC_BA(a) = IF a = N - 1 THEN 0 ELSE a + 1
<1>1. N \in Nat \ {0}
  BY NIsPositive
<1>2. a \in 0 .. N - 1
  BY DEF Addr
<1>3. ASSUME NEW x \in -N .. 2 * N - 1
      PROVE  x % N = IF x < 0 THEN x + N ELSE IF x < N THEN x ELSE x - N
  BY <1>1, Modulo
<1>4. Ahead(a, n) = IF a + n < N THEN a + n ELSE a + n - N
  <2> DEFINE x == a + n
  <2>1. x \in -N .. 2 * N - 1 /\ x >= 0
    BY <1>1, <1>2
  <2> HIDE DEF x
  <2>2. x % N = IF x < N THEN x ELSE x - N
    BY <1>1, <1>3, <2>1
  <2> QED BY <1>1, <1>2, <2>2 DEF Ahead, x
<1>5. Behind(a, n) = IF n <= a THEN a - n ELSE a - n + N
  <2> DEFINE x == a - n
  <2>1. x \in -N .. 2 * N - 1 /\ x < N /\ (n <= a <=> x >= 0)
    BY <1>1, <1>2
  <2> HIDE DEF x
  <2>2. x % N = IF x < 0 THEN x + N ELSE x
    BY <1>1, <1>3, <2>1
  <2>3. x % N = IF n <= a THEN x ELSE x + N
    BY <1>1, <1>2, <2>1, <2>2
  <2> QED BY <2>3 DEF Behind, x
<1>6. INC_BA(a) = IF a = N - 1 THEN 0 ELSE a + 1
  <2> DEFINE x == a + 1
  <2>1. x \in -N .. 2 * N - 1 /\ x >= 0 /\ x <= N /\ (x = N <=> a = N - 1)
    BY <1>1, <1>2
  <2> HIDE DEF x
  <2>2. x % N = IF x = N THEN 0 ELSE x
    BY <1>1, <1>3, <2>1
  <2> QED BY <2>1, <2>2 DEF INC_BA, x
<1> QED BY <1>4, <1>5, <1>6

(* The search forward ends on the first member: none is passed on the way.    *)
LEMMA FirstFound ==
    ASSUME NEW a \in Addr, NEW S, S \subseteq Addr, S # {}
    PROVE  \E n \in 0 .. N - 1 : /\ FirstFrom(a, S) = Ahead(a, n) /\ Ahead(a, n) \in S
                                 /\ \A m \in 0 .. n - 1 : Ahead(a, m) \notin S
<1> DEFINE T == {n \in 0 .. N - 1 : Ahead(a, n) \in S}
<1>1. N \in Nat \ {0} /\ a \in 0 .. N - 1
  BY NIsPositive DEF Addr
<1>2. PICK b \in S : TRUE
  OBVIOUS
<1>3. b \in 0 .. N - 1
  BY <1>2 DEF Addr
<1>4. T # {}
  <2> DEFINE n == IF a <= b THEN b - a ELSE b - a + N
  <2>1. n \in 0 .. N - 1
    BY <1>1, <1>3
  <2>2. Ahead(a, n) = b
    BY <1>1, <1>3, <2>1, Around
  <2> QED BY <1>2, <2>1, <2>2
<1>5. T \subseteq Nat
  BY <1>1
<1> HIDE DEF T
<1>6. PICK n \in T : \A m \in T : n <= m
  BY <1>4, <1>5, Least
<1>7. n \in 0 .. N - 1 /\ Ahead(a, n) \in S /\ \A m \in 0 .. n - 1 : Ahead(a, m) \notin S
  <2>1. n \in 0 .. N - 1 /\ Ahead(a, n) \in S
    BY <1>6 DEF T
  <2>2. ASSUME NEW m \in 0 .. n - 1, Ahead(a, m) \in S
        PROVE  FALSE
    <3>1. m \in 0 .. N - 1
      BY <1>1, <2>1
    <3>2. m \in T
      BY <2>2, <3>1 DEF T
    <3>3. n <= m
      BY <1>6, <3>2
    <3> QED BY <1>1, <2>1, <3>3
  <2> QED BY <2>1, <2>2
<1> QED BY <1>7 DEF FirstFrom

(* The search backward (ctlr.c:336-341) ends on a member.                     *)
LEMMA LastFound ==
    ASSUME NEW a \in Addr, NEW S, S \subseteq Addr, S # {}
    PROVE  LastUpTo(a, S) \in S
<1> DEFINE T == {n \in 0 .. N - 1 : Behind(a, n) \in S}
<1>1. N \in Nat \ {0} /\ a \in 0 .. N - 1
  BY NIsPositive DEF Addr
<1>2. PICK b \in S : TRUE
  OBVIOUS
<1>3. b \in 0 .. N - 1
  BY <1>2 DEF Addr
<1>4. T # {}
  <2> DEFINE n == IF b <= a THEN a - b ELSE a - b + N
  <2>1. n \in 0 .. N - 1
    BY <1>1, <1>3
  <2>2. Behind(a, n) = b
    BY <1>1, <1>3, <2>1, Around
  <2> QED BY <1>2, <2>1, <2>2
<1>5. T \subseteq Nat
  BY <1>1
<1> HIDE DEF T
<1>6. PICK n \in T : \A m \in T : n <= m
  BY <1>4, <1>5, Least
<1>7. n \in 0 .. N - 1 /\ Behind(a, n) \in S /\ \A m \in 0 .. n - 1 : Behind(a, m) \notin S
  <2>1. n \in 0 .. N - 1 /\ Behind(a, n) \in S
    BY <1>6 DEF T
  <2>2. ASSUME NEW m \in 0 .. n - 1, Behind(a, m) \in S
        PROVE  FALSE
    <3>1. m \in 0 .. N - 1
      BY <1>1, <2>1
    <3>2. m \in T
      BY <2>2, <3>1 DEF T
    <3>3. n <= m
      BY <1>6, <3>2
    <3> QED BY <1>1, <2>1, <3>3
  <2> QED BY <2>1, <2>2
<1> QED BY <1>7 DEF LastUpTo

(* The addresses are those up to N, the one that aborts a write excepted.     *)
LEMMA Addresses ==
    /\ \A a \in Addr : INC_BA(a) \in Addr
    /\ 0 \in Addr /\ Addr \subseteq 0 .. N /\ \A a \in 0 .. N : ~(a >= N) => a \in Addr
    /\ N \notin Addr /\ N - 1 \in Addr
<1>1. N \in Nat \ {0}
  BY NIsPositive
<1>2. \A a \in Addr : INC_BA(a) \in Addr
  <2> TAKE a \in Addr
  <2>1. a + 1 \in Int
    BY <1>1 DEF Addr
  <2> QED BY <1>1, <2>1, InRange DEF INC_BA, Addr
<1> QED BY <1>1, <1>2 DEF Addr

(* The search forward ends on a member.                                       *)
LEMMA FirstFromFound ==
    ASSUME NEW a \in Addr, NEW S, S \subseteq Addr, S # {}
    PROVE  FirstFrom(a, S) \in S
BY FirstFound

(* The "printable" bit keeps an attribute from being empty, so that it stays  *)
(* an attribute when its modified tag goes.                                   *)
LEMMA Attributes ==
    /\ {} \in Fa /\ \A fa \in SUBSET Bit : {"printable"} \cup fa \in Attribute
    /\ \A fa \in Attribute : /\ fa \in Fa /\ fa # {} /\ fa \ {"modify"} # {}
                             /\ fa \ {"modify"} \in Attribute
<1>1. \A fa \in SUBSET Bit : {"printable"} \cup fa \in Attribute
  BY DEF Attribute
<1>2. \A fa \in Attribute : /\ fa \in Fa /\ fa # {} /\ fa \ {"modify"} # {}
                            /\ fa \ {"modify"} \in Attribute
  <2> TAKE fa \in Attribute
  <2>1. PICK b \in SUBSET Bit : fa = {"printable"} \cup b
    BY DEF Attribute
  <2>2. fa \ {"modify"} = {"printable"} \cup (b \ {"modify"})
    BY <2>1
  <2> QED BY <1>1, <2>1, <2>2 DEF Fa
<1> QED BY <1>1, <1>2 DEF Fa

(* What ctlr_add and ctlr_add_fa put in the buffer are cells.                 *)
LEMMA NewCells ==
    /\ \A c \in Char : [cc |-> c, fa |-> {}] \in Cell
    /\ \A fa \in SUBSET Bit : [cc |-> "null", fa |-> {"printable"} \cup fa] \in Cell
<1>1. "null" \in Char
  BY DEF Char
<1> QED BY <1>1, Attributes DEF Cell

(* A cell without its modified tag is one, and keeps its attribute.           *)
LEMMA CellParts ==
    ASSUME NEW cell \in Cell
    PROVE  /\ cell.fa \in Fa
           /\ [cell EXCEPT !.fa = @ \ {"modify"}] \in Cell
           /\ cell.fa # {} => [cell EXCEPT !.fa = @ \ {"modify"}].fa # {}
<1>1. /\ cell.cc \in Char /\ cell.fa \in {{}} \cup Attribute
      /\ [cell EXCEPT !.fa = @ \ {"modify"}] = [cc |-> cell.cc, fa |-> cell.fa \ {"modify"}]
  BY DEF Cell
<1>2. cell.fa \ {"modify"} \in {{}} \cup Attribute
  BY <1>1, Attributes
<1>3. [cc |-> cell.cc, fa |-> cell.fa \ {"modify"}] \in Cell
  BY <1>1, <1>2 DEF Cell
<1> QED BY <1>1, <1>3, Attributes

(* Dropping modified tags, anywhere, drops no attribute.                       *)
LEMMA Untagged ==
    ASSUME NEW ea \in [Addr -> Cell], NEW S
    PROVE  /\ Unmodified(ea, S) \in [Addr -> Cell]
           /\ \A a \in Addr : ea[a].fa # {} => Unmodified(ea, S)[a].fa # {}
<1>1. ASSUME NEW a \in Addr
      PROVE  Unmodified(ea, S)[a] \in Cell /\ (ea[a].fa # {} => Unmodified(ea, S)[a].fa # {})
  <2> DEFINE cell == ea[a]
             less == [cell EXCEPT !.fa = @ \ {"modify"}]
  <2>1. Unmodified(ea, S)[a] = IF a \in S THEN less ELSE cell
    BY <1>1 DEF Unmodified
  <2>2. cell \in Cell
    OBVIOUS
  <2> HIDE DEF cell
  <2>3. less \in Cell /\ (cell.fa # {} => less.fa # {})
    BY <2>2, CellParts
  <2> HIDE DEF less
  <2>4. Unmodified(ea, S)[a] \in Cell /\ (cell.fa # {} => Unmodified(ea, S)[a].fa # {})
    BY <2>1, <2>2, <2>3
  <2> QED BY <2>4 DEF cell
<1>2. Unmodified(ea, S) = [a \in Addr |-> Unmodified(ea, S)[a]]
  BY DEF Unmodified
<1> QED BY <1>1, <1>2

(* Every change of the buffer, and of the addresses, leaves a screen.         *)
LEMMA Changes ==
    ASSUME NEW s \in ScreenType
    PROVE  /\ \A a \in Addr, c \in Char : ctlr_add(s, a, c) \in ScreenType
           /\ \A a \in Addr, fa \in SUBSET Bit : ctlr_add_fa(s, a, fa) \in ScreenType
           /\ \A S : Nulled(s, S) \in ScreenType
           /\ \A a \in Addr : cursor_move(s, a) \in ScreenType
           /\ \A a \in 0 .. N : [s EXCEPT !.buffer = a] \in ScreenType
           /\ [s EXCEPT !.formatted = TRUE] \in ScreenType
           /\ set_formatted(s) \in ScreenType
           /\ ctlr_clear(s) \in ScreenType
<1>1. /\ s.ea \in [Addr -> Cell] /\ s.cursor \in Addr /\ s.buffer \in 0 .. N
      /\ s.formatted \in BOOLEAN
  BY DEF ScreenType
<1>2. ASSUME NEW a \in Addr, NEW c \in Char
      PROVE  ctlr_add(s, a, c) \in ScreenType
  <2>1. [s.ea EXCEPT ![a] = [cc |-> c, fa |-> {}]] \in [Addr -> Cell]
    BY <1>1, NewCells
  <2> QED BY <2>1 DEF ctlr_add, ScreenType
<1>3. ASSUME NEW a \in Addr, NEW fa \in SUBSET Bit
      PROVE  ctlr_add_fa(s, a, fa) \in ScreenType
  <2>1. [s.ea EXCEPT ![a] = [cc |-> "null", fa |-> {"printable"} \cup fa]] \in [Addr -> Cell]
    BY <1>1, NewCells
  <2> QED BY <2>1 DEF ctlr_add_fa, ScreenType
<1>4. ASSUME NEW S
      PROVE  Nulled(s, S) \in ScreenType
  <2>1. [cc |-> "null", fa |-> {}] \in Cell
    BY NewCells DEF Char
  <2>2. [a \in Addr |-> IF a \in S THEN [cc |-> "null", fa |-> {}] ELSE s.ea[a]] \in [Addr -> Cell]
    BY <1>1, <2>1
  <2> QED BY <2>2 DEF Nulled, ScreenType
<1>5. ASSUME NEW a \in Addr
      PROVE  cursor_move(s, a) \in ScreenType
  BY DEF cursor_move, ScreenType
<1>6. ASSUME NEW a \in 0 .. N
      PROVE  [s EXCEPT !.buffer = a] \in ScreenType
  BY DEF ScreenType
<1>7. [s EXCEPT !.formatted = TRUE] \in ScreenType
  BY DEF ScreenType
<1>8. set_formatted(s) \in ScreenType
  BY DEF ScreenType, set_formatted
<1>9. ctlr_clear(s) \in ScreenType
  <2>1. Blanked \in [Addr -> Cell]
    BY NewCells DEF Blanked, Char
  <2> QED BY <2>1, Addresses DEF ScreenType, ctlr_clear
<1> QED BY <1>2, <1>3, <1>4, <1>5, <1>6, <1>7, <1>8, <1>9

(* The attribute in force at a position, or that of an unformatted screen.    *)
LEMMA FieldFound ==
    ASSUME NEW s \in ScreenType, NEW a \in Addr
    PROVE  get_field_attribute(s, a) \in Fa
<1>1. Fields(s.ea) \subseteq Addr /\ s.ea \in [Addr -> Cell]
  BY DEF Fields, ScreenType
<1> DEFINE faddr == find_field_attribute(s, a)
<1>2. faddr = -1 \/ faddr \in Addr
  BY <1>1, LastFound DEF find_field_attribute
<1> HIDE DEF faddr
<1>3. {"printable", "modify"} \in Fa
  BY DEF Fa, Bit
<1>4. CASE faddr = -1
  BY <1>3, <1>4 DEF get_field_attribute, FieldAttribute, faddr
<1>5. CASE faddr \in Addr
  <2>1. s.ea[faddr] \in Cell
    BY <1>1, <1>5
  <2>2. s.ea[faddr].fa \in Fa
    BY <2>1, CellParts
  <2>3. faddr # -1
    BY <1>5, NIsPositive DEF Addr
  <2> QED BY <2>2, <2>3 DEF get_field_attribute, FieldAttribute, faddr
<1> QED BY <1>2, <1>4, <1>5

(* A state that a write can go on from, or is aborted in.                      *)
Usable(v) == v \in WriteType /\ (v.s.buffer = N => v.aborted)

(* What the orders have in common: the flags they set, the attribute in force *)
(* looked up again, the address that moves on.                                *)
LEMMA Steps ==
    ASSUME NEW v \in WriteType
    PROVE  /\ v.s \in ScreenType /\ v.aborted \in BOOLEAN
           /\ Ordered(v) \in WriteType /\ Ordered(v).s = v.s /\ Ordered(v).aborted = v.aborted
           /\ \A s \in ScreenType : [v EXCEPT !.s = s] \in WriteType
           /\ v.s.buffer \in Addr => /\ Located(v) \in WriteType
                                     /\ Located(v).s = v.s /\ Located(v).aborted = v.aborted
                                     /\ Advanced(v) \in WriteType
                                     /\ Advanced(v).s.buffer \in Addr
                                     /\ Advanced(v).aborted = v.aborted
<1>1. v.s \in ScreenType /\ v.aborted \in BOOLEAN
  BY DEF WriteType
<1>2. Ordered(v) \in WriteType /\ Ordered(v).s = v.s /\ Ordered(v).aborted = v.aborted
  BY DEF Ordered, WriteType
<1>3. \A s \in ScreenType : [v EXCEPT !.s = s] \in WriteType
  BY DEF WriteType
<1>4. ASSUME v.s.buffer \in Addr
      PROVE  Located(v) \in WriteType /\ Located(v).s = v.s /\ Located(v).aborted = v.aborted
  <2>1. get_field_attribute(v.s, v.s.buffer) \in Fa
    BY <1>1, <1>4, FieldFound
  <2> QED BY <2>1 DEF Located, WriteType
<1>5. ASSUME v.s.buffer \in Addr
      PROVE  /\ Advanced(v) \in WriteType /\ Advanced(v).s.buffer \in Addr
             /\ Advanced(v).aborted = v.aborted
  <2>1. INC_BA(v.s.buffer) \in Addr /\ INC_BA(v.s.buffer) \in 0 .. N
    BY <1>5, Addresses
  <2>2. [v.s EXCEPT !.buffer = INC_BA(@)] \in ScreenType
    BY <1>1, <2>1 DEF ScreenType
  <2>3. [v.s EXCEPT !.buffer = INC_BA(@)].buffer = INC_BA(v.s.buffer)
    BY <1>1 DEF ScreenType
  <2>4. Advanced(v) = [v EXCEPT !.s = [v.s EXCEPT !.buffer = INC_BA(@)]]
    BY DEF Advanced, WriteType
  <2> QED BY <1>3, <2>1, <2>2, <2>3, <2>4 DEF WriteType
<1> QED BY <1>1, <1>2, <1>3, <1>4, <1>5

(* A write begins at the cursor, which is on the screen (ctlr.c:1182-1220).   *)
LEMMA WriteStarts ==
    ASSUME NEW s \in ScreenType, NEW resetMdt \in BOOLEAN
    PROVE  Usable(StartWrite(s, resetMdt))
<1> DEFINE here == [s EXCEPT !.buffer = s.cursor]
           x == IF resetMdt THEN [here EXCEPT !.ea = Unmodified(@, Addr)] ELSE here
<1>1. s.cursor \in Addr /\ s.cursor \in 0 .. N /\ s.cursor # N
  BY Addresses DEF ScreenType
<1>2. here \in ScreenType /\ here.buffer = s.cursor /\ here.ea \in [Addr -> Cell]
  BY <1>1 DEF ScreenType
<1>3. Unmodified(here.ea, Addr) \in [Addr -> Cell]
  BY <1>2, Untagged
<1> HIDE DEF here
<1>4. x \in ScreenType /\ x.buffer = s.cursor
  BY <1>2, <1>3 DEF ScreenType
<1>5. StartWrite(s, resetMdt) = [s |-> x, lastCmd |-> TRUE, lastZpt |-> FALSE,
                                 currentFa |-> get_field_attribute(x, x.buffer), aborted |-> FALSE]
  BY DEF StartWrite, here
<1> HIDE DEF x
<1>6. get_field_attribute(x, x.buffer) \in Fa
  BY <1>1, <1>4, FieldFound
<1> QED BY <1>1, <1>4, <1>5, <1>6 DEF Usable, WriteType

(* next_unprotected (ctlr.c:435-450) returns an address.                      *)
LEMMA NextFound ==
    ASSUME NEW s \in ScreenType, NEW a \in Addr
    PROVE  next_unprotected(s, a) \in Addr
<1>1. Unprotected(s.ea) \subseteq Addr
  BY DEF Unprotected, Fields
<1>2. CASE Unprotected(s.ea) = {}
  BY <1>2, Addresses DEF next_unprotected
<1>3. CASE Unprotected(s.ea) # {}
  <2>1. FirstFrom(a, Unprotected(s.ea)) \in Addr
    BY <1>1, <1>3, FirstFromFound
  <2> QED BY <1>3, <2>1, Addresses DEF next_unprotected
<1> QED BY <1>2, <1>3

(* Text, a format control order and Graphic Escape.                           *)
LEMMA CharacterTyped ==
    ASSUME NEW v \in WriteType, v.s.buffer \in Addr, NEW c \in Char
    PROVE  /\ Usable(EnterCharacter(v, c)) /\ EnterCharacter(v, c).s.buffer \in Addr
           /\ Usable(FormatControl(v, c)) /\ Usable(GraphicEscape(v, c))
<1> DEFINE added == [v EXCEPT !.s = ctlr_add(v.s, v.s.buffer, c)]
           e == EnterCharacter(v, c)
<1>1. v.s \in ScreenType
  BY Steps
<1>2. ctlr_add(v.s, v.s.buffer, c) \in ScreenType /\ ctlr_add(v.s, v.s.buffer, c).buffer = v.s.buffer
  BY <1>1, Changes DEF ctlr_add, ScreenType
<1>3. added \in WriteType /\ added.s.buffer \in Addr
  BY <1>2, Steps DEF WriteType
<1>4. Advanced(added) \in WriteType /\ Advanced(added).s.buffer \in Addr
  BY <1>3, Steps
<1>5. e = [Advanced(added) EXCEPT !.lastCmd = FALSE, !.lastZpt = FALSE]
  BY DEF EnterCharacter
<1> HIDE DEF added, e
<1>6. e \in WriteType /\ e.s.buffer \in Addr
  BY <1>4, <1>5 DEF WriteType
<1>7. /\ Ordered(e) \in WriteType /\ Ordered(e).s = e.s
      /\ Located(e) \in WriteType /\ Located(e).s = e.s
  BY <1>6, Steps
<1> QED BY <1>6, <1>7, Addresses DEF Usable, FormatControl, GraphicEscape, e

(* Start Field and Modify Field.                                              *)
LEMMA AttributeTyped ==
    ASSUME NEW v \in WriteType, v.s.buffer \in Addr, NEW fa \in SUBSET Bit
    PROVE  Usable(START_FIELD(v, fa)) /\ Usable(ModifyField(v, <<>>)) /\ Usable(ModifyField(v, <<fa>>))
<1> DEFINE x == ctlr_add_fa(v.s, v.s.buffer, fa)
           y == [x EXCEPT !.formatted = TRUE]
           started == [v EXCEPT !.s = y, !.currentFa = fa]
           changed == [v EXCEPT !.s = x]
<1>1. v.s \in ScreenType
  BY Steps
<1>2. x \in ScreenType /\ x.buffer = v.s.buffer
  BY <1>1, Changes DEF ctlr_add_fa, ScreenType
<1> HIDE DEF x
<1>3. y \in ScreenType /\ y.buffer = v.s.buffer
  BY <1>2 DEF ScreenType
<1> HIDE DEF y
<1>4. started \in WriteType /\ started.s.buffer \in Addr
  BY <1>3 DEF WriteType, Fa
<1>5. changed \in WriteType /\ changed.s.buffer \in Addr
  BY <1>2 DEF WriteType
<1>6. v = [v EXCEPT !.s = v.s]
  BY DEF WriteType
<1>7. ASSUME NEW z \in WriteType, z.s.buffer \in Addr
      PROVE  Usable(Ordered(z)) /\ Usable(Ordered(Advanced(z)))
  <2>1. Ordered(z) \in WriteType /\ Ordered(z).s = z.s
    BY Steps
  <2>2. Advanced(z) \in WriteType /\ Advanced(z).s.buffer \in Addr
    BY <1>7, Steps
  <2>3. Ordered(Advanced(z)) \in WriteType /\ Ordered(Advanced(z)).s = Advanced(z).s
    BY <2>2, Steps
  <2> QED BY <1>7, <2>1, <2>2, <2>3, Addresses DEF Usable
<1>8. START_FIELD(v, fa) = Ordered(Advanced(started))
  BY DEF START_FIELD, x, y
<1>9. ModifyField(v, <<>>) = IF v.s.ea[v.s.buffer].fa = {} THEN Ordered(v) ELSE Ordered(Advanced(v))
  BY <1>6 DEF ModifyField
<1>10. ModifyField(v, <<fa>>) = IF v.s.ea[v.s.buffer].fa = {} THEN Ordered(v) ELSE Ordered(Advanced(changed))
  BY DEF ModifyField, Last, x
<1> HIDE DEF started, changed
<1>11. Usable(START_FIELD(v, fa))
  BY <1>4, <1>7, <1>8
<1>12. Usable(ModifyField(v, <<>>))
  BY <1>7, <1>9
<1>13. Usable(ModifyField(v, <<fa>>))
  BY <1>5, <1>7, <1>10
<1> QED BY <1>11, <1>12, <1>13

(* The orders that take an address: one outside of the screen aborts the      *)
(* write, whether it has reached the buffer address, as Set Buffer Address    *)
(* has it, or not.                                                            *)
LEMMA AddressTyped ==
    ASSUME NEW v \in WriteType, v.s.buffer \in Addr, NEW a \in 0 .. N, NEW c \in Char
    PROVE  /\ Usable(SetBufferAddress(v, a)) /\ Usable(RepeatToAddress(v, a, c))
           /\ Usable(EraseUnprotectedToAddress(v, a))
<1>1. v.s \in ScreenType /\ Addr \subseteq 0 .. N /\ (~(a >= N) => a \in Addr) /\ N \notin Addr
  BY Steps, Addresses
<1>2. ASSUME NEW s \in ScreenType, s.buffer = a, ~(a >= N)
      PROVE  Usable(Ordered(Located([v EXCEPT !.s = s])))
  <2> DEFINE z == [v EXCEPT !.s = s]
  <2>1. z \in WriteType /\ z.s.buffer \in Addr
    BY <1>1, <1>2 DEF WriteType
  <2> HIDE DEF z
  <2>2. Located(z) \in WriteType /\ Located(z).s = z.s
    BY <2>1, Steps
  <2>3. Ordered(Located(z)) \in WriteType /\ Ordered(Located(z)).s = z.s
    BY <2>2, Steps
  <2>4. Usable(Ordered(Located(z)))
    BY <1>1, <2>1, <2>3 DEF Usable
  <2> QED BY <2>4 DEF z
<1>3. Usable([v EXCEPT !.aborted = TRUE])
  BY DEF Usable, WriteType
<1>4. Usable(SetBufferAddress(v, a))
  <2> DEFINE moved == [v EXCEPT !.s.buffer = a]
             s == [v.s EXCEPT !.buffer = a]
  <2>1. s \in ScreenType /\ s.buffer = a
    BY <1>1 DEF ScreenType
  <2>2. moved = [v EXCEPT !.s = s]
    BY DEF WriteType
  <2>3. SetBufferAddress(v, a) = IF a >= N THEN [moved EXCEPT !.aborted = TRUE] ELSE Ordered(Located(moved))
    BY DEF SetBufferAddress
  <2> HIDE DEF s, moved
  <2>4. Usable([moved EXCEPT !.aborted = TRUE])
    BY <2>1, <2>2 DEF Usable, WriteType
  <2> QED BY <1>2, <2>1, <2>2, <2>3, <2>4
<1>5. Usable(RepeatToAddress(v, a, c))
  <2> DEFINE S == Span(v.s.buffer, a)
             ea == [x \in Addr |-> IF x \in S THEN [cc |-> c, fa |-> {}] ELSE v.s.ea[x]]
             filled == [v.s EXCEPT !.buffer = a, !.ea = ea]
  <2>1. ea \in [Addr -> Cell]
    <3> HIDE DEF S
    <3>1. v.s.ea \in [Addr -> Cell] /\ [cc |-> c, fa |-> {}] \in Cell
      BY <1>1, NewCells DEF ScreenType
    <3> QED BY <3>1
  <2>2. RepeatToAddress(v, a, c) =
          IF a >= N THEN [v EXCEPT !.aborted = TRUE] ELSE Ordered(Located([v EXCEPT !.s = filled]))
    BY DEF RepeatToAddress
  <2> HIDE DEF ea
  <2>3. filled \in ScreenType /\ filled.buffer = a
    BY <1>1, <2>1 DEF ScreenType
  <2> HIDE DEF filled
  <2> QED BY <1>2, <1>3, <2>2, <2>3
<1>6. Usable(EraseUnprotectedToAddress(v, a))
  <2>1. PICK S : EraseUnprotectedToAddress(v, a) =
          IF a >= N THEN [v EXCEPT !.aborted = TRUE]
          ELSE Ordered(Located([v EXCEPT !.s = [Nulled(v.s, S) EXCEPT !.buffer = a]]))
    BY DEF EraseUnprotectedToAddress
  <2>2. Nulled(v.s, S) \in ScreenType
    BY <1>1, Changes
  <2>3. [Nulled(v.s, S) EXCEPT !.buffer = a] \in ScreenType /\ [Nulled(v.s, S) EXCEPT !.buffer = a].buffer = a
    BY <2>2 DEF ScreenType
  <2> QED BY <1>2, <1>3, <2>1, <2>3
<1> QED BY <1>4, <1>5, <1>6

(* Program Tab (ctlr.c:1269-1316), with what it nulls and without.            *)
LEMMA TabTyped ==
    ASSUME NEW v \in WriteType, v.s.buffer \in Addr
    PROVE  Usable(ProgramTab(v))
<1> DEFINE next == next_unprotected(v.s, v.s.buffer)
           to == IF next < v.s.buffer THEN 0 ELSE next
<1>1. v.s \in ScreenType /\ to \in Addr /\ to \in 0 .. N /\ to # N
  <2>1. v.s \in ScreenType
    BY Steps
  <2>2. next \in Addr
    BY <2>1, NextFound
  <2> HIDE DEF next
  <2> QED BY <2>1, <2>2, Addresses
<1>2. PICK S, nulling, zpt :
        /\ nulling \in BOOLEAN /\ zpt \in BOOLEAN
        /\ ProgramTab(v) =
             IF v.s.ea[v.s.buffer].fa # {} /\ ~FA_IS_PROTECTED(v.s.ea[v.s.buffer].fa)
             THEN Ordered(Advanced(v))
             ELSE [v EXCEPT !.s = [(IF nulling THEN Nulled(v.s, S) ELSE v.s) EXCEPT !.buffer = to],
                            !.lastCmd = TRUE, !.lastZpt = zpt]
  <2> DEFINE n == ~v.lastCmd \/ v.lastZpt
             end == FirstFrom(v.s.buffer, Fields(v.s.ea) \cup {to})
             nul == n /\ end # v.s.buffer
             z == n /\ (to = 0 \/ v.lastZpt)
             S == Span(v.s.buffer, end)
  <2>1. ProgramTab(v) =
             IF v.s.ea[v.s.buffer].fa # {} /\ ~FA_IS_PROTECTED(v.s.ea[v.s.buffer].fa)
             THEN Ordered(Advanced(v))
             ELSE [v EXCEPT !.s = [(IF nul THEN Nulled(v.s, S) ELSE v.s) EXCEPT !.buffer = to],
                            !.lastCmd = TRUE, !.lastZpt = z]
    BY DEF ProgramTab, WriteType
  <2>2. nul \in BOOLEAN /\ z \in BOOLEAN
    BY DEF WriteType
  <2> HIDE DEF nul, z, S, to
  <2> QED BY <2>1, <2>2
<1> HIDE DEF to
<1>3. Usable(Ordered(Advanced(v)))
  <2>1. Advanced(v) \in WriteType /\ Advanced(v).s.buffer \in Addr
    BY Steps
  <2>2. Ordered(Advanced(v)) \in WriteType /\ Ordered(Advanced(v)).s = Advanced(v).s
    BY <2>1, Steps
  <2> QED BY <2>1, <2>2, Addresses DEF Usable
<1> DEFINE x == IF nulling THEN Nulled(v.s, S) ELSE v.s
           y == [x EXCEPT !.buffer = to]
<1>4. x \in ScreenType
  BY <1>1, Changes
<1> HIDE DEF x
<1>5. y \in ScreenType /\ y.buffer # N
  BY <1>1, <1>4 DEF ScreenType
<1> HIDE DEF y
<1>6. Usable([v EXCEPT !.s = y, !.lastCmd = TRUE, !.lastZpt = zpt])
  BY <1>2, <1>5 DEF Usable, WriteType
<1> QED BY <1>2, <1>3, <1>6 DEF x, y

(* The positions up to the first member are not members: the data of a field  *)
(* end before the next attribute.                                             *)
LEMMA DataHasNoField ==
    ASSUME NEW a \in Addr, NEW S, S \subseteq Addr, S # {}, FirstFrom(a, S) # a
    PROVE  Span(a, FirstFrom(a, S)) \cap S = {}
<1>1. PICK n \in 0 .. N - 1 : /\ FirstFrom(a, S) = Ahead(a, n)
                              /\ \A m \in 0 .. n - 1 : Ahead(a, m) \notin S
  BY FirstFound
<1>2. N \in Nat \ {0} /\ a \in 0 .. N - 1
  BY NIsPositive DEF Addr
<1>3. Ahead(a, n) = IF a + n < N THEN a + n ELSE a + n - N
  BY <1>1, Around
<1>4. n # 0
  BY <1>1, <1>2, <1>3
<1> DEFINE x == FirstFrom(a, S) - a - 1
<1>5. x \in -N .. 2 * N - 1 /\ (x = n - 1 \/ x = n - 1 - N)
  BY <1>1, <1>2, <1>3
<1>6. x % N = n - 1
  <2> HIDE DEF x
  <2>1. x % N = IF x < 0 THEN x + N ELSE IF x < N THEN x ELSE x - N
    BY <1>2, <1>5, Modulo
  <2> QED BY <1>1, <1>2, <1>4, <1>5, <2>1
<1>7. Span(a, FirstFrom(a, S)) = {Ahead(a, m) : m \in 0 .. n - 1}
  BY <1>6 DEF Span, x
<1> QED BY <1>1, <1>7

(* Erase All Unprotected (ctlr.c:1078-1110) nulls data and drops modified     *)
(* tags, but no attribute: a formatted screen keeps its fields.               *)
LEMMA ErasedTyped ==
    ASSUME NEW s \in ScreenType, Fields(s.ea) # {}
    PROVE  /\ EraseFields(s) \in ScreenType /\ EraseFields(s).formatted = s.formatted
           /\ EraseFields(s).buffer = s.buffer /\ Fields(EraseFields(s).ea) # {}
<1> DEFINE ofs == {a \in Fields(s.ea) : ~FA_IS_PROTECTED(s.ea[a].fa)}
           data(a) == LET next == FirstFrom(INC_BA(a), Fields(s.ea))
                      IN  IF next = INC_BA(a) THEN {} ELSE Span(INC_BA(a), next)
           D == UNION {data(a) : a \in ofs}
           wiped == Nulled(s, D)
           cursor == IF ofs = {} THEN 0 ELSE INC_BA(FirstFrom(FirstFrom(0, Fields(s.ea)), ofs))
<1>1. Fields(s.ea) \subseteq Addr /\ ofs \subseteq Fields(s.ea)
  BY DEF Fields
<1>2. D \cap Fields(s.ea) = {}
  <2>1. ASSUME NEW a \in ofs
        PROVE  data(a) \cap Fields(s.ea) = {}
    <3>1. INC_BA(a) \in Addr
      BY <1>1, Addresses
    <3> QED BY <1>1, <3>1, DataHasNoField
  <2> QED BY <2>1
<1>3. cursor \in Addr
  <2>1. FirstFrom(0, Fields(s.ea)) \in Addr
    BY <1>1, Addresses, FirstFromFound
  <2>2. ASSUME ofs # {}
        PROVE  INC_BA(FirstFrom(FirstFrom(0, Fields(s.ea)), ofs)) \in Addr
    <3>1. FirstFrom(FirstFrom(0, Fields(s.ea)), ofs) \in Addr
      <4> HIDE DEF ofs
      <4> QED BY <1>1, <2>1, <2>2, FirstFromFound
    <3> QED BY <3>1, Addresses
  <2> QED BY <2>2, Addresses
<1>4. EraseFields(s) = [wiped EXCEPT !.ea = Unmodified(wiped.ea, ofs), !.cursor = cursor]
  BY DEF EraseFields
<1> HIDE DEF D, ofs, cursor
<1>5. wiped \in ScreenType /\ wiped.formatted = s.formatted /\ wiped.buffer = s.buffer
  <2>1. wiped \in ScreenType
    BY Changes
  <2>2. wiped.formatted = s.formatted /\ wiped.buffer = s.buffer
    BY DEF Nulled, ScreenType
  <2> QED BY <2>1, <2>2
<1>6. \A a \in Fields(s.ea) : wiped.ea[a].fa # {}
  <2>1. wiped.ea = [a \in Addr |-> IF a \in D THEN [cc |-> "null", fa |-> {}] ELSE s.ea[a]]
    BY DEF Nulled, ScreenType
  <2> HIDE DEF wiped
  <2> TAKE a \in Fields(s.ea)
  <2>2. a \in Addr /\ a \notin D /\ s.ea[a].fa # {}
    BY <1>1, <1>2 DEF Fields
  <2>3. wiped.ea[a] = s.ea[a]
    BY <2>1, <2>2
  <2> QED BY <2>2, <2>3
<1> HIDE DEF wiped
<1>7. wiped.ea \in [Addr -> Cell]
  BY <1>5 DEF ScreenType
<1>8. Unmodified(wiped.ea, ofs) \in [Addr -> Cell]
  BY <1>7, Untagged
<1>9. \A a \in Fields(s.ea) : Unmodified(wiped.ea, ofs)[a].fa # {}
  BY <1>1, <1>6, <1>7, Untagged
<1> DEFINE ea == Unmodified(wiped.ea, ofs)
<1> HIDE DEF ea
<1>10. /\ EraseFields(s) \in ScreenType /\ EraseFields(s).formatted = s.formatted
       /\ EraseFields(s).buffer = s.buffer /\ EraseFields(s).ea = ea
  BY <1>3, <1>4, <1>5, <1>8 DEF ScreenType, ea
<1>11. Fields(ea) # {}
  BY <1>1, <1>9 DEF Fields, ea
<1> QED BY <1>10, <1>11

(* The end of a command puts the state of a write away.                       *)
LEMMA ClosedTyped ==
    ASSUME NEW s \in ScreenType
    PROVE  Closed(s) \in WriteType /\ Closed(s).s = s
BY Attributes DEF Closed, WriteType

(* A cleared screen has no field, and says so.                                *)
LEMMA Cleared ==
    ASSUME NEW s
    PROVE  /\ ctlr_clear(s) \in ScreenType /\ ctlr_clear(s).formatted = FALSE
           /\ Fields(ctlr_clear(s).ea) = {}
<1>1. Blanked \in [Addr -> Cell] /\ \A a \in Addr : Blanked[a].fa = {}
  BY NewCells DEF Blanked, Char
<1> QED BY <1>1, Addresses DEF ScreenType, ctlr_clear, Fields

(* What an order leaves of the write that is under way.                        *)
WrittenTo(o) == Usable(Order(t, o))

(* Every order of a host, in every state of a write that is not aborted.      *)
LEMMA Kinds ==
    ASSUME t \in WriteType, t.s.buffer \in Addr
    PROVE  /\ \A fa \in FieldKinds : WrittenTo([op |-> "SF", fa |-> fa])
           /\ \A a \in 0 .. N : WrittenTo([op |-> "SBA", at |-> a])
           /\ WrittenTo([op |-> "IC"]) /\ WrittenTo([op |-> "PT"]) /\ WrittenTo([op |-> "SA"])
           /\ \A a \in 0 .. N, c \in Chars : WrittenTo([op |-> "RA", at |-> a, cc |-> c])
           /\ \A a \in 0 .. N : WrittenTo([op |-> "EUA", at |-> a])
           /\ \A c \in Graphic : WrittenTo([op |-> "GE", cc |-> c])
           /\ \A fas \in {<<>>} \cup {<<fa>> : fa \in FieldKinds} :
                  WrittenTo([op |-> "MF", fas |-> fas])
           /\ WrittenTo([op |-> "FC", cc |-> "dup"])
           /\ \A c \in Chars : WrittenTo([op |-> "text", cc |-> c])
<1>1. FieldKinds \subseteq SUBSET Bit /\ Chars \subseteq Char /\ Graphic \subseteq Char /\ "dup" \in Char
  BY ControllerAssumption DEF Chars, Char
<1>2. Ordered(t) \in WriteType /\ Ordered(t).s = t.s /\ t.s \in ScreenType
  BY Steps
<1>3. ASSUME NEW fa \in FieldKinds
      PROVE  WrittenTo([op |-> "SF", fa |-> fa])
  <2>1. Usable(START_FIELD(t, fa))
    BY <1>1, AttributeTyped
  <2> QED BY <2>1 DEF Order, WrittenTo
<1>4. ASSUME NEW a \in 0 .. N
      PROVE  WrittenTo([op |-> "SBA", at |-> a]) /\ WrittenTo([op |-> "EUA", at |-> a])
  <2>1. Usable(SetBufferAddress(t, a)) /\ Usable(EraseUnprotectedToAddress(t, a))
    BY <1>1, AddressTyped
  <2>2. WrittenTo([op |-> "SBA", at |-> a])
    BY <2>1 DEF Order, WrittenTo
  <2>3. WrittenTo([op |-> "EUA", at |-> a])
    BY <2>1 DEF Order, WrittenTo
  <2> QED BY <2>2, <2>3
<1>5. WrittenTo([op |-> "IC"])
  <2> DEFINE s == cursor_move(t.s, t.s.buffer)
             z == [t EXCEPT !.s = s]
  <2>1. s \in ScreenType /\ s.buffer = t.s.buffer
    BY <1>2, Changes DEF cursor_move, ScreenType
  <2> HIDE DEF s
  <2>2. z \in WriteType /\ z.s.buffer \in Addr
    BY <2>1 DEF WriteType
  <2> HIDE DEF z
  <2>3. Ordered(z) \in WriteType /\ Ordered(z).s = z.s
    BY <2>2, Steps
  <2>4. Usable(Ordered(z))
    BY <2>2, <2>3, Addresses DEF Usable
  <2>5. Usable(InsertCursor(t))
    BY <2>4 DEF InsertCursor, s, z
  <2> QED BY <2>5 DEF Order, WrittenTo
<1>6. WrittenTo([op |-> "PT"])
  <2>1. Usable(ProgramTab(t))
    BY TabTyped
  <2> QED BY <2>1 DEF Order, WrittenTo
<1>7. WrittenTo([op |-> "SA"])
  <2>1. Usable(SetAttribute(t))
    BY <1>2, Addresses DEF Usable, SetAttribute
  <2> QED BY <2>1 DEF Order, WrittenTo
<1>8. ASSUME NEW a \in 0 .. N, NEW c \in Chars
      PROVE  WrittenTo([op |-> "RA", at |-> a, cc |-> c])
  <2>1. Usable(RepeatToAddress(t, a, c))
    BY <1>1, AddressTyped
  <2> QED BY <2>1 DEF Order, WrittenTo
<1>9. ASSUME NEW c \in Char
      PROVE  /\ WrittenTo([op |-> "GE", cc |-> c]) /\ WrittenTo([op |-> "FC", cc |-> c])
             /\ WrittenTo([op |-> "text", cc |-> c])
  <2>1. Usable(GraphicEscape(t, c)) /\ Usable(FormatControl(t, c)) /\ Usable(EnterCharacter(t, c))
    BY CharacterTyped
  <2>2. WrittenTo([op |-> "GE", cc |-> c])
    BY <2>1 DEF Order, WrittenTo
  <2>3. WrittenTo([op |-> "FC", cc |-> c])
    BY <2>1 DEF Order, WrittenTo
  <2>4. WrittenTo([op |-> "text", cc |-> c])
    BY <2>1 DEF Order, WrittenTo
  <2> QED BY <2>2, <2>3, <2>4
<1>10. WrittenTo([op |-> "MF", fas |-> <<>>])
  <2>1. Usable(ModifyField(t, <<>>))
    BY AttributeTyped DEF Bit
  <2> QED BY <2>1 DEF Order, WrittenTo
<1>11. ASSUME NEW fa \in FieldKinds
       PROVE  WrittenTo([op |-> "MF", fas |-> <<fa>>])
  <2>1. Usable(ModifyField(t, <<fa>>))
    BY <1>1, AttributeTyped
  <2> QED BY <2>1 DEF Order, WrittenTo
<1> QED BY <1>1, <1>3, <1>4, <1>5, <1>6, <1>7, <1>8, <1>9, <1>10, <1>11

(* Outside of a write "formatted" says whether the screen has a field, which   *)
(* the loops over fields in ctlr.c and kybd.c need to end; and at any time    *)
(* both addresses are on the screen, the buffer address but in a write that   *)
(* an order has aborted: whatever the host sends.                             *)
THEOREM ScreenStaysConsistent == Spec => []ScreenConsistent
<1>1. TypeOK <=> writing \in BOOLEAN /\ t \in WriteType /\ (t.s.buffer = N => t.aborted \/ ~writing)
  BY DEF TypeOK, WriteType, ScreenType, Fa
<1>2. Init => ScreenConsistent
  <2>1. ctlr_clear([ea |-> Blanked]) \in ScreenType
    BY Cleared
  <2> QED BY <1>1, <2>1, Cleared, ClosedTyped DEF Init, ScreenConsistent, FormattedAgrees
<1>3. ScreenConsistent /\ [Next]_vars => ScreenConsistent'
  <2> SUFFICES ASSUME ScreenConsistent, [Next]_vars
               PROVE  ScreenConsistent'
    OBVIOUS
  <2>1. /\ writing \in BOOLEAN /\ t \in WriteType /\ t.s \in ScreenType
        /\ t.s.buffer = N => t.aborted \/ ~writing
        /\ ~writing => (t.s.formatted <=> Fields(t.s.ea) # {})
    BY <1>1, Steps DEF ScreenConsistent, FormattedAgrees
  <2>2. ASSUME NEW s \in ScreenType, t' = Closed(s), writing' = FALSE,
               s.formatted <=> Fields(s.ea) # {}
        PROVE  ScreenConsistent'
    <3>1. t' \in WriteType /\ t'.s = s
      BY <2>2, ClosedTyped
    <3>2. TypeOK'
      BY <2>2, <3>1 DEF TypeOK, WriteType, ScreenType, Fa
    <3> QED BY <2>2, <3>1, <3>2 DEF ScreenConsistent, FormattedAgrees
  <2>3. ASSUME Usable(t'), writing' = TRUE
        PROVE  ScreenConsistent'
    <3>1. TypeOK'
      BY <2>3 DEF TypeOK, Usable, WriteType, ScreenType, Fa
    <3> QED BY <2>3, <3>1 DEF ScreenConsistent, FormattedAgrees
  <2>4. CASE ctlr_erase
    BY <2>1, <2>2, <2>4, Cleared DEF ctlr_erase
  <2>5. CASE ctlr_erase_all_unprotected
    <3>1. CASE t.s.formatted
      <4>1. Fields(t.s.ea) # {} /\ t' = Closed(EraseFields(t.s)) /\ writing' = FALSE
        BY <2>1, <2>5, <3>1 DEF ctlr_erase_all_unprotected
      <4>2. /\ EraseFields(t.s) \in ScreenType /\ EraseFields(t.s).formatted = t.s.formatted
            /\ Fields(EraseFields(t.s).ea) # {}
        BY <2>1, <4>1, ErasedTyped
      <4> QED BY <2>2, <3>1, <4>1, <4>2
    <3>2. CASE ~t.s.formatted
      <4>1. t' = Closed(ctlr_clear(t.s)) /\ writing' = FALSE
        BY <2>1, <2>5, <3>2 DEF ctlr_erase_all_unprotected
      <4> QED BY <2>2, <4>1, Cleared
    <3> QED BY <3>1, <3>2
  <2>6. CASE WriteBegins
    BY <2>1, <2>3, <2>6, WriteStarts DEF WriteBegins
  <2>7. CASE WriteEnds
    <3>1. set_formatted(t.s) \in ScreenType
      BY <2>1, Changes
    <3>2. set_formatted(t.s).formatted <=> Fields(set_formatted(t.s).ea) # {}
      BY <2>1 DEF set_formatted, ScreenType
    <3> QED BY <2>1, <2>2, <2>7, <3>1, <3>2 DEF WriteEnds
  <2>8. ASSUME NEW o, Written(o), t.s.buffer \in Addr => WrittenTo(o)
        PROVE  ScreenConsistent'
    <3>1. writing = TRUE /\ writing' = writing /\ ~t.aborted /\ t' = Order(t, o)
      BY <2>1, <2>8 DEF Written
    <3>2. t.s.buffer \in Addr
      <4>1. t.s.buffer \in 0 .. N /\ t.s.buffer # N
        BY <2>1, <3>1 DEF ScreenType
      <4>2. N \in Nat
        BY NIsPositive
      <4> QED BY <4>1, <4>2 DEF Addr
    <3>3. Usable(t')
      BY <2>8, <3>1, <3>2 DEF WrittenTo
    <3> QED BY <2>3, <3>1, <3>3
  <2>9. CASE StartField
    BY <2>1, <2>8, <2>9, Kinds DEF StartField
  <2>10. CASE SetAddress
    BY <2>1, <2>8, <2>10, Kinds DEF SetAddress
  <2>11. CASE SetCursor
    BY <2>1, <2>8, <2>11, Kinds DEF SetCursor
  <2>12. CASE Tab
    BY <2>1, <2>8, <2>12, Kinds DEF Tab
  <2>13. CASE Repeat
    BY <2>1, <2>8, <2>13, Kinds DEF Repeat
  <2>14. CASE Erase
    BY <2>1, <2>8, <2>14, Kinds DEF Erase
  <2>15. CASE Escape
    BY <2>1, <2>8, <2>15, Kinds DEF Escape
  <2>16. CASE Modify
    BY <2>1, <2>8, <2>16, Kinds DEF Modify
  <2>17. CASE SetCharacter
    BY <2>1, <2>8, <2>17, Kinds DEF SetCharacter
  <2>18. CASE Control
    BY <2>1, <2>8, <2>18, Kinds DEF Control
  <2>19. CASE Enter
    BY <2>1, <2>8, <2>19, Kinds DEF Enter
  <2>20. CASE UNCHANGED vars
    BY <2>20 DEF vars, ScreenConsistent, FormattedAgrees, TypeOK
  <2> QED
    BY <2>4, <2>5, <2>6, <2>7, <2>9, <2>10, <2>11, <2>12, <2>13, <2>14, <2>15, <2>16, <2>17,
       <2>18, <2>19, <2>20 DEF Next
<1> QED BY <1>2, <1>3, PTL DEF Spec

-----------------------------------------------------------------------------
(* The selection. *)

(* Rows and columns. *)

(* Division with a remainder, and that there is one way of it.                *)
LEMMA Division ==
    ASSUME NEW n \in Nat \ {0}, NEW a \in Nat
    PROVE  /\ a \div n \in Nat /\ a - (a \div n) * n \in 0 .. n - 1
           /\ \A q \in Nat, r \in 0 .. n - 1 : a = q * n + r => a \div n = q
  <1>1. a \div n \in Int /\ a % n \in 0 .. n - 1 /\ a = n * (a \div n) + (a % n)
    OBVIOUS
  <1> DEFINE q0 == a \div n
             r0 == a % n
  <1>2. q0 \in Int /\ r0 \in 0 .. n - 1 /\ a = n * q0 + r0
    BY <1>1
  <1> HIDE DEF q0, r0
  <1>3. q0 >= 0
    <2>1. SUFFICES ASSUME q0 <= -1 PROVE FALSE
      BY <1>2
    <2>2. n * q0 <= -n
      BY <1>2, <2>1
    <2> QED BY <1>2, <2>2
  <1>4. a - q0 * n = r0
    BY <1>2
  <1>5. ASSUME NEW q \in Nat, NEW r \in 0 .. n - 1, a = q * n + r PROVE q0 = q
    <2>1. n * (q0 - q) = r - r0
      BY <1>2, <1>5
    <2>2. CASE q0 - q >= 1
      <3>1. n * (q0 - q) >= n
        BY <1>2, <2>2
      <3> QED BY <1>2, <2>1, <3>1
    <2>3. CASE q0 - q <= -1
      <3>1. n * (q0 - q) <= -n
        BY <1>2, <2>3
      <3> QED BY <1>2, <2>1, <3>1
    <2> QED BY <1>2, <2>2, <2>3
  <1> QED BY <1>2, <1>3, <1>4, <1>5 DEF q0

(* A cell has a row and a column.                                             *)
LEMMA CellAt ==
    ASSUME SelectionAssumption
    PROVE  /\ Selected!N \in Nat
           /\ \A a \in Selected!Addr :
                 /\ a \in Nat /\ a < Selected!N
                 /\ Selected!Row(a) \in 0 .. High - 1 /\ Selected!Col(a) \in 0 .. Wide - 1
                 /\ a = Selected!Row(a) * Wide + Selected!Col(a)
           /\ \A r \in 0 .. High - 1, c \in 0 .. Wide - 1 :
                 /\ r * Wide + c \in Selected!Addr
                 /\ Selected!Row(r * Wide + c) = r /\ Selected!Col(r * Wide + c) = c
  <1>1. Selected!N \in Nat /\ High \in Nat /\ Wide \in Nat \ {0} /\ Selected!N = High * Wide
    BY DEF SelectionAssumption, Selected!N
  <1>2. ASSUME NEW a \in Selected!Addr
        PROVE  /\ a \in Nat /\ a < Selected!N
               /\ Selected!Row(a) \in 0 .. High - 1 /\ Selected!Col(a) \in 0 .. Wide - 1
               /\ a = Selected!Row(a) * Wide + Selected!Col(a)
    <2>1. a \in Nat /\ a < Selected!N
      BY <1>1, <1>2 DEF Selected!Addr
    <2> DEFINE q == a \div Wide
    <2>2. q \in Nat /\ a - q * Wide \in 0 .. Wide - 1
      BY <1>1, <2>1, Division
    <2>3. Selected!Row(a) = q /\ Selected!Col(a) = a - q * Wide
      BY <2>1 DEF Selected!Row, Selected!Col
    <2> HIDE DEF q
    <2>4. q < High
      <3>1. SUFFICES ASSUME q >= High PROVE FALSE
        BY <1>1, <2>2
      <3>2. q * Wide >= High * Wide
        BY <1>1, <2>2, <3>1
      <3>3. q * Wide \in Nat /\ High * Wide \in Nat
        BY <1>1, <2>2
      <3> QED BY <1>1, <2>1, <2>2, <3>2, <3>3
    <2>5. q * Wide \in Nat
      BY <1>1, <2>2
    <2> QED BY <1>1, <2>1, <2>2, <2>3, <2>4, <2>5
  <1>3. ASSUME NEW r \in 0 .. High - 1, NEW c \in 0 .. Wide - 1
        PROVE  /\ r * Wide + c \in Selected!Addr
               /\ Selected!Row(r * Wide + c) = r /\ Selected!Col(r * Wide + c) = c
    <2> DEFINE a == r * Wide + c
    <2>1. r * Wide \in Nat /\ a \in Nat
      BY <1>1
    <2>2. a < Selected!N
      <3>1. (High - 1 - r) * Wide >= 0
        BY <1>1
      <3>2. r * Wide <= High * Wide - Wide
        BY <1>1, <3>1
      <3>3. High * Wide \in Nat
        BY <1>1
      <3> QED BY <1>1, <2>1, <3>2, <3>3
    <2>3. a \div Wide = r
      BY <1>1, <2>1, Division
    <2>4. Selected!Row(a) = r
      BY <2>1, <2>3 DEF Selected!Row
    <2>5. Selected!Col(a) = c
      BY <2>1, <2>4, <1>1 DEF Selected!Col
    <2> QED BY <1>1, <2>1, <2>2, <2>4, <2>5 DEF Selected!Addr
  <1> QED BY <1>1, <1>2, <1>3

-----------------------------------------------------------------------------
(* Marked cells and their border. *)

(* The cells of S are marked, with a border where S ends.                     *)
Bordered(S) ==
    [a \in Selected!Addr |->
        IF a \in S THEN {"selected"} \cup {d \in Selected!Side : Selected!Neighbour(a, d) \notin S}
        ELSE {}]

Outlined(cells) == \E S \in SUBSET Selected!Addr : cells = Bordered(S)

(* What Bordered marks.                                                       *)
LEMMA BorderedMarks ==
    ASSUME NEW S, S \subseteq Selected!Addr
    PROVE  /\ Selected!Marked(Bordered(S)) = S
           /\ Bordered(S) \in [Selected!Addr -> SUBSET ({"selected"} \cup Selected!Side)]
  BY DEF Bordered, Selected!Marked, Selected!Side

(* Where the neighbours of a cell are.                                        *)
LEMMA Neighbours ==
    ASSUME SelectionAssumption, NEW a \in Selected!Addr
    PROVE  LET r == Selected!Row(a)  c == Selected!Col(a)
               up == Selected!Neighbour(a, "top")
               down == Selected!Neighbour(a, "bottom")
               left == Selected!Neighbour(a, "left")
               right == Selected!Neighbour(a, "right")
           IN  /\ up = IF r = 0 THEN -1 ELSE a - Wide
               /\ down = IF r = High - 1 THEN -1 ELSE a + Wide
               /\ left = IF c = 0 THEN -1 ELSE a - 1
               /\ right = IF c = Wide - 1 THEN -1 ELSE a + 1
               /\ -1 \notin Selected!Addr
               /\ r # 0 => up \in Selected!Addr /\ Selected!Row(up) = r - 1 /\ Selected!Col(up) = c
               /\ r # High - 1 => /\ down \in Selected!Addr
                                  /\ Selected!Row(down) = r + 1 /\ Selected!Col(down) = c
               /\ c # 0 => left \in Selected!Addr /\ Selected!Row(left) = r /\ Selected!Col(left) = c - 1
               /\ c # Wide - 1 => /\ right \in Selected!Addr
                                  /\ Selected!Row(right) = r /\ Selected!Col(right) = c + 1
  <1> DEFINE r == Selected!Row(a)
             c == Selected!Col(a)
  <1>1. /\ High \in Nat \ {0} /\ Wide \in Nat \ {0} /\ a \in Nat
        /\ r \in 0 .. High - 1 /\ c \in 0 .. Wide - 1 /\ a = r * Wide + c
    BY CellAt DEF SelectionAssumption
  <1>2. /\ Selected!Neighbour(a, "top") = IF r = 0 THEN -1 ELSE a - Wide
        /\ Selected!Neighbour(a, "bottom") = IF r = High - 1 THEN -1 ELSE a + Wide
        /\ Selected!Neighbour(a, "left") = IF c = 0 THEN -1 ELSE a - 1
        /\ Selected!Neighbour(a, "right") = IF c = Wide - 1 THEN -1 ELSE a + 1
    BY DEF Selected!Neighbour
  <1> HIDE DEF r, c
  <1>3. r # 0 => /\ a - Wide = (r - 1) * Wide + c /\ r - 1 \in 0 .. High - 1
    BY <1>1
  <1>4. r # High - 1 => /\ a + Wide = (r + 1) * Wide + c /\ r + 1 \in 0 .. High - 1
    BY <1>1
  <1>5. c # 0 => /\ a - 1 = r * Wide + (c - 1) /\ c - 1 \in 0 .. Wide - 1
    <2>1. r * Wide \in Int
      BY <1>1
    <2> QED BY <1>1, <2>1
  <1>6. c # Wide - 1 => /\ a + 1 = r * Wide + (c + 1) /\ c + 1 \in 0 .. Wide - 1
    <2>1. r * Wide \in Int
      BY <1>1
    <2> QED BY <1>1, <2>1
  <1>7. -1 \notin Selected!Addr
    BY CellAt DEF Selected!Addr
  <1>8. /\ r # 0 => /\ a - Wide \in Selected!Addr
                    /\ Selected!Row(a - Wide) = r - 1 /\ Selected!Col(a - Wide) = c
        /\ r # High - 1 => /\ a + Wide \in Selected!Addr
                           /\ Selected!Row(a + Wide) = r + 1 /\ Selected!Col(a + Wide) = c
        /\ c # 0 => /\ a - 1 \in Selected!Addr
                    /\ Selected!Row(a - 1) = r /\ Selected!Col(a - 1) = c - 1
        /\ c # Wide - 1 => /\ a + 1 \in Selected!Addr
                           /\ Selected!Row(a + 1) = r /\ Selected!Col(a + 1) = c + 1
    <2>1. ASSUME NEW x, NEW p \in 0 .. High - 1, NEW q \in 0 .. Wide - 1, x = p * Wide + q
          PROVE  x \in Selected!Addr /\ Selected!Row(x) = p /\ Selected!Col(x) = q
      BY <2>1, CellAt
    <2>2. r # 0 => a - Wide \in Selected!Addr /\ Selected!Row(a - Wide) = r - 1 /\ Selected!Col(a - Wide) = c
      BY <1>1, <1>3, <2>1
    <2>3. r # High - 1 => a + Wide \in Selected!Addr /\ Selected!Row(a + Wide) = r + 1 /\ Selected!Col(a + Wide) = c
      BY <1>1, <1>4, <2>1
    <2>4. c # 0 => a - 1 \in Selected!Addr /\ Selected!Row(a - 1) = r /\ Selected!Col(a - 1) = c - 1
      BY <1>1, <1>5, <2>1
    <2>5. c # Wide - 1 => a + 1 \in Selected!Addr /\ Selected!Row(a + 1) = r /\ Selected!Col(a + 1) = c + 1
      BY <1>1, <1>6, <2>1
    <2> QED BY <2>2, <2>3, <2>4, <2>5
  <1> QED BY <1>2, <1>7, <1>8 DEF r, c

(* All cells, or none.                                                        *)
LEMMA WholeOutlined ==
    ASSUME SelectionAssumption
    PROVE  /\ Selected!Plain = Bordered({})
           /\ [a \in Selected!Addr |->
                {"selected"} \cup {d \in Selected!Side : \/ d = "top"    /\ Selected!Row(a) = 0
                                                         \/ d = "bottom" /\ Selected!Row(a) = High - 1
                                                         \/ d = "left"   /\ Selected!Col(a) = 0
                                                         \/ d = "right"  /\ Selected!Col(a) = Wide - 1}]
              = Bordered(Selected!Addr)
  <1>1. Selected!Plain = Bordered({})
    BY DEF Selected!Plain, Bordered
  <1>2. ASSUME NEW a \in Selected!Addr, NEW d \in Selected!Side
        PROVE  (\/ d = "top"    /\ Selected!Row(a) = 0
                \/ d = "bottom" /\ Selected!Row(a) = High - 1
                \/ d = "left"   /\ Selected!Col(a) = 0
                \/ d = "right"  /\ Selected!Col(a) = Wide - 1)
               <=> Selected!Neighbour(a, d) \notin Selected!Addr
    BY Neighbours DEF Selected!Side
  <1> QED BY <1>1, <1>2 DEF Bordered

Rectangle(top, bottom, left, right) ==
    {a \in Selected!Addr : Selected!Row(a) \in top .. bottom /\ Selected!Col(a) \in left .. right}

(* A rectangle of the screen.                                                 *)
LEMMA RectangleOutlined ==
    ASSUME SelectionAssumption, NEW top \in 0 .. High - 1, NEW bottom \in top .. High - 1,
           NEW left \in 0 .. Wide - 1, NEW right \in left .. Wide - 1,
           NEW S, S = Rectangle(top, bottom, left, right)
    PROVE  \A a \in S, d \in Selected!Side :
              (\/ d = "top"    /\ Selected!Row(a) = top
               \/ d = "bottom" /\ Selected!Row(a) = bottom
               \/ d = "left"   /\ Selected!Col(a) = left
               \/ d = "right"  /\ Selected!Col(a) = right)
              <=> Selected!Neighbour(a, d) \notin S
  <1> SUFFICES ASSUME NEW a \in S, NEW d \in Selected!Side
               PROVE  (\/ d = "top"    /\ Selected!Row(a) = top
                       \/ d = "bottom" /\ Selected!Row(a) = bottom
                       \/ d = "left"   /\ Selected!Col(a) = left
                       \/ d = "right"  /\ Selected!Col(a) = right)
                      <=> Selected!Neighbour(a, d) \notin S
    OBVIOUS
  <1>1. /\ a \in Selected!Addr /\ Selected!Row(a) \in top .. bottom /\ Selected!Col(a) \in left .. right
        /\ High \in Nat /\ Wide \in Nat
    BY DEF SelectionAssumption, Rectangle
  <1> DEFINE n == Selected!Neighbour(a, d)
  <1>2. n \in S <=> /\ n \in Selected!Addr /\ Selected!Row(n) \in top .. bottom
                    /\ Selected!Col(n) \in left .. right
    BY DEF Rectangle
  <1>3. CASE d = "top"
    BY <1>1, <1>2, <1>3, Neighbours
  <1>4. CASE d = "bottom"
    BY <1>1, <1>2, <1>4, Neighbours
  <1>5. CASE d = "left"
    BY <1>1, <1>2, <1>5, Neighbours
  <1>6. CASE d = "right"
    <2> DEFINE c == Selected!Col(a)
    <2>1. /\ c = Wide - 1 => n \notin Selected!Addr
          /\ c # Wide - 1 => /\ n \in Selected!Addr
                             /\ Selected!Row(n) = Selected!Row(a) /\ Selected!Col(n) = c + 1
      BY <1>1, <1>6, Neighbours
    <2> QED BY <1>1, <1>2, <1>6, <2>1
  <1> QED BY <1>3, <1>4, <1>5, <1>6 DEF Selected!Side

(* A run of cells.                                                            *)
LEMMA RegionOutlined ==
    ASSUME SelectionAssumption, NEW low \in Selected!Addr, NEW high \in Selected!Addr,
           NEW S, S = low .. high
    PROVE  \A a \in S, d \in Selected!Side :
              (\/ d = "top"    /\ ~(Selected!Row(a) > 0 /\ a - Wide \in S)
               \/ d = "left"   /\ ~(Selected!Col(a) > 0 /\ a - 1 \in S)
               \/ d = "right"  /\ (a + 1 > high \/ Selected!Col(a) = Wide - 1)
               \/ d = "bottom" /\ a + Wide > high)
              <=> Selected!Neighbour(a, d) \notin S
  <1> SUFFICES ASSUME NEW a \in S, NEW d \in Selected!Side
               PROVE  (\/ d = "top"    /\ ~(Selected!Row(a) > 0 /\ a - Wide \in S)
                       \/ d = "left"   /\ ~(Selected!Col(a) > 0 /\ a - 1 \in S)
                       \/ d = "right"  /\ (a + 1 > high \/ Selected!Col(a) = Wide - 1)
                       \/ d = "bottom" /\ a + Wide > high)
                      <=> Selected!Neighbour(a, d) \notin S
    OBVIOUS
  <1>1. /\ low \in Nat /\ high \in Nat /\ high < Selected!N /\ Selected!N \in Nat
        /\ High \in Nat \ {0} /\ Wide \in Nat \ {0}
    BY CellAt DEF SelectionAssumption
  <1>2. a \in Selected!Addr /\ a \in low .. high
    BY <1>1 DEF Selected!Addr
  <1>3. /\ Selected!Row(a) \in 0 .. High - 1 /\ Selected!Col(a) \in 0 .. Wide - 1
        /\ a = Selected!Row(a) * Wide + Selected!Col(a)
    BY <1>2, CellAt
  <1>4. CASE d = "top"
    BY <1>1, <1>2, <1>3, <1>4, Neighbours
  <1>5. CASE d = "left"
    <2> DEFINE c == Selected!Col(a)
               n == Selected!Neighbour(a, "left")
    <2>1. c \in Nat /\ n = IF c = 0 THEN -1 ELSE a - 1
      BY <1>2, <1>3, Neighbours
    <2> HIDE DEF c, n
    <2>2. ~(c > 0 /\ a - 1 \in S) <=> n \notin S
      BY <1>1, <1>2, <2>1
    <2> QED BY <1>5, <2>2 DEF c, n
  <1>6. CASE d = "right"
    BY <1>1, <1>2, <1>3, <1>6, Neighbours
  <1>7. CASE d = "bottom"
    <2>1. Selected!Row(a) = High - 1 => a + Wide >= Selected!N
      <3> DEFINE c == Selected!Col(a)
      <3>1. Selected!Row(a) = High - 1 => a = High * Wide - Wide + c /\ c \in Nat
        BY <1>1, <1>3
      <3> HIDE DEF c
      <3>2. High * Wide \in Nat
        BY <1>1
      <3> QED BY <1>1, <3>1, <3>2 DEF Selected!N
    <2> QED BY <1>1, <1>2, <1>3, <1>7, <2>1, Neighbours
  <1> QED BY <1>4, <1>5, <1>6, <1>7 DEF Selected!Side

-----------------------------------------------------------------------------
(* The state of the mouse. *)

Cells == [Selected!Addr -> SUBSET ({"selected"} \cup Selected!Side)]

Place == Int \X Int

Mouse ==
    [mode : Selected!Mode, start : Place, end : Place, drag : Place, type : Selected!DragType,
     combo : BOOLEAN, down : BOOLEAN, again : BOOLEAN, cells : Cells, rect : BOOLEAN, cursor : Int]

(* With both corners on the screen the marks have their border, and without a *)
(* selection there are none.                                                  *)
GoodMarks(s) ==
    /\ s \in Mouse
    /\ s.mode = "none" => s.cells = Selected!Plain
    /\ Selected!OnScreen(s.start) /\ Selected!OnScreen(s.end) => Outlined(s.cells)

(* What marks and modes leave alone.                                          *)
SameCorners(r, s) ==
    /\ r.start = s.start /\ r.end = s.end /\ r.drag = s.drag /\ r.combo = s.combo
    /\ r.down = s.down /\ r.rect = s.rect

(* A screen without a selection is outlined, and has no marked cell.          *)
LEMMA PlainOutlined ==
    Outlined(Selected!Plain) /\ Selected!Plain \in Cells /\ Selected!Marked(Selected!Plain) = {}
  <1>1. Selected!Plain = Bordered({})
    BY DEF Selected!Plain, Bordered
  <1> QED BY <1>1, BorderedMarks DEF Outlined, Cells

(* SetSelectionMode changes the mode alone.                                   *)
LEMMA ModeSet ==
    ASSUME NEW s \in Mouse, NEW m \in Selected!Mode
    PROVE  LET r == Selected!SetSelectionMode(s, m)
           IN  /\ r \in Mouse /\ SameCorners(r, s) /\ r.cells = s.cells /\ r.mode = m
               /\ r.type = s.type /\ r.cursor = s.cursor
  <1> DEFINE again == CASE m = s.mode -> s.again
                        [] m = "none" -> TRUE
                        [] m \in {"rectangle", "text", "word"} -> FALSE
                        [] OTHER -> s.again
             r == Selected!SetSelectionMode(s, m)
  <1>1. again \in BOOLEAN
    BY DEF Mouse
  <1>2. r = [s EXCEPT !.mode = m, !.again = again]
    BY DEF Selected!SetSelectionMode
  <1> HIDE DEF again, r
  <1>3. /\ r \in Mouse /\ SameCorners(r, s) /\ r.cells = s.cells /\ r.mode = m
        /\ r.type = s.type /\ r.cursor = s.cursor
    BY <1>1, <1>2 DEF Mouse, SameCorners
  <1> QED BY <1>3 DEF r

Marking(s, cells, cursor) == [s EXCEPT !.cells = cells, !.cursor = cursor]

(* New marks, and a new place of the cursor.                                  *)
LEMMA CellsSet ==
    ASSUME NEW s \in Mouse, NEW cells \in Cells, NEW cursor \in Int,
           NEW r, r = Marking(s, cells, cursor)
    PROVE  /\ r \in Mouse /\ SameCorners(r, s) /\ r.cells = cells /\ r.mode = s.mode
           /\ r.type = s.type /\ r.cursor = cursor
  BY DEF Mouse, SameCorners, Marking

(* SetSelection (mouse.c, selectall) marks all cells, outlined, or none.      *)
LEMMA AllSet ==
    ASSUME SelectionAssumption, NEW s \in Mouse, NEW whole \in BOOLEAN
    PROVE  LET r == Selected!SetSelection(s, whole)
           IN  /\ r \in Mouse /\ SameCorners(r, s) /\ r.mode = s.mode /\ r.type = s.type
               /\ r.cursor = s.cursor /\ Outlined(r.cells)
               /\ ~whole => r.cells = Selected!Plain
  <1> DEFINE cells == IF whole THEN Bordered(Selected!Addr) ELSE Selected!Plain
             r == Selected!SetSelection(s, whole)
  <1>1. r = Marking(s, cells, s.cursor)
    <2>1. CASE whole
      BY <2>1, WholeOutlined DEF Selected!SetSelection, Mouse, Marking
    <2>2. CASE ~whole
      BY <2>2 DEF Selected!SetSelection, Selected!Plain, Mouse, Marking
    <2> QED BY <2>1, <2>2
  <1>2. cells \in Cells /\ Outlined(cells)
    BY BorderedMarks, PlainOutlined DEF Outlined, Cells
  <1>3. s.cursor \in Int
    BY DEF Mouse
  <1>4. ~whole => cells = Selected!Plain
    OBVIOUS
  <1> HIDE DEF cells, r
  <1>5. /\ r \in Mouse /\ SameCorners(r, s) /\ r.cells = cells /\ r.mode = s.mode
        /\ r.type = s.type /\ r.cursor = s.cursor
    BY <1>1, <1>2, <1>3, CellsSet
  <1> QED BY <1>2, <1>4, <1>5 DEF r

(* unselect leaves no mark and no mode.                                       *)
LEMMA Unselected ==
    ASSUME SelectionAssumption, NEW s, GoodMarks(s)
    PROVE  LET r == Selected!unselect(s)
           IN  GoodMarks(r) /\ r.mode = "none" /\ r.cells = Selected!Plain /\ SameCorners(r, s)
               /\ r.cursor = s.cursor
  <1> DEFINE r == Selected!unselect(s)
  <1>1. s \in Mouse
    BY DEF GoodMarks
  <1>2. CASE s.mode = "none"
    BY <1>2 DEF Selected!unselect, GoodMarks, SameCorners
  <1>3. CASE s.mode # "none"
    <2> DEFINE new == [s EXCEPT !.type = {}]
               u == Selected!SetSelection(new, FALSE)
    <2>1. new \in Mouse /\ SameCorners(new, s) /\ new.cursor = s.cursor
      BY <1>1 DEF Mouse, SameCorners, Selected!DragType
    <2> HIDE DEF new
    <2>2. /\ u \in Mouse /\ SameCorners(u, new) /\ u.cells = Selected!Plain /\ u.cursor = new.cursor
      BY <2>1, AllSet
    <2>3. r = Selected!SetSelectionMode(u, "none")
      BY <1>3 DEF Selected!unselect, new
    <2> HIDE DEF u, r
    <2>4. /\ r \in Mouse /\ SameCorners(r, u) /\ r.cells = u.cells /\ r.mode = "none"
          /\ r.cursor = u.cursor
      BY <2>2, <2>3, ModeSet DEF Selected!Mode
    <2>5. GoodMarks(r)
      BY <2>2, <2>4, PlainOutlined DEF GoodMarks
    <2> QED BY <2>1, <2>2, <2>4, <2>5 DEF SameCorners, r
  <1> QED BY <1>2, <1>3

(* Positions of a screen, and off it.                                         *)
LEMMA Corners ==
    ASSUME SelectionAssumption
    PROVE  /\ \A a \in Int : /\ Selected!Corner(a) \in Place
                             /\ Selected!OnScreen(Selected!Corner(a)) => a \in Selected!Addr
           /\ \A p \in Place : /\ p[1] \in Int /\ p[2] \in Int /\ Selected!At(p) \in Int
                               /\ p = <<p[1], p[2]>>
                               /\ Selected!OnScreen(p) <=> p[1] \in 0 .. High - 1 /\ p[2] \in 0 .. Wide - 1
                               /\ Selected!OnScreen(p) => Selected!At(p) \in Selected!Addr
  <1>1. High \in Nat \ {0} /\ Wide \in Nat \ {0}
    BY DEF SelectionAssumption
  <1>2. ASSUME NEW a \in Int
        PROVE  /\ Selected!Corner(a) \in Place
               /\ Selected!OnScreen(Selected!Corner(a)) => a \in Selected!Addr
    <2>1. Selected!Row(a) \in Int /\ (a < 0 => Selected!Row(a) <= 0)
      <3>1. CASE a < 0
        <4>1. -a \in Nat
          BY <1>2, <3>1
        <4>2. (-a) \div Wide \in Nat
          BY <1>1, <4>1, Division
        <4> QED BY <3>1, <4>2 DEF Selected!Row
      <3>2. CASE ~(a < 0)
        <4>1. a \in Nat
          BY <1>2, <3>2
        <4>2. a \div Wide \in Nat
          BY <1>1, <4>1, Division
        <4> QED BY <3>2, <4>2 DEF Selected!Row
      <3> QED BY <3>1, <3>2
    <2> DEFINE q == Selected!Row(a)
    <2>2. Selected!Col(a) = a - q * Wide
      BY DEF Selected!Col
    <2>3. Selected!Corner(a) = <<q, a - q * Wide>>
      BY <2>2 DEF Selected!Corner
    <2>4. q \in Int /\ (a < 0 => q <= 0)
      BY <2>1
    <2> HIDE DEF q
    <2>5. q * Wide \in Int
      BY <1>1, <2>4
    <2>6. ASSUME Selected!OnScreen(Selected!Corner(a)) PROVE a \in Selected!Addr
      <3>1. q \in 0 .. High - 1 /\ a - q * Wide \in 0 .. Wide - 1
        BY <2>3, <2>6 DEF Selected!OnScreen
      <3>2. q * Wide + (a - q * Wide) \in Selected!Addr
        BY <3>1, CellAt
      <3> QED BY <1>2, <2>5, <3>2
    <2> QED BY <1>2, <2>3, <2>4, <2>5, <2>6 DEF Place
  <1>3. ASSUME NEW p \in Place
        PROVE  /\ p[1] \in Int /\ p[2] \in Int /\ Selected!At(p) \in Int
               /\ p = <<p[1], p[2]>>
               /\ Selected!OnScreen(p) <=> p[1] \in 0 .. High - 1 /\ p[2] \in 0 .. Wide - 1
               /\ Selected!OnScreen(p) => Selected!At(p) \in Selected!Addr
    <2>1. p[1] \in Int /\ p[2] \in Int /\ p = <<p[1], p[2]>>
      BY DEF Place
    <2>2. Selected!OnScreen(p) <=> p[1] \in 0 .. High - 1 /\ p[2] \in 0 .. Wide - 1
      BY <2>1 DEF Selected!OnScreen
    <2>3. Selected!At(p) \in Int
      BY <1>1, <2>1 DEF Selected!At
    <2>4. Selected!OnScreen(p) => Selected!At(p) \in Selected!Addr
      BY <2>2, CellAt DEF Selected!At
    <2> QED BY <2>1, <2>2, <2>3, <2>4
  <1> QED BY <1>2, <1>3

(* Where the two corners are apart, the one before the other.                 *)
LEMMA Between ==
    ASSUME NEW i \in Int, NEW j \in Int
    PROVE  /\ Selected!Lower(i, j) \in Int /\ Selected!Higher(i, j) \in Int
           /\ Selected!Lower(i, j) \in {i, j} /\ Selected!Higher(i, j) \in {i, j}
           /\ Selected!Lower(i, j) <= Selected!Higher(i, j)
  BY DEF Selected!Lower, Selected!Higher

(* UpdateSelectedRectangle outlines the rectangle of any two corners.         *)
LEMMA RectangleSet ==
    ASSUME SelectionAssumption, NEW s \in Mouse, s.mode # "none"
    PROVE  LET r == Selected!UpdateSelectedRectangle(s)
           IN  GoodMarks(r) /\ SameCorners(r, s) /\ r.mode = s.mode /\ r.type = s.type
  <1> DEFINE top == Selected!Lower(s.start[1], s.end[1])
             bottom == Selected!Higher(s.start[1], s.end[1])
             left == Selected!Lower(s.start[2], s.end[2])
             right == Selected!Higher(s.start[2], s.end[2])
             sides(a) == {d \in Selected!Side : \/ d = "top"    /\ Selected!Row(a) = top
                                                \/ d = "bottom" /\ Selected!Row(a) = bottom
                                                \/ d = "left"   /\ Selected!Col(a) = left
                                                \/ d = "right"  /\ Selected!Col(a) = right}
             S == Rectangle(top, bottom, left, right)
             cells == [a \in Selected!Addr |-> IF a \in S THEN {"selected"} \cup sides(a) ELSE {}]
             r == Selected!UpdateSelectedRectangle(s)
  <1>1. s.start \in Place /\ s.end \in Place
    BY DEF Mouse
  <1>2. /\ s.start[1] \in Int /\ s.end[1] \in Int /\ s.start[2] \in Int /\ s.end[2] \in Int
    BY <1>1, Corners
  <1>3. top \in Int /\ bottom \in Int /\ left \in Int /\ right \in Int /\ top <= bottom /\ left <= right
    BY <1>2, Between
  <1>4. r = Marking(s, cells, bottom * Wide + right)
    <2>1. cells = [a \in Selected!Addr |->
                     IF Selected!Row(a) \notin top .. bottom \/ Selected!Col(a) \notin left .. right THEN {}
                     ELSE {"selected"} \cup sides(a)]
      BY DEF Rectangle
    <2> HIDE DEF cells
    <2> QED BY <2>1 DEF Selected!UpdateSelectedRectangle, Marking
  <1>5. cells \in Cells
    <2>1. \A a \in Selected!Addr : sides(a) \subseteq Selected!Side
      OBVIOUS
    <2> HIDE DEF sides, S
    <2> QED BY <2>1 DEF Cells
  <1>6. bottom * Wide + right \in Int
    BY <1>3 DEF SelectionAssumption
  <1>7. ASSUME Selected!OnScreen(s.start), Selected!OnScreen(s.end) PROVE Outlined(cells)
    <2>1. /\ s.start[1] \in 0 .. High - 1 /\ s.end[1] \in 0 .. High - 1
          /\ s.start[2] \in 0 .. Wide - 1 /\ s.end[2] \in 0 .. Wide - 1
      BY <1>1, <1>7, Corners
    <2>2. /\ top \in 0 .. High - 1 /\ bottom \in top .. High - 1
          /\ left \in 0 .. Wide - 1 /\ right \in left .. Wide - 1
      <3>1. /\ top \in {s.start[1], s.end[1]} /\ bottom \in {s.start[1], s.end[1]}
            /\ left \in {s.start[2], s.end[2]} /\ right \in {s.start[2], s.end[2]}
        BY <1>2, Between
      <3> HIDE DEF top, bottom, left, right
      <3> QED BY <1>3, <2>1, <3>1
    <2> HIDE DEF top, bottom, left, right
    <2>3. S \subseteq Selected!Addr
      BY DEF Rectangle
    <2>4. \A a \in S : sides(a) = {d \in Selected!Side : Selected!Neighbour(a, d) \notin S}
      <3> HIDE DEF S
      <3>1. \A a \in S, d \in Selected!Side :
              (\/ d = "top"    /\ Selected!Row(a) = top
               \/ d = "bottom" /\ Selected!Row(a) = bottom
               \/ d = "left"   /\ Selected!Col(a) = left
               \/ d = "right"  /\ Selected!Col(a) = right)
              <=> Selected!Neighbour(a, d) \notin S
        BY <2>2, RectangleOutlined DEF S
      <3> QED BY <3>1
    <2> HIDE DEF S, sides
    <2> QED BY <2>3, <2>4 DEF Bordered, Outlined
  <1> HIDE DEF cells, r, top, bottom, left, right
  <1>8. /\ r \in Mouse /\ SameCorners(r, s) /\ r.cells = cells /\ r.mode = s.mode /\ r.type = s.type
    BY <1>4, <1>5, <1>6, CellsSet
  <1>9. GoodMarks(r)
    BY <1>7, <1>8 DEF GoodMarks, SameCorners
  <1> QED BY <1>8, <1>9 DEF r

(* UpdateSelectedRegion outlines what lies between any two cells in the order *)
(* of the text.                                                               *)
LEMMA RegionSet ==
    ASSUME SelectionAssumption, NEW s \in Mouse, NEW from \in Int, NEW to \in Int
    PROVE  LET r == Selected!UpdateSelectedRegion(s, from, to)
           IN  /\ r \in Mouse /\ SameCorners(r, s) /\ r.mode = s.mode /\ r.type = s.type
               /\ r.cursor = s.cursor
               /\ from \in Selected!Addr /\ to \in Selected!Addr => Outlined(r.cells)
  <1> DEFINE low == Selected!Lower(from, to)
             high == Selected!Higher(from, to)
             S == low .. high
             sides(a) == {d \in Selected!Side :
                            \/ d = "top"    /\ ~(Selected!Row(a) > 0 /\ a - Wide \in S)
                            \/ d = "left"   /\ ~(Selected!Col(a) > 0 /\ a - 1 \in S)
                            \/ d = "right"  /\ (a + 1 > high \/ Selected!Col(a) = Wide - 1)
                            \/ d = "bottom" /\ a + Wide > high}
             cells == [a \in Selected!Addr |-> IF a \in S THEN {"selected"} \cup sides(a) ELSE {}]
             r == Selected!UpdateSelectedRegion(s, from, to)
  <1>1. r = Marking(s, cells, s.cursor)
    <2>1. r = [s EXCEPT !.cells = cells]
      BY DEF Selected!UpdateSelectedRegion
    <2> HIDE DEF cells, r
    <2> QED BY <2>1 DEF Mouse, Marking
  <1>2. cells \in Cells
    <2>1. \A a \in Selected!Addr : sides(a) \subseteq Selected!Side
      OBVIOUS
    <2> HIDE DEF sides, S
    <2> QED BY <2>1 DEF Cells
  <1>3. ASSUME from \in Selected!Addr, to \in Selected!Addr PROVE Outlined(cells)
    <2>1. low \in Selected!Addr /\ high \in Selected!Addr
      BY <1>3, Between
    <2> HIDE DEF low, high
    <2>2. S \subseteq Selected!Addr
      BY <2>1, CellAt DEF Selected!Addr
    <2>3. \A a \in S : sides(a) = {d \in Selected!Side : Selected!Neighbour(a, d) \notin S}
      <3>1. \A a \in S, d \in Selected!Side :
              (\/ d = "top"    /\ ~(Selected!Row(a) > 0 /\ a - Wide \in S)
               \/ d = "left"   /\ ~(Selected!Col(a) > 0 /\ a - 1 \in S)
               \/ d = "right"  /\ (a + 1 > high \/ Selected!Col(a) = Wide - 1)
               \/ d = "bottom" /\ a + Wide > high)
              <=> Selected!Neighbour(a, d) \notin S
        BY <2>1, RegionOutlined
      <3> HIDE DEF S
      <3> QED BY <3>1
    <2> HIDE DEF S, sides
    <2> QED BY <2>2, <2>3 DEF Bordered, Outlined
  <1>4. s.cursor \in Int
    BY DEF Mouse
  <1> HIDE DEF cells, r
  <1>5. /\ r \in Mouse /\ SameCorners(r, s) /\ r.cells = cells /\ r.mode = s.mode
        /\ r.type = s.type /\ r.cursor = s.cursor
    BY <1>1, <1>2, <1>4, CellsSet
  <1> QED BY <1>3, <1>5 DEF r

(* Marking text row after row, between two corners or as a block, outlines it *)
(* too.                                                                       *)
LEMMA TextMarked ==
    ASSUME SelectionAssumption, NEW s \in Mouse, s.mode # "none"
    PROVE  LET r == Selected!UpdateSelectedText(s)
           IN  GoodMarks(r) /\ SameCorners(r, s) /\ r.mode = s.mode /\ r.type = s.type
  <1> DEFINE r == Selected!UpdateSelectedText(s)
             from == Selected!At(s.start)
             to == Selected!At(s.end)
  <1>1. s.start \in Place /\ s.end \in Place
    BY DEF Mouse
  <1>2. from \in Int /\ to \in Int
    BY <1>1, Corners
  <1>3. Selected!OnScreen(s.start) /\ Selected!OnScreen(s.end) => from \in Selected!Addr /\ to \in Selected!Addr
    BY <1>1, Corners
  <1>4. r = Selected!UpdateSelectedRegion(s, from, to)
    BY DEF Selected!UpdateSelectedText
  <1> HIDE DEF r, from, to
  <1>5. /\ r \in Mouse /\ SameCorners(r, s) /\ r.mode = s.mode /\ r.type = s.type
        /\ from \in Selected!Addr /\ to \in Selected!Addr => Outlined(r.cells)
    BY <1>2, <1>4, RegionSet
  <1>6. GoodMarks(r)
    BY <1>3, <1>5 DEF GoodMarks, SameCorners
  <1> QED BY <1>5, <1>6 DEF r

(* reselect, which marks again what the corners say, outlines it.             *)
LEMMA Reselected ==
    ASSUME SelectionAssumption, NEW s \in Mouse
    PROVE  LET r == Selected!reselect(s)
           IN  GoodMarks(r) /\ SameCorners(r, s) /\ r.mode = Selected!Chosen(s)
  <1> DEFINE new == Selected!SetSelectionMode(s, Selected!Chosen(s))
  <1>1. Selected!Chosen(s) \in {"rectangle", "text"} /\ Selected!Chosen(s) \in Selected!Mode
    BY DEF Selected!Chosen, Selected!Mode
  <1>2. new \in Mouse /\ SameCorners(new, s) /\ new.mode = Selected!Chosen(s)
    BY <1>1, ModeSet
  <1>3. Selected!reselect(s) = IF s.rect THEN Selected!UpdateSelectedRectangle(new)
                               ELSE Selected!UpdateSelectedText(new)
    BY DEF Selected!reselect
  <1> HIDE DEF new
  <1>4. new.mode # "none"
    BY <1>1, <1>2
  <1> QED BY <1>2, <1>3, <1>4, RectangleSet, TextMarked DEF SameCorners

-----------------------------------------------------------------------------
(* Words and fields. *)

(* A set of natural numbers has a least one, and a greatest one if bounded.   *)
LEMMA Extremes ==
    ASSUME NEW n \in Nat, NEW T, T \subseteq 0 .. n, T # {}
    PROVE  /\ Selected!Min(T) \in T /\ Selected!Max(T) \in T
           /\ Selected!Min(T) \in Nat /\ Selected!Max(T) \in Nat
  <1>1. ASSUME NEW R, R \subseteq Nat, R # {} PROVE \E i \in R : \A j \in R : i <= j
    <2> DEFINE L == OpToRel(<, Nat)
    <2>1. IsWellFoundedOn(L, Nat)
      BY NatLessThanWellFounded
    <2>2. PICK i \in R : \A j \in R : ~(<<j, i>> \in L)
      BY <1>1, <2>1, WFMin
    <2>3. \A j \in R : ~(j < i)
      BY <1>1, <2>2 DEF OpToRel
    <2> QED BY <1>1, <2>3
  <1>2. Selected!Min(T) \in T
    <2>1. \E i \in T : \A j \in T : i <= j
      <3>1. T \subseteq Nat
        OBVIOUS
      <3> QED BY <1>1, <3>1
    <2> QED BY <2>1 DEF Selected!Min
  <1>3. Selected!Max(T) \in T
    <2> DEFINE R == {n - i : i \in T}
    <2>1. R \subseteq Nat /\ R # {}
      <3>1. \A i \in T : n - i \in Nat
        OBVIOUS
      <3> QED BY <3>1
    <2> HIDE DEF R
    <2>2. PICK k \in R : \A j \in R : k <= j
      BY <1>1, <2>1
    <2>3. PICK i \in T : k = n - i
      BY <2>2 DEF R
    <2>4. ASSUME NEW j \in T PROVE i >= j
      <3>1. n - j \in R
        BY DEF R
      <3> QED BY <2>2, <2>3, <3>1
    <2> QED BY <2>3, <2>4 DEF Selected!Max
  <1>4. T \subseteq Nat
    OBVIOUS
  <1> QED BY <1>2, <1>3, <1>4

(* SelectRegion, which marks a word or a field, marks rightly whatever two    *)
(* positions it is given.                                                     *)
LEMMA RegionSelected ==
    ASSUME SelectionAssumption, NEW s \in Mouse, NEW from \in Int, NEW to \in Int,
           NEW m \in Selected!Mode, m # "none"
    PROVE  GoodMarks(Selected!SelectRegion(s, from, to, m))
           /\ Selected!SelectRegion(s, from, to, m).mode = m
  <1> DEFINE new == Selected!UpdateSelectedRegion(s, from, to)
             u == [new EXCEPT !.start = Selected!Corner(from), !.end = Selected!Corner(to)]
             r == Selected!SetSelectionMode(u, m)
  <1>1. /\ new \in Mouse
        /\ from \in Selected!Addr /\ to \in Selected!Addr => Outlined(new.cells)
    BY RegionSet
  <1>2. /\ Selected!Corner(from) \in Place /\ Selected!Corner(to) \in Place
        /\ Selected!OnScreen(Selected!Corner(from)) => from \in Selected!Addr
        /\ Selected!OnScreen(Selected!Corner(to)) => to \in Selected!Addr
    BY Corners
  <1> HIDE DEF new
  <1>3. /\ u \in Mouse /\ u.cells = new.cells /\ u.start = Selected!Corner(from)
        /\ u.end = Selected!Corner(to)
    BY <1>1, <1>2 DEF Mouse
  <1> HIDE DEF u
  <1>4. r \in Mouse /\ SameCorners(r, u) /\ r.cells = u.cells /\ r.mode = m
    BY <1>3, ModeSet
  <1>5. Selected!SelectRegion(s, from, to, m) = r
    BY DEF Selected!SelectRegion, new, u
  <1> HIDE DEF r
  <1> QED BY <1>1, <1>2, <1>3, <1>4, <1>5 DEF GoodMarks, SameCorners

(* How many there are of a set, whichever module says so.                     *)
LEMMA SameCardinality ==
    ASSUME NEW S PROVE Selected!Cardinality(S) = Cardinality(S)
  BY DEF Selected!Cardinality, Cardinality

(* The field of a position, and its length.                                   *)
LEMMA WordFieldFound ==
    ASSUME SelectionAssumption, text \in Texts, NEW a \in Selected!Addr
    PROVE  Selected!Field(a) \in Int /\ \A f \in Int : Selected!find_field_length(f) \in Int
  <1>1. /\ text.fields \subseteq Selected!Addr /\ Selected!N \in Nat
        /\ Selected!Addr \subseteq 0 .. Selected!N
    <2>1. Selected!N \in Nat
      BY CellAt
    <2>2. text.fields \subseteq Selected!Addr
      BY DEF SelectionAssumption
    <2>3. Selected!Addr \subseteq 0 .. Selected!N
      BY <2>1 DEF Selected!Addr
    <2> QED BY <2>1, <2>2, <2>3
  <1>2. Selected!Field(a) \in Int
    <2> DEFINE before == {f \in text.fields : f <= a}
               T == IF before = {} THEN text.fields ELSE before
    <2>1. CASE text.fields = {}
      BY <2>1 DEF Selected!Field
    <2>2. CASE text.fields # {}
      <3>1. T \subseteq 0 .. Selected!N /\ T # {}
        BY <1>1, <2>2
      <3>2. Selected!Field(a) = Selected!Max(T)
        BY <2>2 DEF Selected!Field
      <3> HIDE DEF T
      <3>3. Selected!Max(T) \in Nat
        BY <1>1, <3>1, Extremes
      <3> QED BY <3>2, <3>3
    <2> QED BY <2>1, <2>2
  <1>3. ASSUME NEW f \in Int PROVE Selected!find_field_length(f) \in Int
    <2>1. CASE Cardinality(text.fields) < 2
      <3>1. Selected!Cardinality(text.fields) < 2
        BY <2>1, SameCardinality
      <3> QED BY <3>1 DEF Selected!find_field_length
    <2>2. CASE ~(Cardinality(text.fields) < 2)
      <3>1. text.fields \ {f} # {}
        <4>1. SUFFICES ASSUME text.fields \ {f} = {} PROVE FALSE
          OBVIOUS
        <4>2. text.fields = {} \/ text.fields = {f}
          BY <4>1
        <4>3. Cardinality({}) = 0 /\ Cardinality({f}) = 1
          BY FS_EmptySet, FS_Singleton
        <4> QED BY <2>2, <4>2, <4>3
      <3> DEFINE T == {(g - f - 1) % Selected!N : g \in text.fields \ {f}}
      <3>2. Selected!N >= 1
        BY <1>1, CellAt
      <3>3. T \subseteq 0 .. Selected!N
        <4>1. ASSUME NEW g \in text.fields PROVE (g - f - 1) % Selected!N \in 0 .. Selected!N
          <5>1. g - f - 1 \in Int
            <6>1. g \in Int
              BY <1>1 DEF Selected!Addr
            <6> HIDE DEF T
            <6> QED BY <1>3, <6>1
          <5> QED BY <1>1, <3>2, <5>1
        <4> QED BY <4>1
      <3>4. T # {}
        BY <3>1
      <3>5. Selected!find_field_length(f) = Selected!Min(T)
        <4>1. ~(Selected!Cardinality(text.fields) < 2)
          BY <2>2, SameCardinality
        <4> QED BY <4>1 DEF Selected!find_field_length
      <3> HIDE DEF T
      <3>6. Selected!Min(T) \in Nat
        BY <1>1, <3>3, <3>4, Extremes
      <3> QED BY <3>5, <3>6
    <2> QED BY <2>1, <2>2
  <1> QED BY <1>2, <1>3

(* What a field leaves: its selection or, where a key is pressed, none.       *)
LEMMA FieldSelected ==
    ASSUME SelectionAssumption, text \in Texts, NEW s, GoodMarks(s), s.cursor \in Selected!Addr,
           NEW r \in Selected!selectfield(s)
    PROVE  GoodMarks(r) /\ (r.mode = "field" \/ (r.mode = s.mode /\ SameCorners(r, s)))
  <1> DEFINE f == Selected!Field(s.cursor)
             length == Selected!find_field_length(f)
             cleared == Selected!SetSelection(s, FALSE)
             taken == Selected!SelectRegion(cleared, f + 1, f + length, "field")
  <1>1. f \in Int /\ length \in Int
    BY WordFieldFound
  <1>2. /\ cleared \in Mouse /\ cleared.mode = s.mode /\ cleared.cells = Selected!Plain
        /\ SameCorners(cleared, s)
    BY AllSet DEF GoodMarks
  <1>3. r \in {cleared, taken}
    BY DEF Selected!selectfield
  <1> HIDE DEF f, length, cleared
  <1>4. GoodMarks(taken) /\ taken.mode = "field"
    BY <1>1, <1>2, RegionSelected DEF Selected!Mode
  <1> HIDE DEF taken
  <1>5. GoodMarks(cleared)
    BY <1>2, PlainOutlined DEF GoodMarks
  <1> QED BY <1>2, <1>3, <1>4, <1>5

(* And a word.                                                                *)
LEMMA WordSelected ==
    ASSUME SelectionAssumption, text \in Texts, NEW s, GoodMarks(s), s.cursor \in Selected!Addr,
           NEW r \in Selected!selectword(s)
    PROVE  GoodMarks(r) /\ (r.mode \in {"field", "word"} \/ (r.mode = s.mode /\ SameCorners(r, s)))
  <1> DEFINE A == {0} \cup {a \in 0 .. s.cursor : Selected!Space(a)}
             B == {Selected!N} \cup {a \in s.cursor .. Selected!N - 1 : Selected!Space(a)}
             start == Selected!Max(A)
             end == Selected!Min(B)
             cleared == Selected!SetSelection(s, FALSE)
             taken == Selected!SelectRegion(cleared, start + 1, end - 1, "word")
  <1>1. Selected!N \in Nat /\ s.cursor \in Nat /\ s.cursor < Selected!N
    BY CellAt
  <1>2. A \subseteq 0 .. Selected!N /\ A # {} /\ B \subseteq 0 .. Selected!N /\ B # {}
    BY <1>1
  <1>3. start \in Int /\ end \in Int
    <2> HIDE DEF A, B
    <2>1. start \in A /\ end \in B
      BY <1>1, <1>2, Extremes
    <2>2. start \in 0 .. Selected!N /\ end \in 0 .. Selected!N
      BY <1>2, <2>1
    <2> HIDE DEF start, end
    <2> QED BY <2>2
  <1>4. /\ cleared \in Mouse /\ cleared.mode = s.mode /\ cleared.cells = Selected!Plain
        /\ SameCorners(cleared, s)
    BY AllSet DEF GoodMarks
  <1>5. r \in {cleared, taken} \/ r \in Selected!selectfield(s)
    BY DEF Selected!selectword
  <1> HIDE DEF A, B, start, end, cleared
  <1>6. GoodMarks(taken) /\ taken.mode = "word"
    BY <1>3, <1>4, RegionSelected DEF Selected!Mode
  <1> HIDE DEF taken
  <1>7. GoodMarks(cleared)
    BY <1>4, PlainOutlined DEF GoodMarks
  <1>8. CASE r \in Selected!selectfield(s)
    BY <1>8, FieldSelected
  <1> QED BY <1>4, <1>5, <1>6, <1>7, <1>8

-----------------------------------------------------------------------------
(* The actions. *)

(* What has its corners and marks from a good state is good, and so is what   *)
(* has no marks.                                                              *)
LEMMA MarksKept ==
    ASSUME NEW s, GoodMarks(s), NEW r \in Mouse, r.cells = s.cells, r.start = s.start, r.end = s.end,
           r.mode = "none" => s.mode = "none"
    PROVE  GoodMarks(r)
  BY DEF GoodMarks

(* Without a mark everything is outlined.                                     *)
LEMMA Bare ==
    ASSUME NEW r \in Mouse, r.cells = Selected!Plain
    PROVE  GoodMarks(r)
  BY PlainOutlined DEF GoodMarks

(* A new mode of a selection leaves its marks right.                          *)
LEMMA ModeGood ==
    ASSUME NEW s, GoodMarks(s), NEW m \in Selected!Mode, m # "none"
    PROVE  GoodMarks(Selected!SetSelectionMode(s, m))
  <1>1. s \in Mouse
    BY DEF GoodMarks
  <1> DEFINE r == Selected!SetSelectionMode(s, m)
  <1>2. r \in Mouse /\ SameCorners(r, s) /\ r.cells = s.cells /\ r.mode = m
    BY <1>1, ModeSet
  <1> HIDE DEF r
  <1>3. GoodMarks(r)
    BY <1>2, MarksKept DEF SameCorners
  <1> QED BY <1>3 DEF r

(* Where the pointer is.                                                      *)
LEMMA Decoded ==
    ASSUME SelectionAssumption, NEW p \in Pointer, NEW at, at = Selected!DecodePosition(p).at
    PROVE  at \in Place /\ at[1] \in Int /\ at[2] \in Int
  <1>1. p \in Int \X Int /\ High \in Nat /\ Wide \in Nat
    BY DEF SelectionAssumption
  <1>2. p[1] \in Int /\ p[2] \in Int
    BY <1>1
  <1> DEFINE row == IF p[1] < 0 THEN 0 ELSE IF p[1] > High THEN High - 1 ELSE p[1]
             col == IF p[2] < 0 THEN 0 ELSE IF p[2] > Wide THEN Wide - 1 ELSE p[2]
  <1>3. at = <<row, col>>
    BY DEF Selected!DecodePosition
  <1>4. row \in Int /\ col \in Int
    BY <1>1, <1>2
  <1> HIDE DEF row, col
  <1> QED BY <1>3, <1>4 DEF Place

State == GoodMarks(sel) /\ text \in Texts

Shape(r, s) ==
    s.mode = "drag" /\ r.mode = "drag" /\ Selected!Ordered(s) =>
        /\ Selected!Ordered(r)
        /\ s.type = {"inside"} /\ Selected!OnScreen(s.start) /\ Selected!OnScreen(s.end) =>
             Selected!Size(r) = Selected!Size(s) /\ Selected!OnScreen(r.start) /\ Selected!OnScreen(r.end)

(* A state with the corners of the one before has its shape.                  *)
LEMMA ShapeKept ==
    ASSUME NEW r, NEW s, r.mode = "drag" => r.start = s.start /\ r.end = s.end
    PROVE  Shape(r, s)
  BY DEF Shape, Selected!Ordered, Selected!Size

(* A press of the button keeps the marks right, and is no drag.               *)
LEMMA ButtonPress ==
    ASSUME SelectionAssumption, State, Selected!mouse_button_press
    PROVE  GoodMarks(sel') /\ Shape(sel', sel)
  <1>1. PICK p \in Pointer :
          LET d      == Selected!DecodePosition(p)
              s      == [sel EXCEPT !.down = TRUE]
          IN  \/ /\ s.type = {"inside"}
                 /\ sel' = [Selected!SetSelectionMode(s, "drag")
                              EXCEPT !.drag = <<d.at[1] - s.start[1], d.at[2] - s.start[2]>>]
              \/ sel' = Selected!SetSelectionMode(s, "drag")
              \/ sel' = Selected!unselect(s)
              \/ sel' = Selected!SetSelectionMode(s, "field")
              \/ sel' = [Selected!unselect(s) EXCEPT !.start = <<d.at[1], d.at[1]>>, !.combo = TRUE]
              \/ sel' = [Selected!unselect(s) EXCEPT !.start = d.at, !.combo = ~d.out]
    BY DEF Selected!mouse_button_press, Selected!Becomes
  <1> DEFINE d == Selected!DecodePosition(p)
             s == [sel EXCEPT !.down = TRUE]
             out == d.out
             at == d.at
  <1>2. at \in Place /\ at[1] \in Int /\ at[2] \in Int
    BY Decoded
  <1>3. out \in BOOLEAN
    BY DEF Selected!DecodePosition
  <1>4. /\ s \in Mouse /\ s.cells = sel.cells /\ s.start = sel.start /\ s.end = sel.end
        /\ s.mode = sel.mode
    BY DEF State, GoodMarks, Mouse
  <1> HIDE DEF s
  <1>5. GoodMarks(s)
    BY <1>4, MarksKept DEF State
  <1> DEFINE drags == Selected!SetSelectionMode(s, "drag")
             fields == Selected!SetSelectionMode(s, "field")
             bare == Selected!unselect(s)
  <1>6. /\ drags \in Mouse /\ SameCorners(drags, s) /\ GoodMarks(drags) /\ drags.mode = "drag"
        /\ GoodMarks(fields) /\ fields.mode = "field"
    BY <1>4, <1>5, ModeSet, ModeGood DEF Selected!Mode
  <1>7. GoodMarks(bare) /\ bare \in Mouse /\ bare.mode = "none" /\ bare.cells = Selected!Plain
    BY <1>5, Unselected DEF GoodMarks
  <1>8. \/ sel' = [drags EXCEPT !.drag = <<at[1] - s.start[1], at[2] - s.start[2]>>]
        \/ sel' = drags \/ sel' = bare \/ sel' = fields
        \/ sel' = [bare EXCEPT !.start = <<at[1], at[1]>>, !.combo = TRUE]
        \/ sel' = [bare EXCEPT !.start = at, !.combo = ~out]
    BY <1>1 DEF s
  <1> HIDE DEF d, at, out, drags, fields, bare
  <1>9. CASE sel' = [drags EXCEPT !.drag = <<at[1] - s.start[1], at[2] - s.start[2]>>]
    <2> DEFINE drag == <<at[1] - s.start[1], at[2] - s.start[2]>>
    <2>1. s.start[1] \in Int /\ s.start[2] \in Int
      BY <1>4, Corners DEF Mouse
    <2>2. drag \in Place
      BY <1>2, <2>1 DEF Place
    <2> HIDE DEF drag
    <2>3. /\ sel' \in Mouse /\ sel'.cells = drags.cells /\ sel'.start = drags.start
          /\ sel'.end = drags.end /\ sel'.mode = drags.mode
      BY <1>6, <1>9, <2>2 DEF Mouse, drag
    <2>4. GoodMarks(sel')
      BY <1>6, <2>3, MarksKept
    <2>5. sel'.start = sel.start /\ sel'.end = sel.end
      BY <1>4, <1>6, <2>3 DEF SameCorners
    <2> QED BY <2>4, <2>5, ShapeKept
  <1>10. CASE sel' = drags
    BY <1>4, <1>6, <1>10, ShapeKept DEF SameCorners
  <1>11. CASE sel' = bare
    BY <1>7, <1>11, ShapeKept
  <1>12. CASE sel' = fields
    BY <1>6, <1>12, ShapeKept
  <1>13. CASE sel' = [bare EXCEPT !.start = <<at[1], at[1]>>, !.combo = TRUE]
    <2>1. <<at[1], at[1]>> \in Place
      BY <1>2 DEF Place
    <2>2. sel' \in Mouse /\ sel'.cells = Selected!Plain /\ sel'.mode = "none"
      BY <1>7, <1>13, <2>1 DEF Mouse
    <2> QED BY <2>2, Bare, ShapeKept
  <1>14. CASE sel' = [bare EXCEPT !.start = at, !.combo = ~out]
    <2>1. sel' \in Mouse /\ sel'.cells = Selected!Plain /\ sel'.mode = "none"
      BY <1>2, <1>3, <1>7, <1>14 DEF Mouse
    <2> QED BY <2>1, Bare, ShapeKept
  <1> QED BY <1>8, <1>9, <1>10, <1>11, <1>12, <1>13, <1>14

(* ... and so do a double press, which begins a word,                         *)
LEMMA DoublePress ==
    ASSUME SelectionAssumption, State, Selected!mouse_double_press
    PROVE  GoodMarks(sel') /\ Shape(sel', sel)
  <1>1. PICK p \in Pointer :
          sel' = Selected!SetSelectionMode([sel EXCEPT !.start = Selected!DecodePosition(p).at], "word")
    BY DEF Selected!mouse_double_press, Selected!Becomes
  <1> DEFINE at == Selected!DecodePosition(p).at
             new == [sel EXCEPT !.start = at]
  <1>2. at \in Place
    BY Decoded
  <1> HIDE DEF at
  <1>3. sel.mode = "none"
    BY DEF Selected!mouse_double_press
  <1>4. new \in Mouse /\ new.cells = Selected!Plain
    BY <1>2, <1>3 DEF State, GoodMarks, Mouse
  <1>5. sel' = Selected!SetSelectionMode(new, "word")
    BY <1>1 DEF at
  <1> HIDE DEF new
  <1>6. sel' \in Mouse /\ sel'.cells = new.cells /\ sel'.mode = "word"
    BY <1>4, <1>5, ModeSet DEF Selected!Mode
  <1> QED BY <1>4, <1>6, Bare, ShapeKept

(* ... the press of the third button, which is to copy,                       *)
LEMMA CopyPress ==
    ASSUME SelectionAssumption, State, Selected!mouse_copy_press
    PROVE  GoodMarks(sel') /\ Shape(sel', sel)
  <1>1. PICK m \in {"copy", "append"} : sel' = Selected!SetSelectionMode(sel, m)
    BY DEF Selected!mouse_copy_press, Selected!Becomes
  <1>2. m \in Selected!Mode /\ m # "none" /\ m # "drag"
    BY DEF Selected!Mode
  <1>3. GoodMarks(sel')
    BY <1>1, <1>2, ModeGood DEF State
  <1>4. sel'.mode = m
    BY <1>1, <1>2, ModeSet DEF State, GoodMarks
  <1> QED BY <1>2, <1>3, <1>4, ShapeKept

(* ... and the release of the button.                                         *)
LEMMA ButtonRelease ==
    ASSUME SelectionAssumption, State, Selected!mouse_button_release
    PROVE  GoodMarks(sel') /\ Shape(sel', sel)
  <1> DEFINE s == [sel EXCEPT !.down = FALSE, !.combo = FALSE]
  <1>1. PICK p \in Pointer :
          LET at == Selected!DecodePosition(p).at
          IN  \/ s.mode = "none" /\ sel' = [s EXCEPT !.cursor = Selected!At(at)]
              \/ s.mode = "field" /\ s.cursor \in Selected!Addr /\ sel' \in Selected!selectfield(s)
              \/ s.mode = "word" /\ s.cursor \in Selected!Addr /\ sel' \in Selected!selectword(s)
              \/ sel' = Selected!unselect(s)
              \/ s.mode = "drag" /\ sel' = [s EXCEPT !.mode = "rectangle", !.type = {}]
              \/ s.mode # "drag" /\ sel' = s
    BY DEF Selected!mouse_button_release, Selected!Becomes
  <1> DEFINE at == Selected!DecodePosition(p).at
             cursor == Selected!At(at)
  <1>2. cursor \in Int
    <2>1. at \in Place
      BY Decoded
    <2> HIDE DEF at
    <2> QED BY <2>1, Corners
  <1>3. /\ s \in Mouse /\ s.cells = sel.cells /\ s.start = sel.start /\ s.end = sel.end
        /\ s.mode = sel.mode
    BY DEF State, GoodMarks, Mouse
  <1> HIDE DEF s, cursor
  <1>4. GoodMarks(s) /\ text \in Texts
    BY <1>3, MarksKept DEF State
  <1>5. CASE s.mode = "none" /\ sel' = [s EXCEPT !.cursor = cursor]
    <2>1. /\ sel' \in Mouse /\ sel'.cells = s.cells /\ sel'.start = s.start /\ sel'.end = s.end
          /\ sel'.mode = s.mode
      BY <1>2, <1>3, <1>5 DEF Mouse
    <2>2. GoodMarks(sel')
      BY <1>4, <2>1, MarksKept
    <2> QED BY <1>5, <2>1, <2>2, ShapeKept
  <1>6. CASE s.mode = "field" /\ s.cursor \in Selected!Addr /\ sel' \in Selected!selectfield(s)
    BY <1>4, <1>6, FieldSelected, ShapeKept
  <1>7. CASE s.mode = "word" /\ s.cursor \in Selected!Addr /\ sel' \in Selected!selectword(s)
    BY <1>4, <1>7, WordSelected, ShapeKept
  <1>8. CASE sel' = Selected!unselect(s)
    BY <1>4, <1>8, Unselected, ShapeKept
  <1>9. CASE s.mode = "drag" /\ sel' = [s EXCEPT !.mode = "rectangle", !.type = {}]
    <2>1. /\ sel' \in Mouse /\ sel'.cells = s.cells /\ sel'.start = s.start /\ sel'.end = s.end
          /\ sel'.mode = "rectangle"
      BY <1>3, <1>9 DEF Mouse, Selected!Mode, Selected!DragType
    <2>2. GoodMarks(sel')
      BY <1>4, <2>1, MarksKept
    <2> QED BY <2>1, <2>2, ShapeKept
  <1>10. CASE s.mode # "drag" /\ sel' = s
    BY <1>4, <1>10, ShapeKept
  <1> QED BY <1>1, <1>5, <1>6, <1>7, <1>8, <1>9, <1>10 DEF cursor

(* Stretching a new selection to the pointer keeps the marks right.           *)
LEMMA Stretching ==
    ASSUME SelectionAssumption, State, Selected!Stretch
    PROVE  GoodMarks(sel') /\ Shape(sel', sel)
  <1> DEFINE new == IF sel.mode = "none" THEN Selected!SetSelectionMode(sel, Selected!Chosen(sel)) ELSE sel
  <1>1. PICK p \in Pointer :
          LET s == [new EXCEPT !.end = Selected!DecodePosition(p).at]
          IN  sel' = IF s.mode = "text" THEN Selected!UpdateSelectedText(s)
                     ELSE Selected!UpdateSelectedRectangle(s)
    BY DEF Selected!Stretch, Selected!Becomes
  <1> DEFINE at == Selected!DecodePosition(p).at
             s == [new EXCEPT !.end = at]
  <1>2. at \in Place
    BY Decoded
  <1>3. sel.mode \in {"none", "rectangle", "text"} /\ sel \in Mouse
    BY DEF Selected!Stretch, State, GoodMarks
  <1>4. new \in Mouse /\ new.mode # "none"
    <2>1. Selected!Chosen(sel) \in Selected!Mode /\ Selected!Chosen(sel) # "none"
      BY DEF Selected!Chosen, Selected!Mode
    <2> QED BY <1>3, <2>1, ModeSet
  <1> HIDE DEF at, new
  <1>5. s \in Mouse /\ s.mode # "none"
    BY <1>2, <1>4 DEF Mouse
  <1>6. sel' = IF s.mode = "text" THEN Selected!UpdateSelectedText(s)
               ELSE Selected!UpdateSelectedRectangle(s)
    BY <1>1 DEF at
  <1> HIDE DEF s
  <1>7. GoodMarks(sel')
    BY <1>5, <1>6, RectangleSet, TextMarked
  <1> QED BY <1>3, <1>7, ShapeKept DEF Shape

(* The pointer over a selection that is not being dragged changes its type    *)
(* alone.                                                                     *)
LEMMA Hovering ==
    ASSUME SelectionAssumption, State, Selected!Hover
    PROVE  GoodMarks(sel') /\ Shape(sel', sel)
  <1>1. PICK p \in Pointer :
          sel' = [sel EXCEPT !.type = IF Selected!DecodePosition(p).out THEN {}
                                      ELSE Selected!SidesAt(sel, Selected!DecodePosition(p).at)]
    BY DEF Selected!Hover, Selected!Becomes
  <1> DEFINE type == IF Selected!DecodePosition(p).out THEN {}
                     ELSE Selected!SidesAt(sel, Selected!DecodePosition(p).at)
  <1>2. type \in Selected!DragType
    BY DEF Selected!SidesAt, Selected!DragType
  <1> HIDE DEF type
  <1>3. sel' = [sel EXCEPT !.type = type]
    BY <1>1 DEF type
  <1>4. /\ sel' \in Mouse /\ sel'.cells = sel.cells /\ sel'.start = sel.start /\ sel'.end = sel.end
        /\ sel'.mode = sel.mode
    BY <1>2, <1>3 DEF State, GoodMarks, Mouse
  <1> QED BY <1>4, MarksKept, ShapeKept DEF State

(* A span put on the screen keeps its length, and is on it if it fits.        *)
LEMMA SpanKept ==
    ASSUME NEW i \in Int, NEW length \in Nat, NEW n \in Nat \ {0},
           NEW r, r = Selected!Clamped(i, length, n)
    PROVE  /\ r[1] \in Int /\ r[2] \in Int /\ r[2] - r[1] = length
           /\ length <= n - 1 => r[1] \in 0 .. n - 1 /\ r[2] \in 0 .. n - 1
  <1> DEFINE first == Selected!Higher(i, 0)
  <1>1. first \in Nat
    BY DEF Selected!Higher
  <1>2. r = IF first + length >= n - 1 THEN <<n - 1 - length, n - 1>> ELSE <<first, first + length>>
    BY DEF Selected!Clamped
  <1> HIDE DEF first
  <1>3. CASE first + length >= n - 1
    BY <1>2, <1>3
  <1>4. CASE ~(first + length >= n - 1)
    BY <1>1, <1>2, <1>4
  <1> QED BY <1>3, <1>4

(* Dragged as a whole, or by a side.                                          *)
LEMMA WholeDragged ==
    ASSUME SelectionAssumption, NEW s \in Mouse, NEW at \in Place,
           NEW r, r = Selected!DraggedWhole(s, at)
    PROVE  /\ r \in Mouse /\ r.mode = s.mode
           /\ Selected!Ordered(s) =>
                /\ Selected!Ordered(r)
                /\ Selected!OnScreen(s.start) /\ Selected!OnScreen(s.end) =>
                     /\ Selected!Size(r) = Selected!Size(s)
                     /\ Selected!OnScreen(r.start) /\ Selected!OnScreen(r.end)
  <1> DEFINE rows == Selected!Clamped(at[1] - s.drag[1], s.end[1] - s.start[1], High)
             cols == Selected!Clamped(at[2] - s.drag[2], s.end[2] - s.start[2], Wide)
             start == <<rows[1], cols[1]>>
             end == <<rows[2], cols[2]>>
  <1>1. /\ at[1] \in Int /\ at[2] \in Int /\ s.drag[1] \in Int /\ s.drag[2] \in Int
        /\ s.start[1] \in Int /\ s.start[2] \in Int /\ s.end[1] \in Int /\ s.end[2] \in Int
        /\ s.start \in Place /\ s.end \in Place
    <2>1. s.start \in Place /\ s.end \in Place /\ s.drag \in Place
      BY DEF Mouse
    <2> QED BY <2>1, Corners
  <1>2. High \in Nat \ {0} /\ Wide \in Nat \ {0}
    BY DEF SelectionAssumption
  <1>3. rows[1] \in Int /\ rows[2] \in Int /\ cols[1] \in Int /\ cols[2] \in Int
    BY <1>1, <1>2 DEF Selected!Clamped, Selected!Higher
  <1>4. r = [s EXCEPT !.start = start, !.end = end]
    BY DEF Selected!DraggedWhole
  <1>5. ASSUME Selected!Ordered(s)
        PROVE  /\ rows[2] - rows[1] = s.end[1] - s.start[1] /\ cols[2] - cols[1] = s.end[2] - s.start[2]
               /\ s.end[1] - s.start[1] \in Nat /\ s.end[2] - s.start[2] \in Nat
               /\ s.end[1] - s.start[1] <= High - 1 => rows[1] \in 0 .. High - 1 /\ rows[2] \in 0 .. High - 1
               /\ s.end[2] - s.start[2] <= Wide - 1 => cols[1] \in 0 .. Wide - 1 /\ cols[2] \in 0 .. Wide - 1
    <2>1. s.end[1] - s.start[1] \in Nat /\ s.end[2] - s.start[2] \in Nat
      BY <1>1, <1>5 DEF Selected!Ordered
    <2>2. at[1] - s.drag[1] \in Int /\ at[2] - s.drag[2] \in Int
      BY <1>1
    <2> QED BY <1>2, <2>1, <2>2, SpanKept
  <1> HIDE DEF rows, cols
  <1>6. start \in Place /\ end \in Place
    BY <1>3 DEF Place
  <1>7. start[1] = rows[1] /\ start[2] = cols[1] /\ end[1] = rows[2] /\ end[2] = cols[2]
    OBVIOUS
  <1> HIDE DEF start, end
  <1>8. r \in Mouse /\ r.mode = s.mode /\ r.start = start /\ r.end = end
    BY <1>4, <1>6 DEF Mouse
  <1>9. ASSUME Selected!Ordered(s) PROVE Selected!Ordered(r)
    BY <1>1, <1>3, <1>5, <1>7, <1>8, <1>9 DEF Selected!Ordered
  <1>10. ASSUME Selected!Ordered(s), Selected!OnScreen(s.start), Selected!OnScreen(s.end)
         PROVE  /\ Selected!Size(r) = Selected!Size(s)
                /\ Selected!OnScreen(r.start) /\ Selected!OnScreen(r.end)
    <2>1. /\ s.start[1] \in 0 .. High - 1 /\ s.end[1] \in 0 .. High - 1
          /\ s.start[2] \in 0 .. Wide - 1 /\ s.end[2] \in 0 .. Wide - 1
      BY <1>1, <1>10, Corners
    <2>2. s.end[1] - s.start[1] <= High - 1 /\ s.end[2] - s.start[2] <= Wide - 1
      BY <1>2, <2>1
    <2>3. /\ start[1] \in 0 .. High - 1 /\ end[1] \in 0 .. High - 1
          /\ start[2] \in 0 .. Wide - 1 /\ end[2] \in 0 .. Wide - 1
      BY <1>5, <1>7, <1>10, <2>2
    <2>4. Selected!OnScreen(start) /\ Selected!OnScreen(end)
      BY <1>6, <2>3, Corners
    <2>5. Selected!Size(r) = Selected!Size(s)
      BY <1>5, <1>7, <1>8, <1>10 DEF Selected!Size
    <2> QED BY <1>8, <2>4, <2>5
  <1> QED BY <1>8, <1>9, <1>10

(* However a side or the whole of a rectangle is dragged, an ordered one      *)
(* stays so.                                                                  *)
LEMMA SideDragged ==
    ASSUME SelectionAssumption, NEW s \in Mouse, NEW at \in Place,
           NEW r, r = Selected!Dragged(s, at)
    PROVE  r \in Mouse /\ r.mode = s.mode /\ (Selected!Ordered(s) => Selected!Ordered(r))
  <1> DEFINE top == IF "top" \in s.type /\ at[1] <= s.end[1] THEN at[1] ELSE s.start[1]
             left == IF "left" \in s.type /\ at[2] <= s.end[2] THEN at[2] ELSE s.start[2]
             bottom == IF "bottom" \in s.type /\ at[1] >= s.start[1] THEN at[1] ELSE s.end[1]
             right == IF "right" \in s.type /\ at[2] >= s.start[2] THEN at[2] ELSE s.end[2]
  <1>1. /\ at[1] \in Int /\ at[2] \in Int
        /\ s.start[1] \in Int /\ s.start[2] \in Int /\ s.end[1] \in Int /\ s.end[2] \in Int
    <2>1. s.start \in Place /\ s.end \in Place
      BY DEF Mouse
    <2> QED BY <2>1, Corners
  <1>2. r = [s EXCEPT !.start = <<top, left>>, !.end = <<bottom, right>>]
    BY DEF Selected!Dragged, Mouse
  <1>3. top \in Int /\ left \in Int /\ bottom \in Int /\ right \in Int
    BY <1>1
  <1>4. Selected!Ordered(s) => top <= bottom /\ left <= right
    BY <1>1 DEF Selected!Ordered
  <1> HIDE DEF top, left, bottom, right
  <1> DEFINE start == <<top, left>>
             end == <<bottom, right>>
  <1>5. start \in Place /\ end \in Place
    BY <1>3 DEF Place
  <1>6. start[1] = top /\ start[2] = left /\ end[1] = bottom /\ end[2] = right
    OBVIOUS
  <1> HIDE DEF start, end
  <1>7. r \in Mouse /\ r.mode = s.mode /\ r.start = start /\ r.end = end
    BY <1>2, <1>5 DEF Mouse, start, end
  <1> QED BY <1>4, <1>6, <1>7 DEF Selected!Ordered

(* A drag keeps the marks right and, if the whole is dragged, its size and    *)
(* its being on the screen.                                                   *)
LEMMA Dragging ==
    ASSUME SelectionAssumption, State, Selected!Drag
    PROVE  GoodMarks(sel') /\ Shape(sel', sel)
  <1>1. sel \in Mouse /\ sel.mode = "drag"
    BY DEF Selected!Drag, State, GoodMarks
  <1>2. PICK p \in Pointer :
          LET at == Selected!DecodePosition(p).at
          IN  sel' = Selected!UpdateSelectedRectangle(
                 CASE sel.type = {"inside"} -> Selected!DraggedWhole(sel, at)
                   [] sel.type = {} -> sel
                   [] OTHER -> Selected!Dragged(sel, at))
    BY DEF Selected!Drag, Selected!Becomes
  <1> DEFINE at == Selected!DecodePosition(p).at
             new == CASE sel.type = {"inside"} -> Selected!DraggedWhole(sel, at)
                    [] sel.type = {} -> sel
                    [] OTHER -> Selected!Dragged(sel, at)
  <1>3. at \in Place
    BY Decoded
  <1> HIDE DEF at
  <1>4. new \in Mouse /\ new.mode = "drag" /\ Shape(new, sel)
    <2>1. CASE sel.type = {"inside"}
      <3>1. new = Selected!DraggedWhole(sel, at)
        BY <2>1
      <3> HIDE DEF new
      <3> QED BY <1>1, <1>3, <3>1, WholeDragged DEF Shape
    <2>2. CASE sel.type = {}
      <3>1. new = sel
        BY <2>2
      <3> HIDE DEF new
      <3> QED BY <1>1, <3>1, ShapeKept
    <2>3. CASE sel.type # {"inside"} /\ sel.type # {}
      <3>1. new = Selected!Dragged(sel, at)
        BY <2>3
      <3> HIDE DEF new
      <3> QED BY <1>1, <1>3, <2>3, <3>1, SideDragged DEF Shape
    <2> QED BY <2>1, <2>2, <2>3
  <1>5. sel' = Selected!UpdateSelectedRectangle(new)
    BY <1>2 DEF at
  <1> HIDE DEF new
  <1>6. GoodMarks(sel') /\ SameCorners(sel', new) /\ sel'.mode = new.mode
    BY <1>4, <1>5, RectangleSet
  <1>7. Shape(sel', sel)
    BY <1>4, <1>6 DEF Shape, SameCorners, Selected!Ordered, Selected!Size
  <1> QED BY <1>6, <1>7

(* Selecting with the cursor (doSelect) keeps the marks right.                *)
LEMMA Selecting ==
    ASSUME SelectionAssumption, State, Selected!doSelect
    PROVE  GoodMarks(sel') /\ Shape(sel', sel)
  <1> DEFINE u == Selected!SetSelectionMode(sel, Selected!Chosen(sel))
             new == IF sel.mode # "none" THEN sel
                  ELSE [u EXCEPT !.start = Selected!Corner(sel.cursor), !.end = Selected!Corner(sel.cursor)]
  <1>1. PICK step \in {-1, 1, -Wide, Wide, 0} :
          LET moved == IF step = 0 THEN sel.cursor ELSE (sel.cursor + step + Selected!N) % Selected!N
          IN  sel' = Selected!reselect([new EXCEPT !.cursor = moved, !.end = Selected!Corner(moved)])
    BY DEF Selected!doSelect, Selected!Becomes
  <1> DEFINE moved == IF step = 0 THEN sel.cursor ELSE (sel.cursor + step + Selected!N) % Selected!N
             s == [new EXCEPT !.cursor = moved, !.end = Selected!Corner(moved)]
  <1>2. sel \in Mouse /\ sel.cursor \in Int
    BY DEF State, GoodMarks, Mouse
  <1>3. moved \in Int
    <2>1. Wide \in Nat \ {0} /\ High \in Nat \ {0} /\ Selected!N = High * Wide
      BY DEF SelectionAssumption, Selected!N
    <2>2. Selected!N \in Nat \ {0}
      <3>1. High * Wide >= Wide
        BY <2>1
      <3> QED BY <2>1, <3>1
    <2>3. sel.cursor + step + Selected!N \in Int
      BY <1>2, <2>1, <2>2
    <2> QED BY <1>2, <2>2, <2>3
  <1>4. new \in Mouse
    <2>1. Selected!Chosen(sel) \in Selected!Mode
      BY DEF Selected!Chosen, Selected!Mode
    <2>2. u \in Mouse
      BY <1>2, <2>1, ModeSet
    <2>3. Selected!Corner(sel.cursor) \in Place
      BY <1>2, Corners
    <2> HIDE DEF u
    <2> QED BY <1>2, <2>2, <2>3 DEF Mouse
  <1>5. Selected!Corner(moved) \in Place
    BY <1>3, Corners
  <1>6. sel' = Selected!reselect(s)
    BY <1>1
  <1> HIDE DEF new, moved
  <1>7. s \in Mouse
    BY <1>3, <1>4, <1>5 DEF Mouse
  <1> HIDE DEF s
  <1>8. GoodMarks(sel') /\ sel'.mode = Selected!Chosen(s)
    BY <1>6, <1>7, Reselected
  <1> QED BY <1>8, ShapeKept DEF Selected!Chosen

(* Moving the selection by one row or column keeps the marks right, and its   *)
(* size.                                                                      *)
LEMMA Moving ==
    ASSUME SelectionAssumption, State, Selected!MoveSelection
    PROVE  GoodMarks(sel') /\ Shape(sel', sel)
  <1>1. PICK axis \in 1 .. 2, step \in {-1, 1} :
          sel' = Selected!reselect([sel EXCEPT !.start[axis] = @ + step, !.end[axis] = @ + step])
    BY DEF Selected!MoveSelection, Selected!Becomes
  <1> DEFINE start == [sel.start EXCEPT ![axis] = @ + step]
             end == [sel.end EXCEPT ![axis] = @ + step]
             s == [sel EXCEPT !.start = start, !.end = end]
  <1>2. sel \in Mouse /\ sel.start \in Place /\ sel.end \in Place
    BY DEF State, GoodMarks, Mouse
  <1>3. ASSUME NEW p \in Place PROVE [p EXCEPT ![axis] = @ + step] \in Place
    <2>1. p[1] \in Int /\ p[2] \in Int /\ p = <<p[1], p[2]>> /\ step \in Int
      BY Corners
    <2>2. CASE axis = 1
      <3>1. [p EXCEPT ![axis] = @ + step] = <<p[1] + step, p[2]>>
        BY <2>1, <2>2
      <3> QED BY <2>1, <3>1 DEF Place
    <2>3. CASE axis = 2
      <3>1. [p EXCEPT ![axis] = @ + step] = <<p[1], p[2] + step>>
        BY <2>1, <2>3
      <3> QED BY <2>1, <3>1 DEF Place
    <2> QED BY <2>2, <2>3
  <1>4. start \in Place /\ end \in Place
    BY <1>2, <1>3
  <1>5. sel' = Selected!reselect(s)
    BY <1>1, <1>2 DEF Mouse
  <1> HIDE DEF start, end
  <1>6. s \in Mouse
    BY <1>2, <1>4 DEF Mouse
  <1> HIDE DEF s
  <1>7. GoodMarks(sel') /\ sel'.mode = Selected!Chosen(s)
    BY <1>5, <1>6, Reselected
  <1> QED BY <1>7, ShapeKept DEF Selected!Chosen

(* ... and so do selecting all,                                               *)
LEMMA SelectingAll ==
    ASSUME SelectionAssumption, State, Selected!selectall
    PROVE  GoodMarks(sel') /\ Shape(sel', sel)
  <1> DEFINE new == Selected!SetSelection(sel, TRUE)
  <1>1. new \in Mouse /\ Outlined(new.cells)
    BY AllSet DEF State, GoodMarks
  <1>2. sel' = Selected!SetSelectionMode(new, Selected!Chosen(sel))
    BY DEF Selected!selectall, Selected!Becomes
  <1> HIDE DEF new
  <1>3. Selected!Chosen(sel) \in {"rectangle", "text"} /\ Selected!Chosen(sel) \in Selected!Mode
    BY DEF Selected!Chosen, Selected!Mode
  <1>4. sel' \in Mouse /\ sel'.cells = new.cells /\ sel'.mode = Selected!Chosen(sel)
    BY <1>1, <1>2, <1>3, ModeSet
  <1>5. GoodMarks(sel')
    BY <1>1, <1>3, <1>4 DEF GoodMarks
  <1> QED BY <1>3, <1>4, <1>5, ShapeKept

(* ... the word or the field at the cursor,                                   *)
LEMMA SelectingAtCursor ==
    ASSUME SelectionAssumption, State, Selected!SelectAtCursor
    PROVE  GoodMarks(sel') /\ Shape(sel', sel)
  <1>1. /\ sel.cursor \in Selected!Addr
        /\ sel' \in Selected!selectword(sel) \/ sel' \in Selected!selectfield(sel)
    BY DEF Selected!SelectAtCursor, Selected!Becomes
  <1>2. GoodMarks(sel') /\ (sel'.mode \in {"field", "word"} \/ SameCorners(sel', sel))
    BY <1>1, FieldSelected, WordSelected DEF State
  <1> QED BY <1>2, ShapeKept DEF SameCorners

(* ... and the end of a selection, its repetition and the setting for         *)
(* rectangles.                                                                *)
LEMMA OtherSelections ==
    ASSUME SelectionAssumption, State,
           Selected!Reselect \/ Selected!Unselect \/ Selected!set_rectangle_select
    PROVE  GoodMarks(sel') /\ Shape(sel', sel)
  <1>1. CASE Selected!Reselect
    <2>1. sel' = Selected!reselect(sel) /\ sel.mode = "none"
      BY <1>1 DEF Selected!Reselect, Selected!Becomes
    <2>2. GoodMarks(sel')
      BY <2>1, Reselected DEF State, GoodMarks
    <2> QED BY <2>1, <2>2 DEF Shape
  <1>2. CASE Selected!Unselect
    <2>1. sel' = Selected!unselect(sel)
      BY <1>2 DEF Selected!Unselect, Selected!Becomes
    <2> QED BY <2>1, Unselected, ShapeKept DEF State
  <1>3. CASE Selected!set_rectangle_select
    <2> DEFINE s == [sel EXCEPT !.rect = ~@]
    <2>1. sel' = IF s.mode \in {"rectangle", "text"} THEN Selected!reselect(Selected!unselect(s)) ELSE s
      BY <1>3 DEF Selected!set_rectangle_select, Selected!Becomes
    <2>2. /\ s \in Mouse /\ s.cells = sel.cells /\ s.start = sel.start /\ s.end = sel.end
          /\ s.mode = sel.mode
      BY DEF State, GoodMarks, Mouse
    <2> HIDE DEF s
    <2>3. GoodMarks(s)
      BY <2>2, MarksKept DEF State
    <2>4. CASE s.mode \in {"rectangle", "text"}
      <3> DEFINE u == Selected!unselect(s)
      <3>1. u \in Mouse
        BY <2>3, Unselected DEF GoodMarks
      <3> HIDE DEF u
      <3>2. sel' = Selected!reselect(u)
        BY <2>1, <2>4 DEF u
      <3>3. GoodMarks(sel') /\ sel'.mode = Selected!Chosen(u)
        BY <3>1, <3>2, Reselected
      <3> QED BY <3>3, ShapeKept DEF Selected!Chosen
    <2>5. CASE ~(s.mode \in {"rectangle", "text"})
      BY <2>1, <2>2, <2>3, <2>5, ShapeKept
    <2> QED BY <2>4, <2>5
  <1> QED BY <1>1, <1>2, <1>3

-----------------------------------------------------------------------------
(* A good state is outlined.                                                  *)
LEMMA GoodOutlined ==
    ASSUME SelectionAssumption, GoodMarks(sel)
    PROVE  Selected!SelectionOutlined
  <1>1. sel \in Mouse
    BY DEF GoodMarks
  <1>2. sel.mode \in Selected!Mode /\ sel.type \in Selected!DragType
    BY <1>1 DEF Mouse
  <1>3. sel.mode = "none" => Selected!Marked(sel.cells) = {}
    BY PlainOutlined DEF GoodMarks
  <1>4. ASSUME Selected!OnScreen(sel.start), Selected!OnScreen(sel.end), NEW a \in Selected!Addr
        PROVE  sel.cells[a] = IF a \notin Selected!Marked(sel.cells) THEN {}
                 ELSE {"selected"} \cup
                      {d \in Selected!Side : Selected!Neighbour(a, d) \notin Selected!Marked(sel.cells)}
    <2>1. PICK S \in SUBSET Selected!Addr : sel.cells = Bordered(S)
      BY <1>4 DEF GoodMarks, Outlined
    <2>2. Selected!Marked(sel.cells) = S
      BY <2>1, BorderedMarks
    <2> QED BY <2>1, <2>2 DEF Bordered
  <1> QED BY <1>2, <1>3, <1>4 DEF Selected!SelectionOutlined

(* Whatever is selected and however it was (mouse.c, selection.c), by the     *)
(* pointer, by keys or by an action, the border runs around exactly what is   *)
(* marked, nothing stays marked without a selection, and what is dragged      *)
(* keeps its shape: for every screen, pointer and size.                       *)
THEOREM SelectionFollowsPointer ==
    ASSUME SelectionAssumption
    PROVE  Selected!Spec => SelectionKept
  <1>1. Selected!Init => State
    <2> SUFFICES ASSUME Selected!Init PROVE State
      OBVIOUS
    <2>1. text \in Texts
      BY DEF Selected!Init
    <2>2. sel \in Mouse /\ sel.cells = Selected!Plain
      <3>1. Selected!Plain \in Cells
        BY PlainOutlined
      <3>2. <<-1, 0>> \in Place /\ <<0, 0>> \in Place
        BY DEF Place
      <3> QED BY <3>1, <3>2 DEF Selected!Init, Mouse, Selected!Mode, Selected!DragType
    <2> QED BY <2>1, <2>2, Bare DEF State
  <1>2. ASSUME State, [Selected!Next]_(Selected!vars) PROVE State' /\ Shape(sel', sel)
    <2>1. CASE Selected!Next
      <3>1. text' = text
        BY <2>1 DEF Selected!Next, Selected!mouse_button_press, Selected!mouse_double_press,
           Selected!mouse_copy_press, Selected!mouse_button_release, Selected!Stretch,
              Selected!Hover,
           Selected!Drag, Selected!doSelect, Selected!MoveSelection, Selected!selectall,
           Selected!SelectAtCursor, Selected!Reselect, Selected!Unselect,
           Selected!set_rectangle_select, Selected!Becomes
      <3>2. GoodMarks(sel') /\ Shape(sel', sel)
        BY <1>2, <2>1, ButtonPress, DoublePress, CopyPress, ButtonRelease, Stretching, Hovering,
           Dragging, Selecting, Moving, SelectingAll, SelectingAtCursor, OtherSelections DEF Selected!Next
      <3> QED BY <1>2, <3>1, <3>2 DEF State
    <2>2. CASE UNCHANGED Selected!vars
      BY <1>2, <2>2, ShapeKept DEF State, Selected!vars
    <2> QED BY <1>2, <2>1, <2>2
  <1>3. State => Selected!SelectionOutlined
    BY GoodOutlined DEF State
  <1>4. Selected!Spec => []State
    BY <1>1, <1>2, PTL DEF Selected!Spec
  <1>5. Selected!Spec => Selected!DragKeepsShape
    <2>1. ASSUME State, [Selected!Next]_(Selected!vars)
          PROVE [sel.mode = "drag" /\ sel'.mode = "drag" /\ Selected!Ordered(sel) =>
                  /\ Selected!Ordered(sel')
                  /\ sel.type = {"inside"} /\ Selected!OnScreen(sel.start) /\ Selected!OnScreen(sel.end) =>
                       /\ Selected!Size(sel') = Selected!Size(sel)
                       /\ Selected!OnScreen(sel'.start) /\ Selected!OnScreen(sel'.end)]_(Selected!vars)
      BY <1>2, <2>1 DEF Shape
    <2> QED BY <1>4, <2>1, PTL DEF Selected!Spec, Selected!DragKeepsShape
  <1> QED BY <1>3, <1>4, <1>5, PTL DEF SelectionKept, Selected!SelectionKept

-----------------------------------------------------------------------------
(* The contents of the window. *)

Sizes == Models \cup Oversizes \cup {Standard}

Kept == {"null", "a", "A", "field", "hidden"}

(* What division leaves.                                                      *)
LEMMA Divided ==
    ASSUME NEW n \in Nat \ {0}, NEW a \in Nat
    PROVE  a \div n \in Nat /\ a % n \in 0 .. n - 1 /\ a = n * (a \div n) + (a % n)
  <1>1. a \div n \in Int /\ a % n \in 0 .. n - 1 /\ a = n * (a \div n) + (a % n)
    OBVIOUS
  <1> QED BY <1>1, Division

(* A position of a part of the window is one of the window.                   *)
LEMMA PlaceInside ==
    ASSUME NEW size \in (Nat \ {0}) \X (Nat \ {0}), NEW all \in (Nat \ {0}) \X (Nat \ {0}),
           Display!Fits(size, all)
    PROVE  /\ \A x \in Display!Area(size) : Display!Place(x, size, all) \in Display!Area(all)
           /\ Display!Places(size, all) \subseteq Display!Area(all)
           /\ 0 \in Display!Area(size) /\ Display!Place(0, size, all) = 0
  <1> DEFINE h == size[1]  n == size[2]  H == all[1]  W == all[2]
  <1>1. /\ h \in Nat \ {0} /\ n \in Nat \ {0} /\ H \in Nat \ {0} /\ W \in Nat \ {0}
        /\ h <= H /\ n <= W
    BY DEF Display!Fits
  <1>2. ASSUME NEW x \in Display!Area(size) PROVE Display!Place(x, size, all) \in Display!Area(all)
    <2> DEFINE q == x \div n  r == x % n
    <2>1. x \in Nat /\ x < h * n
      BY <1>1 DEF Display!Area
    <2>2. q \in Nat /\ r \in 0 .. n - 1 /\ x = n * q + r
      BY <1>1, <2>1, Divided
    <2>3. q \in Nat
      BY <2>2
    <2>4. Display!Place(x, size, all) = q * W + r
      BY DEF Display!Place
    <2>5. Display!Area(all) = 0 .. H * W - 1
      BY DEF Display!Area
    <2> HIDE DEF q, r, h, n, H, W
    <2>6. q <= h - 1
      <3>1. SUFFICES ASSUME q >= h PROVE FALSE
        BY <1>1, <2>3
      <3>2. n * q >= n * h
        BY <1>1, <2>3, <3>1
      <3> QED BY <1>1, <2>1, <2>2, <3>2
    <2>7. q * W + W <= H * W
      <3>1. q + 1 <= H /\ q + 1 \in Nat
        BY <1>1, <2>3, <2>6
      <3>2. (q + 1) * W <= H * W
        BY <1>1, <3>1
      <3> QED BY <1>1, <2>3, <3>2
    <2>8. q * W \in Nat /\ H * W \in Nat
      BY <1>1, <2>3
    <2> QED BY <1>1, <2>2, <2>4, <2>5, <2>7, <2>8
  <1>3. 0 \in Display!Area(size) /\ Display!Place(0, size, all) = 0
    <2>1. h * n \in Nat /\ h * n >= 1
      BY <1>1
    <2>2. 0 \div n = 0 /\ 0 % n = 0
      BY <1>1
    <2> QED BY <1>1, <2>1, <2>2 DEF Display!Area, Display!Place
  <1> QED BY <1>2, <1>3 DEF Display!Places

(* The window as a whole is all of its positions.                             *)
LEMMA PlacesOfAll ==
    ASSUME NEW all \in (Nat \ {0}) \X (Nat \ {0})
    PROVE  Display!Places(all, all) = Display!Area(all)
  <1> DEFINE H == all[1]  W == all[2]
  <1>1. H \in Nat \ {0} /\ W \in Nat \ {0}
    OBVIOUS
  <1>2. ASSUME NEW x \in Display!Area(all) PROVE Display!Place(x, all, all) = x
    <2>1. x \in Nat
      BY <1>1 DEF Display!Area
    <2>2. Display!Place(x, all, all) = (x \div W) * W + (x % W)
      BY DEF Display!Place
    <2> HIDE DEF H, W
    <2>3. x \div W \in Nat /\ x % W \in 0 .. W - 1 /\ x = W * (x \div W) + (x % W)
      BY <1>1, <2>1, Divided
    <2> QED BY <1>1, <2>2, <2>3
  <1> QED BY <1>2 DEF Display!Places

-----------------------------------------------------------------------------
(* What a window holds. *)

Contents == UNION {[Display!Area(m) -> Display!Shown] : m \in Sizes}

WindowType ==
    [model : Models, ov : Oversizes \cup {Display!NoOversize}, max : Models \cup Oversizes,
     size : Sizes, alt : BOOLEAN, cursor : Nat,
     ea : [0 .. Display!Largest - 1 -> Kept], upper : BOOLEAN, view : Sizes,
     content : Contents, changed : SUBSET Nat, gcursor : Nat,
     pix : Contents \cup {Display!NoPixmap}, enabled : BOOLEAN]

Used(s) == Display!Places(s.size, s.max)

(* The size of the window is that of the model, or the oversize.              *)
Sized(s) ==
    /\ s \in WindowType
    /\ s.max = IF s.ov = Display!NoOversize THEN s.model ELSE s.ov
    /\ s.ov # Display!NoOversize => Display!Fits(s.model, s.ov)
    /\ s.content \in [Display!Area(s.max) -> Display!Shown]

(* What is pending is in the part in use, and what is outside of it is blank. *)
Held(s) ==
    /\ Sized(s)
    /\ Display!Fits(s.size, s.max)
    /\ s.changed \subseteq Used(s)
    /\ \A x \in Display!Area(s.max) \ Used(s) : s.content[x] = "blank"
    /\ s.cursor \in Display!Area(s.size)
    /\ s.gcursor = Display!Place(s.cursor, s.size, s.max)

Viewed(s) == s.view \in {s.size, s.max} /\ (s.ov = Display!NoOversize => s.view = s.size)

Seen(s) ==
    s.pix # Display!NoPixmap =>
        /\ s.pix \in [Display!Area(s.max) -> Display!Shown]
        /\ s.enabled => \A x \in Display!Area(s.max) : x \in s.changed \/ s.pix[x] = s.content[x]

GoodWindow(s) == Held(s) /\ Viewed(s) /\ Seen(s)

(* The sizes of a window have rows and columns.                               *)
LEMMA SizesOf ==
    ASSUME WindowAssumption, NEW s, Sized(s)
    PROVE  /\ s.max \in (Nat \ {0}) \X (Nat \ {0}) /\ s.size \in (Nat \ {0}) \X (Nat \ {0})
           /\ s.max \in Sizes /\ Display!Area(s.max) \subseteq Nat /\ 0 \in Display!Area(s.max)
           /\ s.max # Display!NoOversize
  <1>1. /\ s.max \in (Nat \ {0}) \X (Nat \ {0}) /\ s.size \in (Nat \ {0}) \X (Nat \ {0})
        /\ s.max \in Sizes
    BY DEF Sized, WindowType, Sizes, WindowAssumption
  <1>2. s.max[1] * s.max[2] \in Nat /\ s.max[1] * s.max[2] >= 1 /\ s.max[1] # 0
    BY <1>1
  <1> QED BY <1>1, <1>2 DEF Display!Area, Display!NoOversize

(* What is of the size of the window is a content, and no missing pixmap.     *)
LEMMA Painted ==
    ASSUME WindowAssumption, NEW s, Sized(s), NEW f \in [Display!Area(s.max) -> Display!Shown]
    PROVE  f \in Contents /\ f # Display!NoPixmap
  <1>1. s.max \in Sizes /\ 0 \in Display!Area(s.max)
    BY SizesOf
  <1>2. f \in Contents
    BY <1>1 DEF Contents
  <1>3. DOMAIN f # {} /\ DOMAIN Display!NoPixmap = {}
    BY <1>1 DEF Display!NoPixmap
  <1> QED BY <1>2, <1>3

(* redraw paints all that is kept.                                            *)
LEMMA Redrawn ==
    ASSUME WindowAssumption, NEW s, Held(s), Viewed(s)
    PROVE  /\ GoodWindow(Display!redraw(s))
           /\ Display!update_terminal_contents(s) = [s EXCEPT !.pix = s.content]
           /\ GoodWindow(Display!update_terminal_contents(s))
           /\ Display!redraw(s).cursor = s.cursor
           /\ Display!update_terminal_contents(s).cursor = s.cursor
  <1> DEFINE r == [s EXCEPT !.pix = s.content]
  <1>1. s \in WindowType /\ s.content \in [Display!Area(s.max) -> Display!Shown] /\ s.content \in Contents
    BY Painted DEF Held, Sized
  <1>2. /\ r \in WindowType /\ r.pix = s.content /\ r.content = s.content /\ r.max = s.max
        /\ r.cursor = s.cursor
    BY <1>1 DEF WindowType
  <1>3. Held(r) /\ Viewed(r)
    BY <1>1, <1>2 DEF Held, Sized, Viewed, Used, WindowType
  <1>4. Seen(r)
    BY <1>1, <1>2 DEF Seen
  <1>5. s.pix = Display!NoPixmap => Seen(s)
    BY DEF Seen
  <1> QED
    BY <1>2, <1>3, <1>4, <1>5 DEF GoodWindow, Display!redraw, Display!update_terminal_contents

(* What display and the updates leave alone.                                  *)
SameSize(r, s) ==
    /\ r.model = s.model /\ r.ov = s.ov /\ r.max = s.max /\ r.size = s.size /\ r.view = s.view
    /\ r.cursor = s.cursor /\ r.gcursor = s.gcursor /\ r.alt = s.alt /\ r.enabled = s.enabled

(* display paints what is pending: that is all in view.                       *)
LEMMA Displaying ==
    ASSUME WindowAssumption, NEW s, GoodWindow(s), NEW r, r = Display!display(s)
    PROVE  GoodWindow(r) /\ SameSize(r, s)
  <1> DEFINE now == s.changed \cap Display!Places(s.view, s.max)
             pix == [x \in DOMAIN s.pix |-> IF x \in now THEN s.content[x] ELSE s.pix[x]]
  <1>1. CASE s.pix = Display!NoPixmap \/ ~s.enabled
    BY <1>1 DEF Display!display, SameSize
  <1>2. CASE ~(s.pix = Display!NoPixmap \/ ~s.enabled)
    <2>1. /\ s \in WindowType /\ s.content \in [Display!Area(s.max) -> Display!Shown]
          /\ s.pix \in [Display!Area(s.max) -> Display!Shown]
          /\ \A x \in Display!Area(s.max) : x \in s.changed \/ s.pix[x] = s.content[x]
      BY <1>2 DEF GoodWindow, Held, Sized, Seen
    <2>2. pix \in [Display!Area(s.max) -> Display!Shown]
      BY <2>1
    <2>3. pix \in Contents
      BY <2>2, Painted DEF GoodWindow, Held
    <2>4. r = [s EXCEPT !.pix = pix, !.changed = s.changed \ now]
      BY <1>2 DEF Display!display
    <2>5. \A x \in Display!Area(s.max) : x \in s.changed \ now \/ pix[x] = s.content[x]
      BY <2>1, <2>2
    <2> HIDE DEF pix, now
    <2>6. r \in WindowType /\ SameSize(r, s) /\ r.content = s.content /\ r.pix = pix /\ r.changed = s.changed \ now
      BY <2>1, <2>3, <2>4 DEF WindowType, SameSize
    <2>7. Held(r) /\ Viewed(r)
      BY <2>1, <2>6 DEF GoodWindow, Held, Sized, Viewed, Used, SameSize
    <2>8. Seen(r)
      BY <2>2, <2>5, <2>6 DEF Seen, SameSize
    <2> QED BY <2>6, <2>7, <2>8 DEF GoodWindow
  <1> QED BY <1>1, <1>2

(* screen_update marks what it changes.                                       *)
LEMMA Updating ==
    ASSUME WindowAssumption, NEW s, GoodWindow(s), NEW r, r = Display!screen_update(s)
    PROVE  GoodWindow(r) /\ SameSize(r, s)
  <1> DEFINE shown == [at \in DOMAIN s.content |->
                         IF at \in Used(s)
                         THEN Display!Displayed(s, Display!Position(at, s.size, s.max)) ELSE s.content[at]]
             new == {at \in DOMAIN shown : shown[at] # s.content[at]}
  <1>1. s \in WindowType /\ s.content \in [Display!Area(s.max) -> Display!Shown]
    BY DEF GoodWindow, Held, Sized
  <1>2. \A x : Display!Displayed(s, x) \in Display!Shown
    BY DEF Display!Displayed, Display!Shown
  <1>3. shown \in [Display!Area(s.max) -> Display!Shown]
    BY <1>1, <1>2
  <1>4. shown \in Contents
    BY <1>3, Painted DEF GoodWindow, Held
  <1>5. new \subseteq Used(s) /\ new \subseteq Display!Area(s.max)
    BY <1>1
  <1>6. new \subseteq Nat
    BY <1>5, SizesOf DEF GoodWindow, Held
  <1>7. r = [s EXCEPT !.content = shown, !.changed = s.changed \cup new]
    BY DEF Display!screen_update, Display!addch, Used
  <1>8. \A x \in Display!Area(s.max) : x \in new \/ shown[x] = s.content[x]
    BY <1>3
  <1>9. \A x \in Display!Area(s.max) \ Used(s) : shown[x] = s.content[x]
    BY <1>1
  <1> HIDE DEF shown, new
  <1>10. /\ r \in WindowType /\ SameSize(r, s) /\ r.content = shown /\ r.changed = s.changed \cup new
         /\ r.pix = s.pix
    BY <1>1, <1>4, <1>6, <1>7 DEF WindowType, SameSize
  <1>11. Held(r) /\ Viewed(r)
    BY <1>3, <1>5, <1>9, <1>10 DEF GoodWindow, Held, Sized, Viewed, Used, SameSize
  <1>12. Seen(r)
    BY <1>8, <1>10 DEF GoodWindow, Seen, SameSize
  <1> QED BY <1>10, <1>11, <1>12 DEF GoodWindow

(* ... and screen_disp does both.                                             *)
LEMMA ScreenDisplayed ==
    ASSUME WindowAssumption, NEW s, GoodWindow(s), NEW r, r = Display!screen_disp(s)
    PROVE  GoodWindow(r) /\ SameSize(r, s)
  <1> DEFINE u == Display!screen_update(s)
  <1>1. GoodWindow(u) /\ SameSize(u, s)
    BY Updating
  <1>2. r = Display!display(u)
    BY DEF Display!screen_disp
  <1> HIDE DEF u
  <1> QED BY <1>1, <1>2, Displaying DEF SameSize

(* Only the buffer changes.                                                   *)
LEMMA BufferWritten ==
    ASSUME WindowAssumption, NEW s, GoodWindow(s), NEW e \in [0 .. Display!Largest - 1 -> Kept],
           NEW r, r = [s EXCEPT !.ea = e]
    PROVE  GoodWindow(r) /\ SameSize(r, s)
  <1>1. s \in WindowType
    BY DEF GoodWindow, Held, Sized
  <1>2. /\ r \in WindowType /\ SameSize(r, s) /\ r.content = s.content /\ r.changed = s.changed
        /\ r.pix = s.pix
    BY <1>1 DEF WindowType, SameSize
  <1> QED
    BY <1>1, <1>2 DEF GoodWindow, Held, Sized, Viewed, Seen, Used, SameSize

(* The positions in use are positions of the window.                          *)
LEMMA UsedInside ==
    ASSUME WindowAssumption, NEW s, Sized(s), Display!Fits(s.size, s.max)
    PROVE  /\ \A x \in Display!Area(s.size) : Display!Place(x, s.size, s.max) \in Display!Area(s.max)
           /\ Used(s) \subseteq Display!Area(s.max)
           /\ 0 \in Display!Area(s.size) /\ Display!Place(0, s.size, s.max) = 0
           /\ Display!Area(s.size) \subseteq Nat
  <1>1. /\ s.max \in (Nat \ {0}) \X (Nat \ {0}) /\ s.size \in (Nat \ {0}) \X (Nat \ {0})
    BY SizesOf
  <1>2. Display!Area(s.size) \subseteq Nat
    BY <1>1 DEF Display!Area
  <1> QED BY <1>1, <1>2, PlaceInside DEF Used

(* The cursor moves in both.                                                  *)
LEMMA CursorPlaced ==
    ASSUME WindowAssumption, NEW s, GoodWindow(s), NEW a \in Display!Area(s.size),
           NEW r, r = Display!update_cursor_position(s, a)
    PROVE  /\ GoodWindow(r) /\ r.cursor = a
           /\ r.model = s.model /\ r.ov = s.ov /\ r.max = s.max /\ r.size = s.size /\ r.view = s.view
           /\ r.alt = s.alt
  <1> DEFINE g == Display!Place(a, s.size, s.max)
  <1>1. s \in WindowType /\ s.gcursor = Display!Place(s.cursor, s.size, s.max)
    BY DEF GoodWindow, Held, Sized
  <1>2. a \in Nat /\ g \in Nat
    BY UsedInside, SizesOf DEF GoodWindow, Held
  <1>3. r = [s EXCEPT !.cursor = a, !.gcursor = g]
    BY <1>1 DEF Display!update_cursor_position
  <1> HIDE DEF g
  <1>4. /\ r \in WindowType /\ r.cursor = a /\ r.gcursor = g /\ r.content = s.content
        /\ r.changed = s.changed /\ r.pix = s.pix /\ r.enabled = s.enabled
        /\ r.model = s.model /\ r.ov = s.ov /\ r.max = s.max /\ r.size = s.size /\ r.view = s.view
        /\ r.alt = s.alt
    BY <1>1, <1>2, <1>3 DEF WindowType
  <1>5. Held(r)
    BY <1>4 DEF GoodWindow, Held, Sized, Used, g
  <1>6. Viewed(r) /\ Seen(r)
    BY <1>4 DEF GoodWindow, Viewed, Seen
  <1> QED BY <1>4, <1>5, <1>6 DEF GoodWindow

(* Erasing paints what is in view; the rest was blank and not pending.        *)
LEMMA Erased ==
    ASSUME WindowAssumption, NEW s, GoodWindow(s), NEW r, r = Display!erase(s)
    PROVE  /\ GoodWindow(r) /\ SameSize(r, s)
           /\ r.content = Display!Blanked(s.max) /\ r.changed = {}
  <1> DEFINE blank == Display!Blanked(s.max)
             view == Display!Places(s.view, s.max)
             pix == IF s.pix = Display!NoPixmap \/ ~s.enabled THEN s.pix
                    ELSE [x \in DOMAIN s.pix |-> IF x \in view THEN "blank" ELSE s.pix[x]]
  <1>1. s \in WindowType /\ Sized(s)
    BY DEF GoodWindow, Held, Sized
  <1>2. blank \in [Display!Area(s.max) -> Display!Shown] /\ \A x \in Display!Area(s.max) : blank[x] = "blank"
    BY DEF Display!Blanked, Display!Shown
  <1>3. blank \in Contents
    BY <1>1, <1>2, Painted
  <1>4. r = [s EXCEPT !.content = blank, !.changed = {}, !.pix = pix]
    BY DEF Display!erase
  <1>5. s.pix # Display!NoPixmap =>
          /\ pix \in [Display!Area(s.max) -> Display!Shown]
          /\ s.enabled => \A x \in Display!Area(s.max) : pix[x] = "blank"
    <2>1. SUFFICES ASSUME s.pix # Display!NoPixmap
                   PROVE  /\ pix \in [Display!Area(s.max) -> Display!Shown]
                          /\ s.enabled => \A x \in Display!Area(s.max) : pix[x] = "blank"
      OBVIOUS
    <2>2. s.pix \in [Display!Area(s.max) -> Display!Shown]
      BY <2>1 DEF GoodWindow, Seen
    <2>3. pix \in [Display!Area(s.max) -> Display!Shown]
      BY <2>2 DEF Display!Shown
    <2>4. ASSUME s.enabled, NEW x \in Display!Area(s.max) PROVE pix[x] = "blank"
      <3>1. CASE x \in view
        BY <2>1, <2>2, <2>4, <3>1
      <3>2. CASE x \notin view
        <4>1. x \notin Used(s)
          <5>1. Display!Places(s.max, s.max) = Display!Area(s.max)
            BY <1>1, SizesOf, PlacesOfAll
          <5>2. s.view = s.size
            BY <3>2, <5>1 DEF GoodWindow, Viewed
          <5> QED BY <3>2, <5>2 DEF Used
        <4>2. s.content[x] = "blank" /\ x \notin s.changed
          BY <4>1 DEF GoodWindow, Held
        <4>3. s.pix[x] = "blank"
          BY <2>1, <2>4, <4>2 DEF GoodWindow, Seen
        <4> QED BY <2>1, <2>2, <2>4, <3>2, <4>3
      <3> QED BY <3>1, <3>2
    <2> QED BY <2>3, <2>4
  <1>6. pix \in Contents \cup {Display!NoPixmap} /\ (s.pix = Display!NoPixmap => pix = Display!NoPixmap)
    BY <1>1, <1>5, Painted
  <1> HIDE DEF blank, pix
  <1>7. /\ r \in WindowType /\ SameSize(r, s) /\ r.content = blank /\ r.changed = {} /\ r.pix = pix
    BY <1>1, <1>3, <1>4, <1>6 DEF WindowType, SameSize
  <1>8. Held(r) /\ Viewed(r)
    BY <1>2, <1>7 DEF GoodWindow, Held, Sized, Viewed, Used, SameSize
  <1>9. Seen(r)
    BY <1>2, <1>5, <1>6, <1>7 DEF Seen, SameSize
  <1> QED BY <1>7, <1>8, <1>9 DEF GoodWindow, blank

(* What ctlr_clear leaves.                                                    *)
LEMMA WindowCleared ==
    ASSUME WindowAssumption, NEW s, GoodWindow(s), NEW r, r = Display!ctlr_clear(s)
    PROVE  /\ GoodWindow(r) /\ r.cursor = 0
           /\ r.model = s.model /\ r.ov = s.ov /\ r.max = s.max /\ r.size = s.size /\ r.view = s.view
           /\ r.alt = s.alt /\ r.content = Display!Blanked(r.max) /\ r.changed = {}
  <1> DEFINE e == [x \in DOMAIN s.ea |-> IF x \in Display!Area(s.size) THEN "null" ELSE s.ea[x]]
             b == [s EXCEPT !.ea = e]
             c == Display!update_cursor_position(b, 0)
  <1>1. s.ea \in [0 .. Display!Largest - 1 -> Kept] /\ Sized(s) /\ Display!Fits(s.size, s.max)
    BY DEF GoodWindow, Held, Sized, WindowType
  <1>2. e \in [0 .. Display!Largest - 1 -> Kept]
    BY <1>1 DEF Kept
  <1> HIDE DEF e
  <1>3. GoodWindow(b) /\ SameSize(b, s)
    BY <1>2, BufferWritten
  <1>4. r = Display!erase(c)
    BY DEF Display!ctlr_clear, e
  <1> HIDE DEF b
  <1>5. 0 \in Display!Area(b.size)
    BY <1>1, <1>3, UsedInside DEF SameSize
  <1>6. /\ GoodWindow(c) /\ c.cursor = 0
        /\ c.model = b.model /\ c.ov = b.ov /\ c.max = b.max /\ c.size = b.size /\ c.view = b.view
        /\ c.alt = b.alt
    BY <1>3, <1>5, CursorPlaced
  <1> HIDE DEF c
  <1>7. GoodWindow(r) /\ SameSize(r, c) /\ r.content = Display!Blanked(c.max) /\ r.changed = {}
    BY <1>4, <1>6, Erased
  <1> QED BY <1>3, <1>6, <1>7 DEF SameSize

(* Every position of the window is in use once its whole size is; and with    *)
(* the window blank, a smaller part may be.                                   *)
LEMMA Resized ==
    ASSUME WindowAssumption, NEW s, GoodWindow(s), s.cursor = 0,
           NEW size \in Sizes, Display!Fits(size, s.max),
           size = s.max \/ (s.content = Display!Blanked(s.max) /\ s.changed = {}),
           NEW r, r = Display!set_viewsize(s, size)
    PROVE  GoodWindow(r) /\ r.cursor = 0
  <1> DEFINE u == [s EXCEPT !.size = size]
             v == [u EXCEPT !.view = size]
  <1>1. s \in WindowType /\ Sized(s) /\ Display!Fits(s.size, s.max) /\ s.gcursor = 0
    BY UsedInside DEF GoodWindow, Held, Sized
  <1>2. CASE size = s.size
    BY <1>2 DEF Display!set_viewsize
  <1>3. CASE size # s.size
    <2>1. r = Display!redraw(v)
      BY <1>1, <1>3 DEF Display!set_viewsize, Display!view_changed, WindowType
    <2>2. /\ v \in WindowType /\ v.size = size /\ v.view = size /\ v.max = s.max /\ v.model = s.model
          /\ v.ov = s.ov /\ v.content = s.content /\ v.changed = s.changed /\ v.cursor = 0
          /\ v.gcursor = 0
      BY <1>1 DEF WindowType
    <2>3. Sized(v)
      BY <1>1, <2>2 DEF Sized
    <2> HIDE DEF u, v
    <2>4. 0 \in Display!Area(size) /\ Display!Place(0, size, s.max) = 0
      BY <2>2, <2>3, UsedInside
    <2>5. v.changed \subseteq Used(v)
      <3>1. CASE size = s.max
        <4>1. Used(v) = Display!Area(s.max)
          BY <1>1, <2>2, <3>1, SizesOf, PlacesOfAll DEF Used
        <4>2. s.changed \subseteq Used(s) /\ Used(s) \subseteq Display!Area(s.max)
          BY <1>1, UsedInside DEF GoodWindow, Held
        <4> QED BY <2>2, <4>1, <4>2
      <3>2. CASE s.changed = {}
        BY <2>2, <3>2
      <3> QED BY <3>1, <3>2
    <2>6. \A x \in Display!Area(v.max) \ Used(v) : v.content[x] = "blank"
      <3>1. CASE size = s.max
        BY <1>1, <2>2, <3>1, SizesOf, PlacesOfAll DEF Used
      <3>2. CASE s.content = Display!Blanked(s.max)
        BY <2>2, <3>2 DEF Display!Blanked
      <3> QED BY <3>1, <3>2
    <2>7. Held(v)
      BY <2>2, <2>3, <2>4, <2>5, <2>6 DEF Held
    <2>8. Viewed(v)
      BY <2>2 DEF Viewed
    <2>9. GoodWindow(r) /\ r.cursor = 0
      <3>1. Display!update_terminal_contents(v).cursor = 0
        BY <2>2 DEF Display!update_terminal_contents, WindowType
      <3> QED BY <2>1, <2>2, <2>7, <2>8, <3>1, Redrawn DEF Display!redraw
    <2> QED BY <2>9
  <1> QED BY <1>2, <1>3

(* The flag of the alternate screen is of no account to the window.           *)
LEMMA Alternated ==
    ASSUME NEW s, GoodWindow(s), NEW alt \in BOOLEAN, NEW r, r = [s EXCEPT !.alt = alt]
    PROVE  GoodWindow(r) /\ r.cursor = s.cursor
  <1>1. s \in WindowType
    BY DEF GoodWindow, Held, Sized
  <1>2. /\ r \in WindowType /\ r.content = s.content /\ r.changed = s.changed
        /\ r.pix = s.pix /\ r.model = s.model /\ r.ov = s.ov /\ r.max = s.max /\ r.size = s.size
        /\ r.view = s.view /\ r.cursor = s.cursor /\ r.gcursor = s.gcursor /\ r.enabled = s.enabled
    BY <1>1 DEF WindowType
  <1> QED BY <1>1, <1>2 DEF GoodWindow, Held, Sized, Viewed, Seen, Used

(* The standard size is part of every window, and so is its model's.          *)
LEMMA ModelFits ==
    ASSUME WindowAssumption, NEW s, Sized(s)
    PROVE  Display!Fits(s.model, s.max) /\ Display!Fits(Standard, s.max) /\ Display!Fits(s.max, s.max)
  <1>1. s.model \in Models /\ s.model \in Sizes /\ s.max \in Sizes /\ Standard \in Sizes
    BY SizesOf DEF Sized, WindowType, Sizes
  <1>2. /\ s.model \in (Nat \ {0}) \X (Nat \ {0}) /\ s.max \in (Nat \ {0}) \X (Nat \ {0})
        /\ Standard \in (Nat \ {0}) \X (Nat \ {0})
    BY <1>1 DEF WindowAssumption, Sizes
  <1>3. Display!Fits(Standard, s.model)
    BY <1>1 DEF WindowAssumption, Sizes
  <1>4. Display!Fits(s.model, s.max)
    BY <1>2 DEF Sized, Display!Fits
  <1> QED BY <1>2, <1>3, <1>4 DEF Display!Fits

(* Erasing the screen, with its change between the standard size and all.     *)
LEMMA ScreenErased ==
    ASSUME WindowAssumption, NEW s, GoodWindow(s), NEW alt \in BOOLEAN,
           NEW r, r = Display!ctlr_erase(s, alt)
    PROVE  GoodWindow(r) /\ r.cursor = 0
  <1> DEFINE b == Display!ctlr_clear(s)
             d == Display!screen_disp(b)
             sized == CASE alt -> Display!set_viewsize(d, b.max)
                        [] ~alt /\ ~Display!Fits(b.max, Standard) -> Display!set_viewsize(b, Standard)
                        [] OTHER -> b
  <1>1. /\ GoodWindow(b) /\ b.cursor = 0 /\ b.content = Display!Blanked(b.max) /\ b.changed = {}
    BY WindowCleared
  <1>2. r = IF alt = s.alt THEN b ELSE [sized EXCEPT !.alt = alt]
    BY DEF Display!ctlr_erase
  <1> HIDE DEF b
  <1>3. GoodWindow(d) /\ SameSize(d, b)
    BY <1>1, ScreenDisplayed
  <1> HIDE DEF d
  <1>4. /\ b.max \in Sizes /\ Standard \in Sizes /\ Display!Fits(b.max, b.max)
        /\ Display!Fits(Standard, b.max)
    BY <1>1, SizesOf, ModelFits DEF Sizes, GoodWindow, Held
  <1>5. GoodWindow(sized) /\ sized.cursor = 0
    <2>1. CASE alt
      <3>1. sized = Display!set_viewsize(d, b.max)
        BY <2>1
      <3>2. d.max = b.max /\ d.cursor = 0
        BY <1>1, <1>3 DEF SameSize
      <3> QED BY <1>3, <1>4, <3>1, <3>2, Resized
    <2>2. CASE ~alt /\ ~Display!Fits(b.max, Standard)
      <3>1. sized = Display!set_viewsize(b, Standard)
        BY <2>2
      <3> QED BY <1>1, <1>4, <3>1, Resized
    <2>3. CASE ~alt /\ Display!Fits(b.max, Standard)
      BY <1>1, <2>3
    <2> QED BY <2>1, <2>2, <2>3
  <1> HIDE DEF sized
  <1> QED BY <1>1, <1>2, <1>5, Alternated

-----------------------------------------------------------------------------
(* The model. *)

(* A window that has just changed its size: all is blank, and painted.        *)
Fresh(s) ==
    /\ s \in WindowType
    /\ s.content = Display!Blanked(s.max) /\ s.changed = {} /\ s.view = s.max
    /\ s.pix # Display!NoPixmap => s.pix = s.content
    /\ s.cursor = 0 /\ s.gcursor = 0

(* What telling the window of a model leaves.                                 *)
LEMMA Remodelled ==
    ASSUME WindowAssumption, NEW s, s \in WindowType, s.cursor = 0, s.gcursor = 0,
           NEW model \in Models, NEW size \in Models \cup Oversizes,
           ~(s.model = model /\ s.max = size),
           NEW r, r = Display!update_model_info(s, model, size)
    PROVE  Fresh(r) /\ r.model = model /\ r.max = size /\ r.ov = s.ov
  <1> DEFINE blank == Display!Blanked(size)
             u == [s EXCEPT !.model = model, !.max = size]
             v == [u EXCEPT !.content = blank, !.changed = {}, !.view = size]
  <1>1. size \in Sizes /\ blank \in [Display!Area(size) -> Display!Shown]
    BY DEF Sizes, Display!Blanked, Display!Shown
  <1>2. blank \in Contents
    BY <1>1 DEF Contents
  <1>3. r = Display!redraw(v)
    BY DEF Display!update_model_info, Display!model_changed, WindowType
  <1> HIDE DEF blank
  <1>4. /\ v \in WindowType /\ v.model = model /\ v.max = size /\ v.ov = s.ov /\ v.content = blank
        /\ v.changed = {} /\ v.view = size /\ v.cursor = 0 /\ v.gcursor = 0
    BY <1>1, <1>2 DEF WindowType
  <1> HIDE DEF v
  <1>5. Display!update_terminal_contents(v) = [v EXCEPT !.pix = v.content]
    BY DEF Display!update_terminal_contents
  <1> DEFINE x == [v EXCEPT !.pix = v.content]
  <1>6. /\ x \in WindowType /\ x.model = model /\ x.max = size /\ x.ov = s.ov /\ x.content = blank
        /\ x.changed = {} /\ x.view = size /\ x.cursor = 0 /\ x.gcursor = 0 /\ x.pix = x.content
    BY <1>2, <1>4 DEF WindowType
  <1> HIDE DEF x
  <1>7. CASE v.pix = Display!NoPixmap
    BY <1>3, <1>4, <1>7 DEF Display!redraw, Fresh, blank
  <1>8. CASE v.pix # Display!NoPixmap
    <2>1. r = x
      BY <1>3, <1>5, <1>8 DEF Display!redraw, x
    <2> QED BY <1>6, <2>1 DEF Fresh, blank
  <1> QED BY <1>7, <1>8

(* The oversize that was asked for, once the window is told of it or not.     *)
LEMMA Oversized ==
    ASSUME NEW s, s \in WindowType, NEW ov \in Oversizes \cup {Display!NoOversize},
           NEW r, r = [s EXCEPT !.ov = ov]
    PROVE  /\ r \in WindowType /\ r.ov = ov /\ r.model = s.model /\ r.max = s.max /\ r.size = s.size
           /\ r.view = s.view /\ r.content = s.content /\ r.changed = s.changed /\ r.cursor = s.cursor
           /\ r.gcursor = s.gcursor /\ r.pix = s.pix /\ r.alt = s.alt /\ r.enabled = s.enabled
           /\ Fresh(s) => Fresh(r)
  <1>1. /\ r \in WindowType /\ r.ov = ov /\ r.model = s.model /\ r.max = s.max /\ r.size = s.size
        /\ r.view = s.view /\ r.content = s.content /\ r.changed = s.changed /\ r.cursor = s.cursor
        /\ r.gcursor = s.gcursor /\ r.pix = s.pix /\ r.alt = s.alt /\ r.enabled = s.enabled
    BY DEF WindowType
  <1> QED BY <1>1 DEF Fresh

(* The part in use becomes the model: of a fresh window, ...                  *)
LEMMA FreshSized ==
    ASSUME WindowAssumption, NEW s, Fresh(s),
           s.max = IF s.ov = Display!NoOversize THEN s.model ELSE s.ov,
           s.ov # Display!NoOversize => Display!Fits(s.model, s.ov),
           NEW r, r = Display!set_viewsize(s, s.model)
    PROVE  GoodWindow(r) /\ r.cursor = 0
  <1> DEFINE u == [s EXCEPT !.size = s.model]
             v == [u EXCEPT !.view = s.model]
  <1>1. s \in WindowType /\ s.content \in [Display!Area(s.max) -> Display!Shown]
    BY DEF Fresh, Display!Blanked, Display!Shown
  <1>2. Sized(s)
    BY <1>1 DEF Sized
  <1>3. s.model \in Sizes /\ Display!Fits(s.model, s.max)
    BY <1>1, <1>2, ModelFits DEF WindowType, Sizes
  <1>4. CASE s.model = s.size
    <2>1. r = s
      BY <1>4 DEF Display!set_viewsize
    <2>2. Held(s)
      BY <1>2, <1>3, <1>4, UsedInside DEF Held, Fresh, Display!Blanked
    <2>3. Viewed(s) /\ Seen(s)
      BY <1>1, <1>4 DEF Fresh, Viewed, Seen
    <2> QED BY <2>1, <2>2, <2>3 DEF GoodWindow, Fresh
  <1>5. CASE s.model # s.size
    <2>1. r = Display!redraw(v)
      BY <1>1, <1>3, <1>5 DEF Display!set_viewsize, Display!view_changed, WindowType
    <2>2. /\ v \in WindowType /\ v.size = s.model /\ v.view = s.model /\ v.max = s.max
          /\ v.model = s.model /\ v.ov = s.ov /\ v.content = s.content /\ v.changed = {}
          /\ v.cursor = 0 /\ v.gcursor = 0
      BY <1>1, <1>3 DEF WindowType, Fresh
    <2> HIDE DEF v
    <2>3. Sized(v)
      BY <1>2, <2>2 DEF Sized
    <2>4. Held(v)
      BY <1>3, <2>2, <2>3, UsedInside DEF Held, Fresh, Display!Blanked
    <2>5. Viewed(v)
      BY <2>2 DEF Viewed
    <2> QED BY <2>1, <2>2, <2>4, <2>5, Redrawn
  <1> QED BY <1>4, <1>5

(* ... and of one that had that model before.                                 *)
LEMMA SameSized ==
    ASSUME WindowAssumption, NEW s, GoodWindow(s), s.cursor = 0, s.max = s.model,
           NEW ov \in {Display!NoOversize, s.model}, ov \in Oversizes \cup {Display!NoOversize},
           NEW l, l = [[s EXCEPT !.ov = ov] EXCEPT !.alt = FALSE],
           NEW r, r = Display!set_viewsize(l, s.model)
    PROVE  GoodWindow(r) /\ r.cursor = 0
  <1>1. s \in WindowType /\ Sized(s) /\ s.model \in Sizes /\ Display!Fits(s.model, s.model)
    BY ModelFits DEF GoodWindow, Held, Sized, WindowType, Sizes
  <1>2. /\ l \in WindowType /\ l.ov = ov /\ l.model = s.model /\ l.max = s.max /\ l.size = s.size
        /\ l.view = s.view /\ l.content = s.content /\ l.changed = s.changed /\ l.cursor = s.cursor
        /\ l.gcursor = s.gcursor /\ l.pix = s.pix /\ l.enabled = s.enabled
    BY <1>1 DEF WindowType
  <1>3. Held(l) /\ Seen(l)
    BY <1>1, <1>2 DEF GoodWindow, Held, Sized, Seen, Used
  <1>4. CASE s.size = s.model
    <2>1. r = l
      BY <1>2, <1>4 DEF Display!set_viewsize
    <2>2. Viewed(l)
      BY <1>2, <1>4 DEF GoodWindow, Viewed
    <2> QED BY <1>2, <1>3, <2>1, <2>2 DEF GoodWindow
  <1>5. CASE s.size # s.model
    <2> DEFINE v == [[l EXCEPT !.size = s.model] EXCEPT !.view = s.model]
    <2>1. r = Display!redraw(v)
      BY <1>1, <1>2, <1>5 DEF Display!set_viewsize, Display!view_changed, WindowType
    <2>2. /\ v \in WindowType /\ v.size = s.model /\ v.view = s.model /\ v.max = s.max
          /\ v.model = s.model /\ v.ov = ov /\ v.content = s.content /\ v.changed = s.changed
          /\ v.cursor = 0 /\ v.gcursor = s.gcursor
      BY <1>1, <1>2 DEF WindowType
    <2> HIDE DEF v
    <2>3. Sized(v) /\ v.size = v.max
      BY <1>1, <1>3, <2>2 DEF Held, Sized
    <2>4. Used(v) = Display!Area(v.max)
      BY <1>1, <2>2, SizesOf, PlacesOfAll DEF Used
    <2>5. s.changed \subseteq Display!Area(s.max) /\ s.gcursor = 0
      BY <1>1, UsedInside DEF GoodWindow, Held
    <2>6. Held(v)
      BY <1>1, <2>2, <2>3, <2>4, <2>5, UsedInside DEF Held
    <2>7. Viewed(v)
      BY <2>2 DEF Viewed
    <2> QED BY <2>1, <2>2, <2>6, <2>7, Redrawn
  <1> QED BY <1>4, <1>5

(* Changing the model: the window is told of the model, then of the oversize, *)
(* and either may be what it has already.                                     *)
LEMMA RowsColsSet ==
    ASSUME WindowAssumption, NEW s, GoodWindow(s), s.cursor = 0, NEW model \in Models,
           NEW ov \in Oversizes \cup {Display!NoOversize},
           NEW r, r = Display!ctlr_set_rows_cols(s, model, ov)
    PROVE  GoodWindow(r) /\ r.cursor = 0
  <1> DEFINE told  == Display!update_model_info(s, model, model)
             plain == [told EXCEPT !.ov = Display!NoOversize]
             asked == ov # Display!NoOversize /\ Display!Fits(model, ov)
             wide  == [plain EXCEPT !.ov = ov]
             large == IF asked THEN Display!update_model_info(wide, model, ov) ELSE plain
             l     == [large EXCEPT !.alt = FALSE]
             kept  == s.model = model /\ s.max = model
  <1>1. r = Display!set_viewsize(l, model)
    BY DEF Display!ctlr_set_rows_cols
  <1>2. s \in WindowType /\ Sized(s) /\ s.gcursor = 0
    BY UsedInside DEF GoodWindow, Held, Sized
  <1>3. told \in WindowType /\ told.cursor = 0 /\ told.gcursor = 0 /\ told.model = model /\ told.max = model
        /\ (kept => told = s) /\ (~kept => Fresh(told))
    <2>1. CASE kept
      BY <1>2, <2>1 DEF Display!update_model_info
    <2>2. CASE ~kept
      <3>1. Fresh(told) /\ told.model = model /\ told.max = model
        BY <1>2, <2>2, Remodelled
      <3> QED BY <2>2, <3>1 DEF Fresh
    <2> QED BY <2>1, <2>2
  <1> HIDE DEF told
  <1>4. /\ plain \in WindowType /\ plain.cursor = 0 /\ plain.gcursor = 0 /\ plain.model = model
        /\ plain.max = model /\ plain.ov = Display!NoOversize /\ (~kept => Fresh(plain))
    BY <1>3, Oversized
  <1>5. kept => plain = [s EXCEPT !.ov = Display!NoOversize]
    BY <1>3
  <1> HIDE DEF plain
  <1>6. /\ wide \in WindowType /\ wide.cursor = 0 /\ wide.gcursor = 0 /\ wide.model = model
        /\ wide.max = model /\ wide.ov = ov /\ (~kept => Fresh(wide))
    BY <1>4, Oversized
  <1>7. kept => wide = [s EXCEPT !.ov = ov]
    BY <1>2, <1>5 DEF WindowType
  <1> HIDE DEF wide, kept
  <1>8. CASE asked /\ ov # model
    <2>1. large = Display!update_model_info(wide, model, ov) /\ ov \in Oversizes
      BY <1>8
    <2>2. Fresh(large) /\ large.model = model /\ large.max = ov /\ large.ov = ov
      BY <1>6, <1>8, <2>1, Remodelled
    <2> HIDE DEF large
    <2>3. Fresh(l) /\ l.model = model /\ l.max = ov /\ l.ov = ov
      BY <2>2 DEF Fresh, WindowType
    <2> QED BY <1>1, <1>8, <2>3, FreshSized
  <1>9. CASE asked /\ ov = model
    <2>1. large = wide
      BY <1>6, <1>9 DEF Display!update_model_info
    <2>2. CASE kept
      <3>1. l = [[s EXCEPT !.ov = ov] EXCEPT !.alt = FALSE]
        BY <1>7, <2>1, <2>2
      <3>2. s.model = model /\ s.max = s.model /\ ov \in {Display!NoOversize, s.model}
        BY <1>9, <2>2 DEF kept
      <3> HIDE DEF l
      <3> QED BY <1>1, <3>1, <3>2, SameSized
    <2>3. CASE ~kept
      <3>1. Fresh(l) /\ l.model = model /\ l.max = ov /\ l.ov = ov
        BY <1>6, <1>9, <2>1, <2>3 DEF Fresh, WindowType
      <3> QED BY <1>1, <1>9, <3>1, FreshSized
    <2> QED BY <2>2, <2>3
  <1>10. CASE ~asked
    <2>1. large = plain
      BY <1>10
    <2>2. CASE kept
      <3>1. l = [[s EXCEPT !.ov = Display!NoOversize] EXCEPT !.alt = FALSE]
        BY <1>5, <2>1, <2>2
      <3>2. s.model = model /\ s.max = s.model
        BY <2>2 DEF kept
      <3> HIDE DEF l
      <3> QED BY <1>1, <3>1, <3>2, SameSized
    <2>3. CASE ~kept
      <3>1. Fresh(l) /\ l.model = model /\ l.max = model /\ l.ov = Display!NoOversize
        BY <1>4, <2>1, <2>3 DEF Fresh, WindowType
      <3> QED BY <1>1, <3>1, FreshSized
    <2> QED BY <2>2, <2>3
  <1> QED BY <1>8, <1>9, <1>10

(* ... with the buffer cleared and the cursor home in the library alone.      *)
LEMMA ModelChanged ==
    ASSUME WindowAssumption, NEW s, GoodWindow(s), s.cursor = 0, NEW model \in Models,
           NEW r, r = Display!ctlr_reinit(Display!ctlr_set_rows_cols(s, model, s.ov))
    PROVE  GoodWindow(r) /\ r.cursor = 0
  <1> DEFINE b == Display!ctlr_set_rows_cols(s, model, s.ov)
             e == [x \in DOMAIN b.ea |-> "null"]
  <1>1. GoodWindow(b) /\ b.cursor = 0
    BY RowsColsSet DEF GoodWindow, Held, Sized, WindowType
  <1>2. r = [b EXCEPT !.ea = e, !.cursor = 0]
    BY DEF Display!ctlr_reinit
  <1> HIDE DEF b
  <1>3. b \in WindowType
    BY <1>1 DEF GoodWindow, Held, Sized
  <1>4. e \in [0 .. Display!Largest - 1 -> Kept]
    BY <1>3 DEF WindowType, Kept
  <1> HIDE DEF e
  <1>5. r = [b EXCEPT !.ea = e] /\ r.cursor = 0
    BY <1>1, <1>2, <1>3 DEF WindowType
  <1> QED BY <1>1, <1>4, <1>5, BufferWritten

-----------------------------------------------------------------------------
(* The other steps. *)

(* Suspending and resuming.                                                   *)
LEMMA Suspending ==
    ASSUME WindowAssumption, NEW s, GoodWindow(s), NEW suspended \in BOOLEAN,
           NEW r, r = Display!SetSuspended(s, suspended)
    PROVE  GoodWindow(r) /\ r.cursor = s.cursor
  <1> DEFINE b == [s EXCEPT !.enabled = ~suspended]
  <1>1. s \in WindowType
    BY DEF GoodWindow, Held, Sized
  <1>2. /\ b \in WindowType /\ b.enabled = ~suspended /\ b.content = s.content /\ b.changed = s.changed
        /\ b.pix = s.pix /\ b.model = s.model /\ b.ov = s.ov /\ b.max = s.max /\ b.size = s.size
        /\ b.view = s.view /\ b.cursor = s.cursor /\ b.gcursor = s.gcursor
    BY <1>1 DEF WindowType
  <1>3. Held(b) /\ Viewed(b)
    BY <1>2 DEF GoodWindow, Held, Sized, Used, Viewed
  <1>4. s.enabled = ~suspended \/ suspended => Seen(b)
    BY <1>2 DEF GoodWindow, Seen
  <1>5. r = IF s.enabled = ~suspended \/ suspended THEN b ELSE Display!redraw(b)
    BY DEF Display!SetSuspended
  <1> HIDE DEF b
  <1>6. GoodWindow(r)
    BY <1>3, <1>4, <1>5, Redrawn DEF GoodWindow
  <1>7. Display!update_terminal_contents(b).cursor = b.cursor
    BY <1>2 DEF Display!update_terminal_contents, WindowType
  <1> QED BY <1>2, <1>5, <1>6, <1>7 DEF Display!redraw

(* Resizing the window, and letters shown in one case.                        *)
LEMMA Exposing ==
    ASSUME WindowAssumption, NEW s, GoodWindow(s)
    PROVE  /\ GoodWindow([s EXCEPT !.pix = Display!NoPixmap])
           /\ [s EXCEPT !.pix = Display!NoPixmap].cursor = s.cursor
           /\ Display!update_terminal_contents(s).cursor = s.cursor
           /\ GoodWindow([s EXCEPT !.upper = ~@])
           /\ [s EXCEPT !.upper = ~@].cursor = s.cursor
  <1> DEFINE p == [s EXCEPT !.pix = Display!NoPixmap]
             u == [s EXCEPT !.upper = ~@]
  <1>1. s \in WindowType
    BY DEF GoodWindow, Held, Sized
  <1>2. /\ p \in WindowType /\ p.pix = Display!NoPixmap /\ p.cursor = s.cursor /\ p.content = s.content
        /\ p.changed = s.changed /\ p.model = s.model /\ p.ov = s.ov /\ p.max = s.max
        /\ p.size = s.size /\ p.view = s.view /\ p.gcursor = s.gcursor
    BY <1>1 DEF WindowType
  <1>3. /\ u \in WindowType /\ u.pix = s.pix /\ u.cursor = s.cursor /\ u.content = s.content
        /\ u.changed = s.changed /\ u.model = s.model /\ u.ov = s.ov /\ u.max = s.max
        /\ u.size = s.size /\ u.view = s.view /\ u.gcursor = s.gcursor /\ u.enabled = s.enabled
    BY <1>1 DEF WindowType
  <1> HIDE DEF p, u
  <1>4. GoodWindow(p)
    BY <1>2 DEF GoodWindow, Held, Sized, Used, Viewed, Seen
  <1>5. GoodWindow(u)
    BY <1>3 DEF GoodWindow, Held, Sized, Used, Viewed, Seen
  <1>6. Display!update_terminal_contents(s).cursor = s.cursor
    BY <1>1 DEF Display!update_terminal_contents, WindowType
  <1> QED BY <1>2, <1>3, <1>4, <1>5, <1>6 DEF p, u

-----------------------------------------------------------------------------
(* The window and its session. *)

(* Without a session the cursor is home: a model can be changed then only.    *)
WindowInv ==
    /\ GoodWindow(w) /\ connected \in BOOLEAN
    /\ ~connected => w.cursor = 0

(* A window that has not been exposed.                                        *)
LEMMA WindowStarts == ASSUME WindowAssumption, Display!Init PROVE WindowInv
  <1>1. PICK model \in Models, ov \in Oversizes \cup {Display!NoOversize} :
          LET over == ov # Display!NoOversize /\ Display!Fits(model, ov)
              max  == IF over THEN ov ELSE model
          IN  w = [model |-> model, ov |-> IF over THEN ov ELSE Display!NoOversize, max |-> max,
                   size |-> model, alt |-> FALSE, cursor |-> 0,
                   ea |-> [x \in 0 .. Display!Largest - 1 |-> "null"], upper |-> FALSE,
                   view |-> max, content |-> Display!Blanked(max), changed |-> {}, gcursor |-> 0,
                   pix |-> Display!NoPixmap, enabled |-> FALSE]
    BY DEF Display!Init
  <1> DEFINE over == ov # Display!NoOversize /\ Display!Fits(model, ov)
             max  == IF over THEN ov ELSE model
             blank == Display!Blanked(max)
             buffer == [x \in 0 .. Display!Largest - 1 |-> "null"]
  <1>2. /\ max \in Models \cup Oversizes /\ max \in Sizes /\ model \in Sizes
        /\ (IF over THEN ov ELSE Display!NoOversize) \in Oversizes \cup {Display!NoOversize}
    BY DEF Sizes
  <1>3. blank \in [Display!Area(max) -> Display!Shown]
    BY DEF Display!Blanked, Display!Shown
  <1>4. blank \in Contents
    BY <1>2, <1>3 DEF Contents
  <1>5. buffer \in [0 .. Display!Largest - 1 -> Kept]
    BY DEF Kept
  <1>6. w = [model |-> model, ov |-> IF over THEN ov ELSE Display!NoOversize, max |-> max,
             size |-> model, alt |-> FALSE, cursor |-> 0, ea |-> buffer, upper |-> FALSE,
             view |-> max, content |-> blank, changed |-> {}, gcursor |-> 0,
             pix |-> Display!NoPixmap, enabled |-> FALSE]
    BY <1>1
  <1> HIDE DEF blank, buffer
  <1>7. w \in WindowType
    BY <1>2, <1>4, <1>5, <1>6 DEF WindowType
  <1>8. /\ w.max = max /\ w.model = model /\ w.size = model /\ w.view = max /\ w.content = blank
        /\ w.changed = {} /\ w.cursor = 0 /\ w.gcursor = 0 /\ w.pix = Display!NoPixmap
        /\ w.ov = IF over THEN ov ELSE Display!NoOversize
    BY <1>6
  <1>9. Sized(w)
    BY <1>3, <1>7, <1>8 DEF Sized
  <1>10. Display!Fits(w.size, w.max)
    BY <1>8, <1>9, ModelFits
  <1>11. Held(w)
    BY <1>8, <1>9, <1>10, UsedInside DEF Held, blank, Display!Blanked
  <1>12. Viewed(w) /\ Seen(w)
    BY <1>8 DEF Viewed, Seen
  <1> QED BY <1>8, <1>11, <1>12 DEF WindowInv, GoodWindow, Display!Init

(* Every step keeps it.                                                       *)
LEMMA WindowStep ==
    ASSUME WindowAssumption, WindowInv, [Display!Next]_windowVars
    PROVE  WindowInv'
  <1>1. GoodWindow(w) /\ w \in WindowType /\ connected \in BOOLEAN
    BY DEF WindowInv, GoodWindow, Held, Sized
  <1>2. CASE Display!HostWrites
    <2>1. PICK buf \in Screens :
            /\ connected /\ connected' = connected
            /\ w' = [w EXCEPT !.ea = [x \in DOMAIN w.ea |->
                                        IF x \in Display!Area(w.size) THEN buf[x] ELSE w.ea[x]]]
      BY <1>2 DEF Display!HostWrites, Display!Does
    <2> DEFINE e == [x \in DOMAIN w.ea |-> IF x \in Display!Area(w.size) THEN buf[x] ELSE w.ea[x]]
    <2>2. e \in [0 .. Display!Largest - 1 -> Kept]
      BY <1>1 DEF WindowAssumption, WindowType, Kept
    <2> HIDE DEF e
    <2>3. w' = [w EXCEPT !.ea = e]
      BY <2>1 DEF e
    <2>4. GoodWindow(w')
      BY <1>1, <2>2, <2>3, BufferWritten
    <2> QED BY <2>1, <2>4 DEF WindowInv, GoodWindow, Held, Sized, WindowType, Viewed, Seen, Used
  <1>3. CASE Display!HostErases
    <2>1. PICK alt \in BOOLEAN : connected /\ connected' = connected /\ w' = Display!ctlr_erase(w, alt)
      BY <1>3 DEF Display!HostErases, Display!Does
    <2>2. GoodWindow(w')
      BY <1>1, <2>1, ScreenErased
    <2> QED BY <2>1, <2>2 DEF WindowInv
  <1>4. CASE Display!Displays
    <2>1. connected /\ connected' = connected /\ w' = Display!screen_disp(w)
      BY <1>4 DEF Display!Displays, Display!Does
    <2>2. GoodWindow(w')
      BY <1>1, <2>1, ScreenDisplayed
    <2> QED BY <2>1, <2>2 DEF WindowInv
  <1>5. CASE Display!CursorMoves
    <2>1. PICK a \in Display!Area(w.size) :
            connected /\ connected' = connected /\ w' = Display!update_cursor_position(w, a)
      BY <1>5 DEF Display!CursorMoves, Display!Does
    <2>2. GoodWindow(w')
      BY <1>1, <2>1, CursorPlaced
    <2> QED BY <2>1, <2>2 DEF WindowInv
  <1>6. CASE Display!testpattern
    <2>1. PICK c \in {"a", "A"} :
            /\ connected' = connected
            /\ w' = Display!screen_disp([w EXCEPT !.ea = [x \in DOMAIN w.ea |-> c]])
      BY <1>6 DEF Display!testpattern, Display!Does
    <2> DEFINE e == [x \in DOMAIN w.ea |-> c]
               u == [w EXCEPT !.ea = e]
    <2>2. e \in [0 .. Display!Largest - 1 -> Kept]
      BY <1>1 DEF WindowType, Kept
    <2>3. w' = Display!screen_disp(u)
      BY <2>1
    <2> HIDE DEF e
    <2>4. GoodWindow(u) /\ SameSize(u, w)
      BY <1>1, <2>2, BufferWritten
    <2> HIDE DEF u
    <2>5. GoodWindow(w') /\ SameSize(w', u)
      BY <2>3, <2>4, ScreenDisplayed
    <2> QED BY <2>1, <2>4, <2>5 DEF WindowInv, SameSize
  <1>7. CASE Display!status_connect
    <2>1. connected' = ~connected /\ w' = Display!ctlr_erase(w, TRUE)
      BY <1>7 DEF Display!status_connect
    <2>2. GoodWindow(w') /\ w'.cursor = 0
      BY <1>1, <2>1, ScreenErased
    <2> QED BY <1>1, <2>1, <2>2 DEF WindowInv
  <1>8. CASE Display!lib3270_set_model
    <2>1. PICK m \in Models :
            /\ ~connected /\ connected' = connected
            /\ w' = Display!ctlr_reinit(Display!ctlr_set_rows_cols(w, m, w.ov))
      BY <1>8 DEF Display!lib3270_set_model, Display!Does
    <2>2. GoodWindow(w') /\ w'.cursor = 0
      BY <1>1, <2>1, ModelChanged DEF WindowInv
    <2> QED BY <1>1, <2>1, <2>2 DEF WindowInv
  <1>9. CASE Display!set_monocase
    <2> DEFINE u == [w EXCEPT !.upper = ~@]
    <2>1. connected' = connected /\ w' = Display!screen_disp(u)
      BY <1>9 DEF Display!set_monocase, Display!Does
    <2>2. GoodWindow(u) /\ u.cursor = w.cursor
      BY <1>1, Exposing
    <2> HIDE DEF u
    <2>3. GoodWindow(w') /\ SameSize(w', u)
      BY <2>1, <2>2, ScreenDisplayed
    <2> QED BY <2>1, <2>2, <2>3 DEF WindowInv, SameSize
  <1>10. CASE Display!screen_suspend
    <2>1. connected' = connected /\ w' = Display!SetSuspended(w, TRUE)
      BY <1>10 DEF Display!screen_suspend, Display!Does
    <2>2. GoodWindow(w') /\ w'.cursor = w.cursor
      BY <1>1, <2>1, Suspending
    <2> QED BY <2>1, <2>2 DEF WindowInv
  <1>11. CASE Display!screen_resume
    <2> DEFINE u == Display!screen_disp(w)
    <2>1. connected' = connected /\ w' = Display!SetSuspended(u, FALSE)
      BY <1>11 DEF Display!screen_resume, Display!Does
    <2>2. GoodWindow(u) /\ SameSize(u, w)
      BY <1>1, ScreenDisplayed
    <2> HIDE DEF u
    <2>3. GoodWindow(w') /\ w'.cursor = u.cursor
      BY <2>1, <2>2, Suspending
    <2> QED BY <2>1, <2>2, <2>3 DEF WindowInv, SameSize
  <1>12. CASE Display!ResizeTerminal
    <2>1. connected' = connected /\ w' = [w EXCEPT !.pix = Display!NoPixmap]
      BY <1>12 DEF Display!ResizeTerminal, Display!Does
    <2>2. GoodWindow(w') /\ w'.cursor = w.cursor
      BY <1>1, <2>1, Exposing
    <2> QED BY <2>1, <2>2 DEF WindowInv
  <1>13. CASE Display!expose
    <2>1. connected' = connected /\ w' = Display!update_terminal_contents(w)
      BY <1>13 DEF Display!expose, Display!Does
    <2>2. GoodWindow(w') /\ w'.cursor = w.cursor
      BY <1>1, <2>1, Redrawn DEF GoodWindow
    <2> QED BY <2>1, <2>2 DEF WindowInv
  <1>14. CASE UNCHANGED windowVars
    BY <1>14 DEF windowVars, WindowInv, GoodWindow, Held, Sized, WindowType, Viewed, Seen, Used
  <1> QED
    BY <1>2, <1>3, <1>4, <1>5, <1>6, <1>7, <1>8, <1>9, <1>10, <1>11, <1>12, <1>13, <1>14
    DEF Display!Next

(* A good window shows what it should.                                        *)
LEMMA GoodWindowShows == ASSUME WindowAssumption, GoodWindow(w) PROVE WindowShows
  <1>1. w \in WindowType /\ Sized(w) /\ w.content \in [Display!Area(w.max) -> Display!Shown]
    BY DEF GoodWindow, Held, Sized
  <1>2. Display!PixmapCurrent
    BY <1>1 DEF GoodWindow, Seen, Display!PixmapCurrent
  <1>3. /\ \A x \in DOMAIN w.content \ Display!Places(w.size, w.max) : w.content[x] = "blank"
        /\ w.gcursor = Display!Place(w.cursor, w.size, w.max)
        /\ w.gcursor \in DOMAIN w.content
        /\ w.ov = Display!NoOversize => w.view = w.size
    BY <1>1, UsedInside DEF GoodWindow, Held, Viewed, Used
  <1> DEFINE v == [f \in DOMAIN w \ {"content", "changed", "pix"} |-> w[f]]
             u == [model |-> w.model, ov |-> w.ov, max |-> w.max, size |-> w.size, alt |-> w.alt,
                   cursor |-> w.cursor, ea |-> w.ea, upper |-> w.upper, view |-> w.view,
                   gcursor |-> w.gcursor, enabled |-> w.enabled]
  <1>4. DOMAIN w \ {"content", "changed", "pix"} =
          {"model", "ov", "max", "size", "alt", "cursor", "ea", "upper", "view", "gcursor", "enabled"}
    BY <1>1 DEF WindowType
  <1>5. v = u
    BY <1>4
  <1>6. u \in Display!Windows
    BY <1>1 DEF WindowType, Display!Windows, Sizes, Kept
  <1> QED BY <1>2, <1>3, <1>5, <1>6 DEF WindowShows, Display!WindowShows, Display!WindowAgrees

(* Once its whole size is blank or in use, the window shows what the library  *)
(* displayed, through every change of model, size and suspension (screen.c,   *)
(* draw.c, terminal.c).                                                       *)
THEOREM WindowShowsScreen == ASSUME WindowAssumption PROVE Display!Spec => []WindowShows
  <1>1. Display!Init => WindowInv
    BY WindowStarts
  <1>2. WindowInv /\ [Display!Next]_(Display!vars) => WindowInv'
    BY WindowStep DEF windowVars, Display!vars
  <1>3. WindowInv => WindowShows
    BY GoodWindowShows DEF WindowInv
  <1> QED BY <1>1, <1>2, <1>3, PTL DEF Display!Spec
=============================================================================
