------------------------------- MODULE MCDesktop ------------------------------
(* The terminal window for TLC: its machines, of which each behaviour takes    *)
(* one, the window's contents, the selection, the files its menus are read     *)
(* from, or the operator information area; the others stand still.             *)
EXTENDS Drawing, Frame, Integers, Sequences, SequencesExt

CONSTANTS Files, MaxFiles

VARIABLES part, info, made, read

Menus == INSTANCE UiParser

MCModels    == {<<1, 2>>, <<2, 3>>}
MCOversizes == {<<2, 2>>}
MCStandard  == <<1, 2>>
MCScreens   ==
    {[x \in 0 .. 5 |-> CASE x = 0 -> "hidden" [] x = 4 -> "field" [] OTHER -> "a"],
     [x \in 0 .. 5 |-> IF x % 2 = 0 THEN "a" ELSE "A"]}

(* Words with blanks around them, a function key's name, a single field.       *)
Chars(s) == [i \in 0 .. 8 |-> s[i + 1]]
MCTexts  ==
    {[fields |-> {}, protect |-> FALSE,
      chars |-> Chars(<<"x", " ", "x", "x", "x", "x", " ", "x", "x">>)],
     [fields |-> {0, 3}, protect |-> TRUE,
      chars |-> Chars(<<" ", "F", "1", " ", "x", "x", " ", "x", "x">>)],
     [fields |-> {4}, protect |-> TRUE,
      chars |-> Chars(<<"x", " ", "x", "x", " ", "x", "x", "x", "x">>)]}

(* Inside, on the pixel past the last row, outside.                            *)
MCPointer == {<<0, 0>>, <<1, 1>>, <<2, 2>>, <<0, 2>>, <<3, 1>>, <<-1, 1>>}

(* Elements as the program's own files have them, and some it does not expect: *)
(* inside a root, two beside and inside each other in every way that XML has.  *)
Element(tag, name, action, id, key) ==
    [tag |-> tag, name |-> name, action |-> action, id |-> id, key |-> key]
End     == <<Element("/", "", "", "", "")>>
Bar     == Element("menubar", "bar", "", "", "")
Menu    == Element("menu", "view", "ViewMenu", "", "")
Keypad  == Element("keypad", "pad", "", "", "")
Row     == Element("row", "", "", "", "")
Button  == Element("button", "", "pfkey", "1", "")
Around(el, inside) == <<el>> \o inside \o End
Root(inside) == Around(Element("ui", "", "", "", ""), inside)

Kinds == {Element("menuitem", "", "pfkey", "1", "F1"), Element("menuitem", "", "toggle", "monocase", ""),
          Element("toolitem", "copy", "Copy", "", "F1"), Element("separator", "", "", "", ""), Menu,
          Element("script", "", "", "linux", ""), Element("script", "", "", "windows", ""),
          Element("text", "hello", "", "", ""), Element("popup", "view", "", "", ""), Row, Button}
Closed(el) == IF el.tag = "text" THEN <<el>> ELSE Around(el, <<>>)
Inside(a, b) ==
    IF a.tag \in {"menu", "popup"} \/ (a.tag = "menuitem" /\ b.tag \in {"script", "text"})
    THEN {Around(a, Closed(b))} ELSE {}

MCFiles ==
    {Root(Around(Bar, Around(Menu, Closed(a)) \o Closed(b))) : a, b \in Kinds}
    \cup UNION {{Root(Around(Bar, x)) : x \in Inside(a, b)} : a, b \in Kinds}
    \cup {Root(Around(Element("toolbar", "tools", "", "", ""), Closed(a))) : a \in Kinds}
    \cup {Root(Around(Keypad, Around(Row, b) \o Around(Row, c))) :
             b, c \in {[i \in 1 .. 2 * n |-> IF i % 2 = 1 THEN Button ELSE End[1]] : n \in {0, 1, 2, 3, 4}}}
    \cup {Root(Around(Keypad, FlattenSeq([i \in 1 .. n |-> Around(Row, Closed(Button))]))) : n \in {0, 4}}
    \cup {Root(Closed(Element("scroll", "", "Copy", d, ""))) : d \in {"up", "none"}}

Pinned == /\ w.model = MCStandard /\ w.ov = Display!NoOversize
          /\ text = (CHOOSE x \in MCTexts : x.fields = {}) /\ ~sel.rect

MCInit ==
    /\ Display!Init /\ Selected!Init /\ Menus!Init /\ Line!Init /\ Switches!Init
    /\ \/ part = "window" /\ text = (CHOOSE x \in MCTexts : x.fields = {}) /\ ~sel.rect
       \/ part = "selection" /\ w.model = MCStandard /\ w.ov = Display!NoOversize
       \/ part \in {"menus", "area", "toggles"} /\ Pinned
    /\ part = "toggles" \/ file.has = {}

menuVars == <<info, made, read>>

(* The LU and its program, which one element shows and the end of the session  *)
(* clears, are followed until the window's first event.                        *)
LUFollowed == events = 0 \/ (o.connected_lu = Line!CN /\ o.children = 0)

(* Shift key, script and cursor have elements of their own, which nothing of   *)
(* the session depends on, nor they on it: they are touched between sessions,  *)
(* and after that only the window goes on.                                     *)
WindowsOwn == o.shift \/ o.script # "NONE" \/ ~o.cursor_pos \/ o.cursor_position # 0
AreaNext   == IF WindowsOwn THEN Line!Window
              ELSE Line!Next /\ (events' # events /\ WindowsOwn' => ~Line!Connected(o))

MCNext ==
    /\ \/ part = "window"    /\ Display!Next /\ UNCHANGED <<selectionVars, menuVars, areaVars, toggleVars>>
       \/ part = "selection" /\ Selected!Next /\ UNCHANGED <<windowVars, menuVars, areaVars, toggleVars>>
       \/ part = "menus"     /\ Menus!Next /\ UNCHANGED <<windowVars, selectionVars, areaVars, toggleVars>>
       \/ part = "area"      /\ AreaNext /\ LUFollowed' /\ UNCHANGED <<windowVars, selectionVars, menuVars, toggleVars>>
       \/ part = "toggles"   /\ Switches!Next /\ UNCHANGED <<windowVars, selectionVars, menuVars, areaVars>>
    /\ UNCHANGED part

MCSpec == MCInit /\ [][MCNext]_<<windowVars, selectionVars, menuVars, areaVars, toggleVars, part>>

(* UiParser's property, under the name the configuration uses.                *)
UiBuilt == Menus!UiBuilt
=============================================================================
