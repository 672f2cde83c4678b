------------------------------- MODULE UiParser -------------------------------
(***************************************************************************)
(* How the menus, bars and keypads of the window are read from the files   *)
(* of the directory "ui": src/src/gtk2/uiparser1.c, and the actions they   *)
(* name (src/src/gtk2/actions1.c).  The directory gives its files in any   *)
(* order; the tables of one are continued by the next, and when all are    *)
(* read the actions, the menus and the keypads are made.                   *)
(*                                                                         *)
(* A path is the sequence of the names between its slashes.  Labels,       *)
(* icons and tips are left out; the parser of XML is not in the repository.*)
(***************************************************************************)
EXTENDS Integers, Sequences, FiniteSets, SequencesExt

CONSTANTS
    Files,          \* files: sequences of elements' starts, ends and texts
    MaxFiles        \* bound of the model on the files read

VARIABLES
    info,           \* what has been read: see Infos
    made,           \* what was made of it; <<>> before
    read            \* the files read so far

vars == <<info, made, read>>

NULL  == <<>>
Empty == ""

(* Elements that become menus and bars, and the widgets in them.              *)
Containers == {"menubar", "toolbar", "menu", "popup"}
Actions    == {"menuitem", "toolitem", "accelerator", "menu", "popup"}
Bars       == {"menubar", "toolbar"}

NoAction == [type |-> "default", callback |-> "", user |-> "", key |-> "",
             enabled |-> FALSE, text |-> "", object |-> FALSE]
NoKeypad == [cols |-> 0, allocated |-> 0, row |-> <<>>]

NewInfo == [path |-> NULL, current_action |-> "", current_keypad |-> "", error |-> FALSE, ids |-> 0,
            elements |-> <<>>, actions |-> [n \in {} |-> NoAction], keypads |-> [n \in {} |-> NoKeypad]]

(* The value of a name in a table, or the value a new entry has.              *)
At(table, name, new) == IF name \in DOMAIN table THEN table[name] ELSE new
With(table, name, value) == [n \in DOMAIN table \cup {name} |-> IF n = name THEN value ELSE table[n]]

-----------------------------------------------------------------------------
(* Names of actions. *)

Unknown == [type |-> "default", callback |-> "", user |-> "", name |-> ""]

(* The attribute "id" tells the key, or the toggle; what is not found leaves  *)
(* an action that does nothing.                                               *)
get_action_info_by_name(key, id) ==
    CASE key = "pfkey" -> [Unknown EXCEPT !.callback = "action_pfkey", !.user = id, !.name = "pf" \o id]
      [] key = "toggle" /\ id = "monocase" ->
           [Unknown EXCEPT !.type = "toggle", !.callback = "toggle_action", !.user = id, !.name = "Toggle" \o id]
      [] key = "toggleset" /\ id = "monocase" ->
           [Unknown EXCEPT !.callback = "toggle_set_action", !.user = id, !.name = "ToggleSet" \o id]
      [] key = "Copy" -> [Unknown EXCEPT !.callback = "action_copy"]
      [] OTHER        -> Unknown

(* What was said of an action before holds, but for its type and its data.    *)
get_action_descriptor(s, el) ==
    LET cbk  == get_action_info_by_name(IF el.action # Empty THEN el.action ELSE el.name, el.id)
        name == IF el.name # Empty THEN el.name ELSE IF cbk.name # Empty THEN cbk.name ELSE el.action
        old  == At(s.actions, name, NoAction)
        data == [old EXCEPT !.type = cbk.type, !.user = cbk.user, !.key = IF el.key = Empty THEN @ ELSE el.key,
                            !.callback = IF @ = Empty THEN cbk.callback ELSE @]
    IN  [s EXCEPT !.actions = With(@, name, data), !.current_action = name]

-----------------------------------------------------------------------------
(* Elements. *)

(* Mutant: the name alone tells whether an element is known.                  *)
ui_element_appendAnywhere(s, tag, name) ==
    LET path  == IF s.path \in {NULL, <<Empty>>} THEN <<Empty>> ELSE s.path
        known == \E i \in DOMAIN s.elements : s.elements[i].name = name
    IN  IF name # Empty /\ known THEN s
        ELSE [s EXCEPT !.elements = Append(@, [type |-> tag, path |-> path,
                                               name |-> IF name = Empty THEN "ui" \o ToString(s.ids) ELSE name]),
                       !.ids = IF name = Empty THEN @ + 1 ELSE @]

ui_element_append(s, tag, name) ==
    LET path  == IF s.path \in {NULL, <<Empty>>} THEN <<Empty>> ELSE s.path
        known == \E i \in DOMAIN s.elements : s.elements[i].name = name /\ s.elements[i].path = path
    IN  IF name # Empty /\ known THEN s
        ELSE [s EXCEPT !.elements = Append(@, [type |-> tag, path |-> path,
                                               name |-> IF name = Empty THEN "ui" \o ToString(s.ids) ELSE name]),
                       !.ids = IF name = Empty THEN @ + 1 ELSE @]

add_ui_action(s, el) ==
    LET t == get_action_descriptor(s, el)
    IN  ui_element_append(t, el.tag, t.current_action)

(* A wheel's direction names the action.                                      *)
add_scroll_element(s, el) ==
    LET name == "Scroll" \o el.id
        cbk  == get_action_info_by_name(el.action, el.id)
    IN  IF el.id \notin {"up", "down", "left", "right"} THEN s
        ELSE [s EXCEPT !.current_action = name,
                       !.actions = With(@, name, [At(@, name, NoAction) EXCEPT
                             !.type = "scroll", !.callback = cbk.callback, !.user = cbk.user])]

get_keypad_descriptor(s, name) ==
    IF name = Empty THEN [s EXCEPT !.current_keypad = ""]
    ELSE [s EXCEPT !.current_keypad = name, !.keypads = With(@, name, At(@, name, NoKeypad))]

create_keypad_row(k) ==
    LET room == IF k.row = <<>> THEN 3 ELSE IF Len(k.row) >= k.allocated THEN k.allocated * 2 ELSE k.allocated
    IN  [k EXCEPT !.allocated = room, !.row = Append(@, [allocated |-> 0, used |-> 0])]

(* Mutant: a row that is full is found so one button late.                    *)
RoomLate(k, row) ==
    IF row.allocated = 0 THEN IF k.cols # 0 THEN k.cols ELSE 3
    ELSE IF row.used > row.allocated THEN row.allocated * 2 ELSE row.allocated

(* A row has room for as many as the longest, at first.                       *)
Room(k, row) ==
    IF row.allocated = 0 THEN IF k.cols # 0 THEN k.cols ELSE 3
    ELSE IF row.used >= row.allocated THEN row.allocated * 2 ELSE row.allocated

create_keypad_button(k) ==
    LET row == Last(k.row)
        new == [allocated |-> Room(k, row), used |-> row.used + 1]
    IN  [k EXCEPT !.row = Append(Front(@), new), !.cols = IF new.used > @ THEN new.used ELSE @]

(* A script for another platform makes its element a script all the same.     *)
create_script_element(s, el) ==
    LET enabled == el.id \in {"", "linux"}
    IN  [s EXCEPT !.actions[s.current_action].type = "script",
                  !.actions[s.current_action].enabled = enabled,
                  !.actions[s.current_action].object = @ \/ enabled]

(* <<row>> inside a keypad, <<button>> inside a row, <<script>> inside an     *)
(* active element: the last one seen, open or not, will do.                   *)
Misplaced(s, el) ==
    \/ el.tag = "row" /\ s.current_keypad = ""
    \/ el.tag = "button" /\ (s.current_keypad = "" \/ s.keypads[s.current_keypad].row = <<>>)
    \/ el.tag = "script" /\ s.current_action = ""

Started(s, el) ==
    CASE el.tag \in Actions     -> add_ui_action(s, el)
      [] el.tag \in Bars        -> ui_element_append(s, el.tag, el.name)
      [] el.tag = "separator"   -> ui_element_append(s, el.tag, el.name)
      [] el.tag = "scroll"      -> add_scroll_element(s, el)
      [] el.tag = "keypad"      -> get_keypad_descriptor(s, el.name)
      [] el.tag = "row"         -> [s EXCEPT !.keypads[s.current_keypad] = create_keypad_row(@)]
      [] el.tag = "button"      -> [s EXCEPT !.keypads[s.current_keypad] = create_keypad_button(@)]
      [] el.tag = "script"      -> create_script_element(s, el)
      [] OTHER                  -> s

element_start(s, el) ==
    LET name == IF el.name # Empty THEN el.name ELSE el.action
        t    == IF Misplaced(s, el) THEN [s EXCEPT !.error = TRUE] ELSE Started(s, el)
    IN  [t EXCEPT !.path = Append(@, name)]

(* Mutant: an element that ends leaves its name in the path.                  *)
element_endNot(s) == s

(* The last slash goes, with what follows it.                                 *)
element_end(s) == [s EXCEPT !.path = IF Len(@) > 1 THEN Front(@) ELSE @]

element_text(s, text) ==
    IF s.current_action = "" THEN [s EXCEPT !.error = TRUE]
    ELSE IF ~s.actions[s.current_action].enabled THEN s
    ELSE [s EXCEPT !.actions[s.current_action].text = text]

(* An error ends the file, not the others.                                    *)
Parsed(s, event) ==
    IF s.error THEN s
    ELSE CASE event.tag = "/"    -> element_end(s)
           [] event.tag = "text" -> element_text(s, event.name)
           [] OTHER              -> element_start(s, event)

append_from_xml(s, file) == FoldLeft(Parsed, s, file)

(* Mutant: the next file begins where this one ended.                         *)
load_fileOn(s, file) == [append_from_xml(s, file) EXCEPT !.error = FALSE]

load_file(s, file) == [append_from_xml(s, file) EXCEPT !.path = NULL, !.error = FALSE]

-----------------------------------------------------------------------------
(* What is made. *)

(* GTK adds an element where the one above it is.                             *)
Full(e) == Append(e.path, e.name)
build_ui_manager(elements) ==
    FoldLeft(LAMBDA placed, e : IF e.path = <<Empty>> \/ e.path \in placed
                                THEN placed \cup {Full(e)} ELSE placed,
             {}, elements)

(* A function key belongs to one of the actions that name it.                 *)
Keyed(actions, key) == {n \in DOMAIN actions : actions[n].key = key /\ key # ""}

(* The columns a button covers; a row of none divides by zero.                *)
Spans(k, row) == [c \in 1 .. row.used |-> LET step == (k.cols * 2) \div row.used
                                          IN  ((c - 1) * step) .. (c * step - 1)]
pack_keypads(keypads) ==
    IF \E n \in DOMAIN keypads : \E i \in DOMAIN keypads[n].row : keypads[n].row[i].used = 0 THEN "crash"
    ELSE "packed"

(* The tables become the window, in the order the directory was read.         *)
ReadFile ==
    /\ made = <<>> /\ Len(read) < MaxFiles
    /\ \E file \in Files : info' = load_file(info, file) /\ read' = Append(read, file)
    /\ UNCHANGED made

load_application_ui ==
    /\ made = <<>> /\ read # <<>>
    /\ \E f1 \in Keyed(info.actions, "F1") \cup {""} :
         /\ (f1 = "") = (Keyed(info.actions, "F1") = {})
         /\ made' = <<[placed |-> build_ui_manager(info.elements), f1 |-> f1,
                       shows |-> {info.elements[i].name : i \in {j \in DOMAIN info.elements :
                                                                   info.elements[j].type \in Bars}},
                       keypads |-> pack_keypads(info.keypads)]>>
    /\ UNCHANGED <<info, read>>

Init == info = NewInfo /\ made = <<>> /\ read = <<>>

Next == ReadFile \/ load_application_ui

Spec == Init /\ [][Next]_vars

-----------------------------------------------------------------------------
(* The elements with a name that a file has.                                  *)
Named(s) == {<<s.elements[i].path, s.elements[i].name>> : i \in DOMAIN s.elements}
            \ {<<s.elements[i].path, "ui" \o ToString(n)>> : i \in DOMAIN s.elements, n \in 0 .. s.ids}

TypeOK ==
    /\ \A i \in DOMAIN info.elements : info.elements[i].type \in Actions \cup Bars \cup {"separator"}
    /\ \A n \in DOMAIN info.actions : info.actions[n].type \in {"default", "toggle", "scroll", "script"}
    /\ made # <<>> => made[1].keypads \in {"crash", "packed"}

(* Whatever the order of the directory, and even after a file with an error,  *)
(* a file that is right by itself adds to the window all it would add alone.  *)
Alone(file) == append_from_xml(NewInfo, file)
FilesIndependent ==
    \A i \in DOMAIN read : ~Alone(read[i]).error => Named(Alone(read[i])) \subseteq Named(info)

(* Each is there once, and found where GTK looks for it: all of them appear.  *)
ElementsAppear ==
    /\ \A i, j \in DOMAIN info.elements : Full(info.elements[i]) = Full(info.elements[j]) => i = j
    /\ made # <<>> => made[1].placed = {Full(info.elements[i]) : i \in DOMAIN info.elements}

(* The rows and the buttons have the memory they are written to, and a        *)
(* button its own columns of the table (create_keypad_button).                *)
KeypadsFit ==
    \A n \in DOMAIN info.keypads : LET k == info.keypads[n] IN
        /\ Len(k.row) <= k.allocated
        /\ \A i \in DOMAIN k.row :
             /\ k.row[i].used <= k.row[i].allocated
             /\ k.row[i].used > 0 => UNION Range(Spans(k, k.row[i])) \subseteq 0 .. 2 * k.cols - 1

(* All of it.                                                                 *)
UiBuilt == TypeOK /\ FilesIndependent /\ ElementsAppear /\ KeypadsFit
=============================================================================
