------------------------------- MODULE LineMode -------------------------------
(***************************************************************************)
(* Line mode in ANSI sessions: the "cooked mode" of src/src/lib/telnet.c,  *)
(* which keeps the line the user types until it is ended, edits it, and    *)
(* echoes every change through the terminal of Ansi.                       *)
(*                                                                         *)
(* A backslash is an ordinary character: "backslashed" is cleared, in      *)
(* net_cookout or do_data, before any handler looks at it.                 *)
(***************************************************************************)
EXTENDS Ansi

CONSTANTS
    Key,            \* the characters the user types
    BUFSZ,          \* the size of the line buffer
    MaxEvents       \* bound of the model: keys typed, outputs and changes of mode

(* What ends up in the buffer is a printable character or a control one.      *)
Control  == {"intr", "quit", "erase", "kill", "werase", "rprnt", "eof", "lnext",
             "cr", "nl", "tab", "nul"}
Ordinary == Key \ Control

VARIABLES
    term,
    linemode,
    lbuf,           \* the line, as far as it is typed
    lnext,          \* the next character is taken literally
    sent,           \* the last line or character sent
    start,          \* the address where the line begins on the screen
    clean,          \* the line is on the screen, from there, as ctl_see shows it
    events

vars == <<term, linemode, lbuf, lnext, sent, start, clean, events>>

TypeOK ==
    /\ term \in Terminal /\ linemode \in BOOLEAN /\ lnext \in BOOLEAN
    /\ lbuf \in Seq(Key \cup {"nul"}) /\ Len(lbuf) <= BUFSZ
    /\ start \in Addr /\ clean \in BOOLEAN /\ events \in 0 .. MaxEvents

Init ==
    /\ term = FirstReset /\ linemode = TRUE /\ lbuf = <<>> /\ lnext = FALSE /\ sent = <<>>
    /\ start = 0 /\ clean = TRUE /\ events = 0

-----------------------------------------------------------------------------
(* Display. *)

(* A control character shows as two.  Which one it is does not matter here.   *)
ctl_see(c) == IF c \in Control THEN <<"^", "C">> ELSE <<c>>

Shown(line) == FlattenSeq([i \in 1 .. Len(line) |-> ctl_see(line[i])])

Displays(s, c) ==
    CASE c = "BS" -> ansi_backspace(s)
      [] c = "CR" -> ansi_cr(s)
      [] c = "LF" -> ansi_lf(s)
      [] c = "HT" -> ansi_htab(s)
      [] OTHER    -> ansi_printing(s, c)

ansi_process_s(s, chars) == FoldLeft(Displays, s, chars)

CRLF == <<"CR", "LF">>

(* "\b \b" for each column. *)
Rubbed(s, columns) ==
    FoldLeft(LAMBDA x, i : ansi_process_s(x, <<"BS", "space", "BS">>), s, [i \in 1 .. columns |-> i])

Fits(s, chars) == Col(s) + Len(chars) < Cols

-----------------------------------------------------------------------------
(* Keys in line mode. *)

Edited(line, s, isClean) ==
    /\ lbuf' = line /\ term' = s /\ clean' = isClean /\ lnext' = FALSE
    /\ UNCHANGED <<linemode, sent, start>>

(* cooked_init: a new line begins where the cursor is.                        *)
NewLine(s) == lbuf' = <<>> /\ lnext' = FALSE /\ term' = s /\ start' = s.cursor /\ clean' = TRUE

(* Mutant: the line is never too long.                                        *)
do_dataAnyway(c) ==
    LET shown == IF c = "tab" THEN <<"HT">> ELSE ctl_see(c)
    IN  Edited(lbuf \o (IF c = "cr" THEN <<"cr", "nul">> ELSE <<c>>),
               ansi_process_s(term, shown),
               clean /\ c \notin {"cr", "tab"} /\ Fits(term, shown))

do_data(c) ==
    IF Len(lbuf) + 1 < BUFSZ
    THEN LET shown == IF c = "tab" THEN <<"HT">> ELSE ctl_see(c)
         IN  Edited(lbuf \o (IF c = "cr" THEN <<"cr", "nul">> ELSE <<c>>),
                    ansi_process_s(term, shown),
                    clean /\ c \notin {"cr", "tab"} /\ Fits(term, shown))
    ELSE Edited(lbuf, term, clean)

(* ^C and ^\ drop the line and send an interrupt or a break.                  *)
do_intr(c) == NewLine(ansi_process_s(term, ctl_see(c))) /\ UNCHANGED <<linemode, sent>>

(* Mutant: a control character takes one column.                              *)
EraseToNarrow(n) ==
    Edited(SubSeq(lbuf, 1, n), Rubbed(term, Len(lbuf) - n), clean)

EraseTo(n) ==
    Edited(SubSeq(lbuf, 1, n), Rubbed(term, Len(Shown(lbuf)) - Len(Shown(SubSeq(lbuf, 1, n)))), clean)

do_cerase == IF lbuf = <<>> THEN Edited(lbuf, term, clean) /\ UNCHANGED lnext ELSE EraseTo(Len(lbuf) - 1)

(* The blanks that end the line go, and what is before them up to a blank.    *)
do_werase ==
    LET blank(i) == lbuf[i] \in {"space", "tab"}
    IN  EraseTo(Max({0} \cup {i \in 1 .. Len(lbuf) : blank(i) /\ \E j \in i .. Len(lbuf) : ~blank(j)}))

do_kill == EraseTo(0)

do_rprnt(c) ==
    LET head == ansi_process_s(term, ctl_see(c) \o CRLF)
    IN  /\ term' = ansi_process_s(head, Shown(lbuf))
        /\ start' = head.cursor /\ clean' = Fits(head, Shown(lbuf))
        /\ UNCHANGED <<lbuf, lnext, linemode, sent>>

(* forward_data: the line is sent. *)
Forward(line, s) == sent' = line /\ NewLine(s) /\ UNCHANGED linemode

do_eof(c) ==
    IF Len(lbuf) + 1 < BUFSZ
    THEN Forward(Append(lbuf, c), ansi_process_s(term, ctl_see(c)))
    ELSE Forward(lbuf, term)

(* A line that has no room for its end cannot be ended.                       *)
do_eol ==
    IF Len(lbuf) + 2 >= BUFSZ THEN Edited(lbuf, term, clean)
    ELSE Forward(lbuf \o <<"cr", "nl">>, ansi_process_s(term, CRLF))

(* A "^" marks the place of the quoted character.                             *)
do_lnext ==
    /\ lnext' = TRUE
    /\ term' = ansi_process_s(term, <<"^", "BS">>)
    /\ clean' = (clean /\ Fits(term, <<"^">>))
    /\ UNCHANGED <<linemode, lbuf, sent, start>>

Cooked(c) ==
    IF lnext THEN do_data(c)
    ELSE CASE c \in {"cr", "nl"}      -> do_eol
           [] c \in {"intr", "quit"}  -> do_intr(c)
           [] c = "erase"             -> do_cerase
           [] c = "kill"              -> do_kill
           [] c = "werase"            -> do_werase
           [] c = "rprnt"             -> do_rprnt(c)
           [] c = "eof"               -> do_eof(c)
           [] c = "lnext"             -> do_lnext
           [] OTHER                   -> do_data(c)

(* In character mode keys go to the host, which echoes them.                  *)
net_cookout ==
    \E c \in Key :
        IF linemode THEN Cooked(c) ELSE sent' = <<c>> /\ UNCHANGED <<term, linemode, lbuf, lnext, start, clean>>

-----------------------------------------------------------------------------
(* The host. *)

(* Output between lines moves the start of the next one; in a line it spoils  *)
(* what is shown of it.                                                       *)
HostOutput ==
    \E chars \in {<<"a">>, CRLF} :
        /\ term' = ansi_process_s(term, chars)
        /\ IF lbuf = <<>> THEN start' = term'.cursor /\ clean' = TRUE
                          ELSE clean' = FALSE /\ UNCHANGED start
        /\ UNCHANGED <<linemode, lbuf, lnext, sent>>

(* Mutant: a line left unfinished is taken up again.                          *)
check_linemodeKeeps ==
    /\ linemode' = ~linemode /\ UNCHANGED <<sent, term>>
    /\ IF linemode' THEN start' = term.cursor /\ clean' = TRUE /\ UNCHANGED <<lbuf, lnext>>
                    ELSE UNCHANGED <<lbuf, lnext, start, clean>>

(* The host offers to echo, or no longer does.                                *)
check_linemode ==
    /\ linemode' = ~linemode /\ UNCHANGED <<sent>>
    /\ IF linemode' THEN NewLine(term) ELSE UNCHANGED <<term, lbuf, lnext, start, clean>>

Next ==
    /\ events < MaxEvents /\ events' = events + 1
    /\ net_cookout \/ HostOutput \/ check_linemode

Spec == Init /\ [][Next]_vars

-----------------------------------------------------------------------------
(* What the user sees is what Enter sends: from its start up to the cursor,   *)
(* the screen shows the line in the buffer, unless the host has written in    *)
(* between, a tab or a quoted carriage return is in it, or it is longer than  *)
(* the rest of the screen's line (of those erasing takes away less or more    *)
(* than their echo).                                                          *)
LineShown ==
    linemode /\ clean =>
        /\ term.cursor - start = Len(Shown(lbuf))
        /\ \A i \in 1 .. Len(Shown(lbuf)) : term.ea[start + i - 1] = Shown(lbuf)[i]

(* Together with its type, which keeps the line within its buffer.            *)
EchoMatches == TypeOK /\ LineShown
=============================================================================
