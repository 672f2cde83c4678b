---------------------------- MODULE PrinterSession ----------------------------
(***************************************************************************)
(* The printer session beside the terminal: src/src/lib/printer.c.  A      *)
(* process is started when the host's mode asks for it and stopped when    *)
(* the mode no longer does; what it says on its two pipes is gathered for  *)
(* a second, or until the buffer is full, and shown.                       *)
(*                                                                         *)
(* The process and the host are not part of the repository.  Nothing in    *)
(* the program dispatches ST_EXITING, so printer_exiting is never called.  *)
(***************************************************************************)
EXTENDS Integers, Sequences, SequencesExt

CONSTANTS
    LUs,            \* names of logical units
    PRINTER_BUF,    \* the size of the buffer of a pipe
    MaxStarts       \* bound of the model on the processes started

VARIABLES
    printer_lu,     \* appres.printer_lu
    mode,           \* cstate
    connected_lu,
    printer,        \* see Printers
    child,          \* the process and what it has written; see Children
    starts

vars == <<printer_lu, mode, connected_lu, printer, child, starts>>

CN  == <<>>
Dot == <<".">>
exitmsg == <<"exited">>
Chars   == {"x", "nl"}
Pipes   == {"stdout", "stderr"}

(* pid is the unit the process prints for, and how its command named it.      *)
Printers ==
    [pid : {CN} \cup {<<how, lu>> : how \in {"assoc", "lu"}, lu \in LUs},
     watch : SUBSET Pipes, timeout : SUBSET Pipes,
     buf : [Pipes -> BoundedSeq(Chars, PRINTER_BUF - 1)],
     need_cs : BOOLEAN, charset_file : BOOLEAN, status : BOOLEAN]

Children == [alive : BOOLEAN, pipe : [Pipes -> BoundedSeq(Chars, PRINTER_BUF)]]

printer_running(p) == p.pid # CN

In3270(m)    == m \in {"3270", "SSCP", "TN3270E"}
InE(m)       == m \in {"INITIAL_E", "NVT", "SSCP", "TN3270E"}
Modes == {"NOT_CONNECTED", "INITIAL", "ANSI", "3270", "INITIAL_E", "NVT", "SSCP", "TN3270E"}

-----------------------------------------------------------------------------
(* Starting and stopping. *)

(* Mutant: the pending timeouts outlive the process.                          *)
printer_stopTimed(p) ==
    [p EXCEPT !.watch = {}, !.buf = [pipe \in Pipes |-> <<>>], !.pid = CN,
              !.charset_file = @ /\ ~p.need_cs, !.status = FALSE]

printer_stop(p) ==
    [p EXCEPT !.watch = {}, !.timeout = {}, !.buf = [pipe \in Pipes |-> <<>>], !.pid = CN,
              !.charset_file = @ /\ ~p.need_cs, !.status = FALSE]

(* What may become of the start: a resource is missing, the command line asks *)
(* for no character set, the file cannot be made, a pipe or the process; a    *)
(* process that was not made is announced all the same.                       *)
Outcomes == {"resource", "file", "pipe", "fork", "started"}

printer_start(p, lu, cs, outcome) ==
    LET unit == IF lu = CN THEN <<"assoc", connected_lu'[1]>> ELSE <<"lu", lu[1]>>
        q    == [p EXCEPT !.need_cs = cs, !.charset_file = @ \/ (cs /\ outcome # "file")]
    IN  CASE printer_running(p) \/ ~In3270(mode')                                -> p
          [] lu = CN /\ (mode' # "TN3270E" \/ connected_lu' = CN)                -> p
          [] outcome = "resource"                                                -> p
          [] (outcome = "file" /\ cs) \/ outcome = "pipe"                        -> q
          [] outcome = "fork"                                    -> [q EXCEPT !.status = TRUE]
          [] OTHER -> [q EXCEPT !.pid = unit, !.watch = Pipes, !.status = TRUE]

Wanted(p) == printer_lu # CN /\ ~printer_running(p) /\ (printer_lu = Dot => mode' = "TN3270E")

printer_host_connect(p, cs, outcome) ==
    CASE In3270(mode') /\ Wanted(p) ->
           printer_start(p, IF printer_lu = Dot THEN CN ELSE printer_lu, cs, outcome)
      [] In3270(mode') /\ ~InE(mode') /\ printer_lu = Dot /\ printer_running(p) -> printer_stop(p)
      [] ~In3270(mode') /\ printer_running(p) -> printer_stop(p)
      [] OTHER -> p

-----------------------------------------------------------------------------
(* Output. *)

Quiet == [alive |-> FALSE, pipe |-> [p \in Pipes |-> <<>>]]

(* A newline at the end is not shown.                                         *)
Text(buf) == IF buf # <<>> /\ Last(buf) = "nl" THEN Front(buf) ELSE buf

(* Mutant: the buffer is full when its last byte is taken.                    *)
FullLate(buf) == Len(buf) >= PRINTER_BUF

Full(buf) == Len(buf) >= PRINTER_BUF - 1

Upto(buf, n) == IF Len(buf) <= n THEN buf ELSE SubSeq(buf, 1, n)
Capped(buf)  == Upto(buf, PRINTER_BUF - 1)

(* The exit is told at the end of what the process said last on stderr.       *)
LastWords(p) ==
    LET buf  == p.buf["stderr"]
        line == IF buf # <<>> /\ Last(buf) # "nl" THEN Append(buf, "nl") ELSE buf
    IN  IF "stderr" \in p.timeout THEN Text(Capped(line \o exitmsg)) ELSE exitmsg

printer_data(pipe) ==
    LET space == PRINTER_BUF - Len(printer.buf[pipe]) - 1
        data  == Upto(child.pipe[pipe], space)
        buf   == printer.buf[pipe] \o data
    IN  /\ pipe \in printer.watch
        /\ \/ /\ data # <<>>                               \* read
              /\ child' = [child EXCEPT !.pipe[pipe] = SubSeq(@, Len(data) + 1, Len(@))]
              /\ printer' = IF Full(buf) THEN [printer EXCEPT !.buf[pipe] = <<>>]       \* shown
                           ELSE [printer EXCEPT !.buf[pipe] = buf, !.timeout = @ \cup {pipe}]
           \/ /\ data = <<>> /\ (~child.alive \/ child.pipe[pipe] # <<>>)    \* read nothing
              /\ printer' = printer_stop(printer) /\ child' = Quiet     \* shows LastWords
           \/ /\ data # <<>>                               \* an error
              /\ printer' = printer_stop(printer) /\ child' = Quiet
        /\ UNCHANGED <<printer_lu, mode, connected_lu, starts>>

printer_output == printer_data("stdout")
printer_error  == printer_data("stderr")

printer_timeout(pipe) ==
    /\ pipe \in printer.timeout
    /\ printer' = [printer EXCEPT !.timeout = @ \ {pipe}, !.buf[pipe] = <<>>]
    /\ UNCHANGED <<printer_lu, mode, connected_lu, child, starts>>

printer_otimeout == printer_timeout("stdout")
printer_etimeout == printer_timeout("stderr")

-----------------------------------------------------------------------------
(* The host and the process. *)

Follows ==
    /\ \E cs \in BOOLEAN, outcome \in (IF Wanted(printer) THEN Outcomes ELSE {"started"}) :
         printer' = printer_host_connect(printer, cs, outcome)
    /\ starts' = starts + (IF ~printer_running(printer) /\ printer_running(printer') THEN 1 ELSE 0)
    /\ starts' <= MaxStarts
    /\ child' = IF printer'.pid = printer.pid THEN child
                ELSE [Quiet EXCEPT !.alive = printer_running(printer')]
    /\ UNCHANGED printer_lu

(* The mode changes once the options have; a disconnection forgets the unit.  *)
HostMode ==
    /\ mode' \in Modes \ {mode, "NOT_CONNECTED"}
    /\ (mode = "NOT_CONNECTED" => mode' = "INITIAL")
    /\ UNCHANGED connected_lu
    /\ Follows

HostDisconnects ==
    mode # "NOT_CONNECTED" /\ mode' = "NOT_CONNECTED" /\ connected_lu' = CN /\ Follows

HostNamesLU ==
    /\ mode # "NOT_CONNECTED" /\ connected_lu' \in {<<lu>> : lu \in LUs}
    /\ UNCHANGED <<printer_lu, mode, printer, child, starts>>

ChildWrites ==
    /\ child.alive
    /\ \E pipe \in Pipes, c \in Chars :
         /\ Len(child.pipe["stdout"]) + Len(child.pipe["stderr"]) < PRINTER_BUF - 1
         /\ child' = [child EXCEPT !.pipe[pipe] = Append(@, c)]
    /\ UNCHANGED <<printer_lu, mode, connected_lu, printer, starts>>

ChildExits ==
    /\ child.alive /\ child' = [child EXCEPT !.alive = FALSE]
    /\ UNCHANGED <<printer_lu, mode, connected_lu, printer, starts>>

Init ==
    /\ printer_lu \in {CN, Dot} \cup {<<lu>> : lu \in LUs}
    /\ mode = "NOT_CONNECTED" /\ connected_lu = CN
    /\ printer = [pid |-> CN, watch |-> {}, timeout |-> {}, buf |-> [p \in Pipes |-> <<>>],
                  need_cs |-> FALSE, charset_file |-> FALSE, status |-> FALSE]
    /\ child = Quiet /\ starts = 0

Next ==
    \/ printer_output
    \/ printer_error
    \/ printer_otimeout
    \/ printer_etimeout
    \/ HostMode
    \/ HostDisconnects
    \/ HostNamesLU
    \/ ChildWrites
    \/ ChildExits

Spec == Init /\ [][Next]_vars

-----------------------------------------------------------------------------
TypeOK ==
    /\ printer_lu \in {CN, Dot} \cup {<<lu>> : lu \in LUs} /\ mode \in Modes
    /\ connected_lu \in {CN} \cup {<<lu>> : lu \in LUs}
    /\ printer \in Printers /\ child \in Children

(* A process only prints while the session is in 3270 mode, and one that is   *)
(* associated with it only while it is in TN3270E: however the host changes   *)
(* the mode, or drops the line, the process has been told to end.  (The unit  *)
(* it prints for may differ by then: a host may name another at any time.)    *)
PrintsForSession ==
    printer_running(printer) => In3270(mode) /\ (printer.pid[1] = "assoc" => InE(mode))

(* What is left of a process when it has ended: neither watch, nor timeout,   *)
(* nor text that would be shown as another's.                                 *)
NothingLeft ==
    ~printer_running(printer) =>
        printer.watch = {} /\ printer.timeout = {} /\ \A p \in Pipes : printer.buf[p] = <<>>

(* Text that was read waits for a timeout that will show it, and the buffer   *)
(* has room for the next read: without room read returns nothing, which is    *)
(* taken for the end of the process.                                          *)
OutputShown ==
    /\ \A p \in Pipes : /\ printer.buf[p] # <<>> => p \in printer.timeout
                        /\ Len(printer.buf[p]) <= PRINTER_BUF - 2
    /\ Len(LastWords(printer)) <= PRINTER_BUF - 1

(* All of it.                                                                 *)
PrinterKept == TypeOK /\ PrintsForSession /\ NothingLeft /\ OutputShown
=============================================================================
