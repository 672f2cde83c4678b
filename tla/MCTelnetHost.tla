----------------------------- MODULE MCTelnetHost -----------------------------
(* Two sides of the telnet layer for TLC.  A behaviour has either a host that *)
(* lacks one of the terminal's functions and has one that the terminal lacks, *)
(* or a user who types lines in an ANSI session, on a screen of two lines of  *)
(* six.                                                                       *)
EXTENDS TelnetHost

CONSTANTS Rows, Cols, Graphic, Key, BUFSZ, MaxEvents

VARIABLES part, term, linemode, lbuf, lnext, sent, start, clean, events

lineVars == <<term, linemode, lbuf, lnext, sent, start, clean, events>>

Line == INSTANCE LineMode

MCInit == part \in {"options", "lines"} /\ HostInit /\ Line!Init

MCNext == /\ \/ part = "options" /\ HostNext /\ UNCHANGED lineVars
             \/ part = "lines" /\ Line!Next /\ UNCHANGED hostVars
          /\ UNCHANGED part

(* The fairness of HostSpec; nothing is on its way while lines are typed.     *)
MCSpec == /\ MCInit /\ [][MCNext]_<<hostVars, lineVars, part>>
          /\ WF_hostVars(part = "options" /\ HostReceives /\ UNCHANGED lineVars)
          /\ WF_hostVars(part = "options" /\ TerminalReceives /\ UNCHANGED lineVars)

(* LineMode's property, under the name the configuration uses.                *)
EchoMatches == Line!EchoMatches
=============================================================================
