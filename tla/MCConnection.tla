----------------------------- MODULE MCConnection -----------------------------
(* Connection for TLC: the library in its own main loop, as the .cfg sets it,  *)
(* the graphical program, where threads connect, with RECONNECT off, and with  *)
(* it on, one attempt at a time; the negotiation with a proxy, which is one    *)
(* step of them all, the printer session that follows a connection, and the    *)
(* host's name that comes before it.  A behaviour is of one of the six.        *)
EXTENDS Connection, Services

CONSTANTS Stored, Samples, Typed, Forms, LUNAME_SIZE

VARIABLES build, s, stored, dialog

nameVars == <<s, stored, dialog>>

Graphical    == INSTANCE Connection WITH Threaded <- TRUE, Reconnect <- FALSE
Reconnecting == INSTANCE Connection WITH Threaded <- TRUE, Reconnect <- TRUE, MaxAttempts <- 1
Names == INSTANCE HostName

(* Each type with a host, and an address of IPv6; no host; none; and what is   *)
(* not read.                                                                   *)
MCSpecs == {<<type, ":", "h", ":", "p">> :
               type \in {"passthru", "http", "telnet", "socks4", "socks4a", "socks5", "socks5d"}}
           \cup {<<"socks5", ":", "[", "h", ":", ":", "h", "]">>, <<"telnet", ":", "h">>,
                 <<"http", ":", "[", "]">>, <<"ftp", ":", "h">>, <<"http">>, <<"http", ":">>, <<>>}

(* Every short name of these marks, and longer ones of all the parts.          *)
Marks == {"L", "h", ":", "@", "[", "]", " ", ","}
MCSamples ==
    UNION {[1 .. i -> Marks] : i \in 0 .. 3}
    \cup {p \o u \o h \o q :
             p \in {<<>>, <<"L", ":", " ">>, <<"h", ":">>, <<"C", ":", "L", ":">>},
             u \in {<<>>, <<"@">>, <<"h", "h", "h", " ", "@", " ">>, <<"h", " ", "h", "@">>},
             h \in {<<"h", "h">>, <<"[", "h", ":", "h", "]">>, <<"[", "h", "@", "h", " ", "]">>, <<"h", "[">>},
             q \in {<<":", "h">>, <<" ", "h">>, <<" ", ":", " ", "h">>, <<":", "h", ",", "as400">>,
                    <<"h">>, <<":", "h", ":", "h">>, <<" ", "h", " ", "h">>}}
MCTyped  == {<<"C", ":", "L", ":", "h", "h">>, <<"h", "h">>, <<>>, <<"h", "[">>}
MCStored == {<<>>, <<"h", "h">>, <<"L", ":", "h", "h", ":", "h">>, <<"h", "h", ",", "as400">>,
             <<"h", "h", ":", "h", ",", "as400">>, <<"L", ":">>, <<"h", "@", "[", "h", ":", "h", "]">>}
MCForms  == {[secure |-> b, as400 |-> c, host |-> <<"h", "h">>, port |-> <<"h">>] : b, c \in BOOLEAN}
            \cup {[secure |-> FALSE, as400 |-> FALSE, host |-> <<"h", "h">>, port |-> <<>>]}

MCInit == /\ build \in {"library", "graphical", "reconnecting", "proxy", "printer", "names"} /\ Init
          /\ Negotiation!Init /\ (build = "proxy" \/ spec = <<>>)
          /\ Printing!Init /\ (build = "printer" \/ printer_lu = <<>>)
          /\ Names!Init /\ (build = "names" \/ (stored = <<>> /\ ~s.toggled))

MCNext == /\ \/ build = "library"   /\ Next /\ UNCHANGED <<proxyVars, printerVars, nameVars>>
             \/ build = "graphical" /\ Graphical!Next /\ UNCHANGED <<proxyVars, printerVars, nameVars>>
             \/ build = "reconnecting" /\ Reconnecting!Next /\ UNCHANGED <<proxyVars, printerVars, nameVars>>
             \/ build = "proxy"     /\ Negotiation!Next /\ UNCHANGED <<vars, printerVars, nameVars>>
             \/ build = "printer"   /\ Printing!Next /\ UNCHANGED <<vars, proxyVars, nameVars>>
             \/ build = "names"     /\ Names!Next /\ UNCHANGED <<vars, proxyVars, printerVars>>
          /\ UNCHANGED build

(* The main loop and the network are fair in all of them. *)
Rest == UNCHANGED <<build, proxyVars, printerVars, nameVars>>
MCSpec == /\ MCInit /\ [][MCNext]_<<vars, proxyVars, printerVars, nameVars, build>>
          /\ WF_vars(build = "library" /\ Progress /\ Rest)
          /\ WF_vars(build = "library" /\ Thread /\ Rest)
          /\ SF_vars(build = "library" /\ TryReconnect /\ Rest)
          /\ WF_vars(build = "graphical" /\ Graphical!Progress /\ Rest)
          /\ WF_vars(build = "graphical" /\ Graphical!Thread /\ Rest)
          /\ WF_vars(build = "reconnecting" /\ Reconnecting!Progress /\ Rest)
          /\ WF_vars(build = "reconnecting" /\ Reconnecting!Thread /\ Rest)
          /\ SF_vars(build = "reconnecting" /\ Reconnecting!TryReconnect /\ Rest)

(* HostName's property, under the name the configuration uses.                 *)
NamesKept == Names!NamesKept
=============================================================================
