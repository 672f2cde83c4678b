------------------------------- MODULE HostName -------------------------------
(***************************************************************************)
(* The name of a host from where it is typed to where it is used: how      *)
(* lib3270_connect and split_host (src/src/lib/host.c) take it apart, the  *)
(* session's fields it sets, the dialog that edits the stored name and the *)
(* menu, the key and the command that connect to it                        *)
(* (src/src/gtk2/action_calls.c, commands.c), and the groups of actions    *)
(* that are sensitive meanwhile (main.c).                                  *)
(*                                                                         *)
(* A name is a sequence of marks and words.  An attempt is answered before *)
(* another begins: those inside each other are Connection's.               *)
(***************************************************************************)
EXTENDS Naturals, Sequences, SequencesExt, FiniteSetsExt

CONSTANTS
    Stored,         \* names that the settings or the command line may have
    Samples,        \* names given to the command as the program's first
    Typed,          \* names given to the command
    Forms,          \* what a user may leave in the dialog's fields
    LUNAME_SIZE     \* room for an LU name

VARIABLES
    s,              \* the session and the window: see Init
    stored,         \* Hostname of the settings, <<>> if it has none
    dialog          \* fields of the dialog, <<>> if it is not shown

vars == <<s, stored, dialog>>

Letters == {"L", "C", "h"}              \* words of one letter
Options == {"L", "C"}                   \* TLS; no login
Telnet  == <<"telnet">>                 \* the port if none is named

(* The place of the first of some marks, behind the end if there is none.     *)
First(n, marks)    == Min({i \in DOMAIN n : n[i] \in marks} \cup {Len(n) + 1})
Before(n, i)       == SubSeq(n, 1, i - 1)
From(n, i)         == SubSeq(n, i, Len(n))
Has(n, mark)       == \E i \in DOMAIN n : n[i] = mark
Skip(n)            == From(n, Min({i \in DOMAIN n : n[i] # " "} \cup {Len(n) + 1}))
Trim(n)            == Reverse(Skip(Reverse(Skip(n))))

-----------------------------------------------------------------------------
(* The name taken apart: ok if it can be, with what was read until then. *)

Fail(r) == [r EXCEPT !.ok = FALSE]

Qualifier(r) ==
    LET n == r.rest
    IN  IF ~r.ok \/ ~(Len(n) >= 2 /\ n[1] \in Letters /\ n[2] = ":") THEN r
        ELSE IF n[1] \notin Options THEN Fail(r)
        ELSE [r EXCEPT !.rest = Skip(From(n, 3)), !.options = @ \cup {n[1]}]

(* As many as there are, of which a name has fewer than it has marks.         *)
Qualifiers(r) == FoldLeft(LAMBDA x, mark : Qualifier(x), r, r.rest)

(* An LU name that fills its field is not ended in it.                        *)
Luname(lu) == IF Len(lu) <= LUNAME_SIZE THEN lu ELSE <<"unended">>

(* Mutant: an at sign inside the brackets ends an LU name.                    *)
LuAnywhere(r) ==
    LET n  == r.rest
        at == First(n, {"@"})
    IN  IF at > Len(n) THEN r
        ELSE [r EXCEPT !.ok = at # 1, !.lu = Luname(Before(n, at)), !.rest = Skip(From(n, at + 1))]

Lu(r) ==
    LET n  == r.rest
        at == First(n, {"@"})
        lu == Before(n, First(n, {"@", " "}))
    IN  IF at > First(n, {"["}) \/ at > Len(n) THEN r
        ELSE IF at = 1 THEN Fail(r)
        ELSE IF Trim(Before(n, at)) # lu THEN Fail([r EXCEPT !.lu = lu])
        ELSE [r EXCEPT !.lu = Luname(lu), !.rest = Skip(From(n, at + 1))]

Bracketed(r) ==
    LET n   == r.rest
        end == First(n, {"]"})
    IN  IF n[1] # "[" \/ end > Len(n) \/ end = 2 THEN Fail(r)
        ELSE [r EXCEPT !.host = SubSeq(n, 2, end - 1), !.rest = Skip(From(n, end + 1))]

Plain(r) ==
    LET n   == r.rest
        end == First(n, {" ", ":"})
    IN  IF end = 1 THEN Fail(r)
        ELSE [r EXCEPT !.host = Before(n, end), !.rest = Skip(From(n, end))]

(* A port needs no mark before it if the host was bracketed.                  *)
Port(r) ==
    LET n == IF r.rest # <<>> /\ r.rest[1] = ":" THEN Skip(Tail(r.rest)) ELSE r.rest
    IN  IF r.rest = <<>> THEN r
        ELSE IF n = <<>> \/ Has(n, " ") \/ Has(n, ":") THEN Fail(r)
        ELSE [r EXCEPT !.port = n]

split_host(name) ==
    LET none == [ok |-> TRUE, options |-> {}, lu |-> <<>>, host |-> <<>>, port |-> <<>>, rest |-> Trim(name)]
        p    == Qualifiers(none)
        u    == IF p.ok THEN Lu(p) ELSE p
        h    == IF Has(u.rest, "[") THEN Bracketed(u) ELSE Plain(u)
    IN  IF Trim(name) = <<>> \/ ~u.ok THEN Fail(u) ELSE IF ~h.ok THEN h ELSE Port(h)

-----------------------------------------------------------------------------
(* The session. *)

Idle       == s.cstate = "off"
PConnected == s.cstate \in {"on", "in"}

(* What is behind a comma is an option, and not the host's name.              *)
Hostname(name) == Trim(Before(name, First(name, {","})))
As400(name)    == From(name, First(name, {","}) + 1) = <<"as400">>

(* Mutant: brackets are left off.                                             *)
qualified_hostBare(r) ==
    (IF "L" \in r.options THEN <<"L", ":">> ELSE <<>>) \o r.host \o <<":">> \o r.port

qualified_host(r) ==
    (IF "L" \in r.options THEN <<"L", ":">> ELSE <<>>)
    \o (IF Has(r.host, ":") THEN <<"[">> \o r.host \o <<"]">> ELSE r.host)
    \o <<":">> \o r.port

(* Mutant: what an earlier name asked for stays.                              *)
Named(x, r) == [x EXCEPT !.options = @ \cup r.options, !.lu = r.lu]

(* Only the option for no login is never taken back.                          *)
Marked(x, r) == [x EXCEPT !.options = r.options \cup (@ \cap {"C"}), !.lu = r.lu]

do_connect(x, name) ==
    LET r == split_host(name)
        y == Marked([x EXCEPT !.reconnect = name], r)
    IN  IF name = <<>> THEN [x EXCEPT !.rc = "refused"]
        ELSE IF ~r.ok THEN [y EXCEPT !.rc = "refused"]
        ELSE [y EXCEPT !.cstate = "trying", !.host = r.host,
                       !.port = IF r.port = <<>> THEN Telnet ELSE r.port]

(* As400 is as it was if the name has no option.                              *)
lib3270_connect(x, name, by) ==
    IF x.retry THEN [x EXCEPT !.rc = "EAGAIN"]
    ELSE IF x.cstate # "off" THEN [x EXCEPT !.rc = "EBUSY"]
    ELSE do_connect([x EXCEPT !.asked = name, !.by = by, !.rc = "none",
                              !.as400 = IF Has(name, ",") THEN As400(name) ELSE @],
                    Hostname(name))

(* action_connect and the command: no group of actions meanwhile.             *)
ConnectTo(x, name) == lib3270_connect([x EXCEPT !.groups = {}], name, "action")

(* Of a session that has ended, nobody reads but whether it had no login.     *)
Ended(x) ==
    [x EXCEPT !.cstate = "off", !.by = "none", !.asked = <<>>, !.options = @ \cap {"C"},
              !.lu = <<>>, !.host = <<>>, !.port = <<>>]

(* Mutant: the actions are told of a connection only.                         *)
host_disconnectedQuiet(x) == Ended(x)

host_disconnected(x) == [Ended(x) EXCEPT !.groups = {"OFFLINE"}]

-----------------------------------------------------------------------------
(* The dialog. *)

FieldsOf(name) ==
    LET secure == Len(name) >= 2 /\ SubSeq(name, 1, 2) = <<"L", ":">>
        rest   == IF secure THEN From(name, 3) ELSE name
        text   == Before(rest, First(rest, {","}))
        colon  == First(text, {":"})
    IN  [secure |-> secure, as400 |-> As400(rest), host |-> Before(text, colon),
         port |-> IF Has(text, ":") THEN From(text, colon + 1) ELSE Telnet]

(* Mutant: the port goes behind the option.                                   *)
TextPortLast(f) ==
    (IF f.secure THEN <<"L", ":">> ELSE <<>>) \o f.host
    \o (IF f.as400 THEN <<",", "as400">> ELSE <<>>) \o <<":">> \o f.port

Text(f) ==
    (IF f.secure THEN <<"L", ":">> ELSE <<>>) \o f.host \o <<":">> \o f.port
    \o (IF f.as400 THEN <<",", "as400">> ELSE <<>>)

-----------------------------------------------------------------------------
Fresh(toggled) ==
    [cstate |-> "off", by |-> "none", asked |-> <<>>, rc |-> "none", options |-> {},
     as400 |-> FALSE, lu |-> <<>>, host |-> <<>>, port |-> <<>>, reconnect |-> <<>>,
     retry |-> FALSE, toggled |-> toggled, groups |-> {"OFFLINE"}]

Init ==
    /\ stored \in Stored /\ dialog = <<>>
    /\ \E toggled \in BOOLEAN : s = Fresh(toggled)

action_sethostname ==
    /\ dialog = <<>> /\ s.cstate # "trying"
    /\ dialog' = <<FieldsOf(stored)>> /\ UNCHANGED <<s, stored>>

(* The menu, and the Enter key.  Nothing else is taken while it goes on.      *)
action_connect ==
    /\ Idle /\ dialog = <<>>
    /\ IF stored = <<>> THEN action_sethostname
       ELSE s' = ConnectTo(s, stored) /\ UNCHANGED <<stored, dialog>>

command_connect ==
    /\ Idle /\ dialog = <<>>
    /\ \E name \in IF s = Fresh(s.toggled) /\ stored = <<>> THEN Samples ELSE Typed :
         s' = ConnectTo(s, name)
    /\ UNCHANGED <<stored, dialog>>

(* A user changes the fields, accepts them, or cancels.                       *)
Edits  == \E f \in Forms : s.cstate # "trying" /\ dialog # <<>> /\ dialog' = <<f>> /\ UNCHANGED <<s, stored>>
Cancel == s.cstate # "trying" /\ dialog # <<>> /\ dialog' = <<>> /\ UNCHANGED <<s, stored>>
Accept == /\ dialog # <<>> /\ s.cstate # "trying"
          /\ s' = lib3270_connect(s, Text(dialog[1]), "dialog")
          /\ UNCHANGED <<stored, dialog>>

(* net_connect fails; or there is a connection.                               *)
Fails    == s.cstate = "trying" /\ s' = [host_disconnected(s) EXCEPT !.reconnect = <<>>] /\ UNCHANGED <<stored, dialog>>
Connects == /\ s.cstate = "trying"
            /\ s' = [s EXCEPT !.cstate = "on", !.groups = {"ONLINE"}] /\ UNCHANGED <<stored, dialog>>

(* The host's mode ends the wait, and a name from the dialog is stored.       *)
Settles ==
    /\ s.cstate = "on" /\ s' = [s EXCEPT !.cstate = "in"]
    /\ IF s.by = "dialog" THEN stored' = s.asked /\ dialog' = <<>> ELSE UNCHANGED <<stored, dialog>>

host_disconnect ==
    /\ PConnected /\ s' = [host_disconnected(s) EXCEPT !.retry = s.toggled, !.reconnect = IF s.toggled THEN @ ELSE <<>>]
    /\ UNCHANGED <<stored, dialog>>

(* The timer of an automatic reconnection.                                    *)
try_reconnect ==
    /\ s.retry
    /\ s' = lib3270_connect([s EXCEPT !.retry = FALSE], s.reconnect, "timer")
    /\ UNCHANGED <<stored, dialog>>

(* A dump of a screen takes both groups.                                      *)
action_loadscreendump ==
    /\ dialog = <<>> /\ s.cstate # "trying"
    /\ s' = [s EXCEPT !.groups = {"ONLINE", "OFFLINE"}] /\ UNCHANGED <<stored, dialog>>

Next ==
    \/ action_sethostname \/ action_connect \/ command_connect \/ Edits \/ Cancel \/ Accept
    \/ Fails \/ Connects \/ Settles \/ host_disconnect \/ try_reconnect \/ action_loadscreendump

Spec == Init /\ [][Next]_vars

-----------------------------------------------------------------------------
(* The syntax as the comment in split_host has it, read without the code:     *)
(* prefixes P, an LU name U, a host H and a port Q that n is made of.  A      *)
(* letter and a colon are always a prefix.                                    *)
Cut(n, i, j, k) ==
    [P |-> SubSeq(n, 1, i), U |-> SubSeq(n, i + 1, j), H |-> SubSeq(n, j + 1, k), Q |-> Trim(From(n, k + 1)),
     quoted |-> n[j + 1] = "[", next |-> From(n, k + 1)]

PrefixesOnly(P) ==
    \A x \in DOMAIN P : \/ P[x] = " " /\ x > 1 /\ P[x - 1] \in {":", " "}
                        \/ P[x] = ":" /\ x > 1 /\ P[x - 1] \in Options
                        \/ P[x] \in Options /\ x < Len(P) /\ P[x + 1] = ":"

LuOf(c)   == Trim(Before(c.U, First(c.U, {"@"})))
HostOf(c) == IF c.quoted THEN SubSeq(c.H, 2, Len(c.H) - 1) ELSE c.H
PortOf(c) == IF c.Q # <<>> /\ c.Q[1] = ":" THEN Skip(Tail(c.Q)) ELSE c.Q
WithoutAny(n, marks) == \A mark \in marks : ~Has(n, mark)

IsCut(n, i, c) ==
    LET rest == From(n, i + 1)
    IN  /\ PrefixesOnly(c.P)
        /\ rest[1] # " " /\ ~(Len(rest) >= 2 /\ rest[1] \in Letters /\ rest[2] = ":")
        /\ IF c.U = <<>> THEN First(rest, {"@"}) >= First(rest, {"["})
           ELSE /\ Has(c.U, "@") /\ LuOf(c) # <<>> /\ WithoutAny(LuOf(c), {" ", "["})
                /\ Trim(From(c.U, First(c.U, {"@"}) + 1)) = <<>>
        /\ c.H[1] # " " /\ HostOf(c) # <<>>
        /\ IF c.quoted THEN c.H[Len(c.H)] = "]" /\ ~Has(HostOf(c), "]")
           ELSE /\ WithoutAny(c.H, {" ", ":", "["}) /\ ~Has(c.Q, "[")
                /\ c.next # <<>> => c.next[1] \in {" ", ":"}
        /\ c.Q # <<>> => PortOf(c) # <<>> /\ WithoutAny(PortOf(c), {" ", ":"})

Readings(n) ==
    LET places == {<<i, j, k>> \in (0 .. Len(n)) \X (0 .. Len(n)) \X (1 .. Len(n)) : i <= j /\ j < k}
    IN  {[options |-> ToSet(Cut(n, p[1], p[2], p[3]).P) \cap Options, lu |-> LuOf(Cut(n, p[1], p[2], p[3])),
          host |-> HostOf(Cut(n, p[1], p[2], p[3])), port |-> PortOf(Cut(n, p[1], p[2], p[3]))] :
             p \in {q \in places : IsCut(n, q[1], Cut(n, q[1], q[2], q[3]))}}

(* What is being tried is what the name asked for says, whatever was tried    *)
(* before it; and a name is refused only if it says nothing.                  *)
SessionRead ==
    /\ s.cstate = "trying" =>
         /\ \E r \in Readings(Hostname(s.asked)) :
              /\ s.options \ {"C"} = r.options \ {"C"} /\ r.options \subseteq s.options
              /\ s.lu = Luname(r.lu) /\ s.host = r.host
              /\ s.port = IF r.port = <<>> THEN Telnet ELSE r.port
         /\ As400(s.asked) => s.as400
    /\ s.rc = "refused" => Readings(Hostname(s.asked)) = {}

Simple(n) == Len(n) > 1 /\ \A c \in {" ", "[", "@", "]"} : ~Has(n, c)

(* The program for printers is given a name that means the same host.         *)
PrinterRead ==
    ~Idle /\ Simple(s.host) /\ ~Has(s.port, "@") /\ ~Has(s.port, "[") =>
        LET r == split_host(qualified_host(s))
        IN  r.ok /\ r.host = s.host /\ r.port = s.port /\ r.options = s.options \cap {"L"}

(* The dialog shows the stored name of a host as it is: accepted as it opens, *)
(* it asks for the same.                                                      *)
DialogRead ==
    LET r == split_host(Hostname(stored))
        a == split_host(Hostname(Text(FieldsOf(stored))))
    IN  /\ stored # <<>> /\ r.ok /\ r.options \subseteq {"L"} /\ r.lu = <<>>
        /\ Simple(r.host) /\ ~Has(stored, " ") /\ ~Has(stored, "[") /\ ~Has(stored, "@")
        => /\ a = [r EXCEPT !.port = IF @ = <<>> THEN Telnet ELSE @, !.rest = a.rest]
           /\ As400(Text(FieldsOf(stored))) = As400(stored)

(* The menus: who is connected can disconnect, and who is not can connect,    *)
(* unless the name was refused or an automatic attempt is to come.            *)
MenusUsable ==
    /\ PConnected => "ONLINE" \in s.groups
    /\ Idle => "OFFLINE" \in s.groups \/ s.rc \in {"refused", "EAGAIN"}

(* All of it.                                                                 *)
NamesKept == SessionRead /\ PrinterRead /\ DialogRead /\ MenusUsable
=============================================================================
