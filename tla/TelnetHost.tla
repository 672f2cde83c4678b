------------------------------ MODULE TelnetHost ------------------------------
(***************************************************************************)
(* The telnet layer of the terminal (Telnet) and a host that keeps the     *)
(* protocol, joined by a connection that loses nothing and keeps order.    *)
(* The host is not part of the repository: it answers options as RFC 1143  *)
(* says, and negotiates TN3270E as RFC 2355 says, which is what telnet.c   *)
(* is written for.  The messages of both cross each other, and either may  *)
(* change an option the other is just asking about.                        *)
(***************************************************************************)
EXTENDS Telnet

CONSTANTS
    HostFunctions,  \* the TN3270E functions the host supports
    Accepted,       \* the options it agrees to when asked
    MaxStarts       \* bound of the model on the options it starts to change

ASSUME HostAssumption == HostFunctions \subseteq Function /\ MaxStarts \in Nat

VARIABLES
    host,           \* what the host believes
    toHost,         \* messages on their way
    toTerminal

hostVars == <<h3270, record, host, toHost, toTerminal>>

-----------------------------------------------------------------------------
OptionState == {"NO", "YES", "WANTNO", "WANTYES"}
NoAgreement == {"none"}                  \* not a set of functions

HostState == [yours  : [Option -> OptionState],    \* of the terminal's options
              mine   : [Option -> OptionState],    \* of its own
              funcs  : (SUBSET Function) \cup {NoAgreement},
              starts : 0 .. MaxStarts]

HostInit ==
    /\ h3270 = NetConnected
    /\ record = NoRecord
    /\ host = [yours |-> [o \in Option |-> "NO"], mine |-> [o \in Option |-> "NO"],
               funcs |-> NoAgreement, starts |-> 0]
    /\ toHost = <<>> /\ toTerminal = <<>>

-----------------------------------------------------------------------------
(* The host starts to change an option. *)

Ask(which, o, to, message) ==
    /\ host.starts < MaxStarts
    /\ host' = [host EXCEPT ![which][o] = to, !.starts = @ + 1]
    /\ toTerminal' = Append(toTerminal, <<message, o>>)
    /\ UNCHANGED <<h3270, record, toHost>>

HostStarts == \E o \in Option :
    \/ host.yours[o] = "NO"  /\ Ask("yours", o, "WANTYES", "DO")
    \/ host.yours[o] = "YES" /\ Ask("yours", o, "WANTNO", "DONT")
    \/ host.mine[o]  = "NO"  /\ Ask("mine", o, "WANTYES", "WILL")
    \/ host.mine[o]  = "YES" /\ Ask("mine", o, "WANTNO", "WONT")

(* An answer, or a wish of the terminal: "yes" and "no" are how it says so,   *)
(* "agree" and "refuse" how the host answers.                                 *)
NextOptionState(state, positive, accepted) ==
    CASE state = "WANTYES"                   -> IF positive THEN "YES" ELSE "NO"
      [] state = "WANTNO"                    -> "NO"
      [] state = "YES"                       -> IF positive THEN "YES" ELSE "NO"
      [] state = "NO"                        -> IF positive /\ accepted THEN "YES" ELSE "NO"

Reply(state, positive, accepted, agree, refuse) ==
    CASE state = "NO" /\ positive            -> <<IF accepted THEN agree ELSE refuse>>
      [] state = "YES" /\ ~positive          -> <<refuse>>
      [] OTHER                               -> <<>>

(* With TN3270E agreed on the host asks for the device type; with its end     *)
(* the agreement on functions is void.                                        *)
HostOption(which, o, positive, agree, refuse) ==
    LET old  == host[which][o]
        new  == NextOptionState(old, positive, o \in Accepted)
        back == Reply(old, positive, o \in Accepted, agree, refuse)
        tn3270e == which = "yours" /\ o = "TN3270E" /\ old # new
    IN  /\ host' = [host EXCEPT ![which][o] = new, !.funcs = IF tn3270e THEN NoAgreement ELSE @]
        /\ toTerminal' = toTerminal
                         \o [i \in DOMAIN back |-> <<back[i], o>>]
                         \o (IF tn3270e /\ new = "YES" THEN << <<"SEND_DEVICE_TYPE">> >> ELSE <<>>)

HostAnswers(reply, funcs) ==
    /\ host' = [host EXCEPT !.funcs = funcs]
    /\ toTerminal' = Append(toTerminal, reply)

InTn3270eNegotiation == host.yours["TN3270E"] = "YES"

HostFunctionsRequest(f) ==
    IF f \subseteq HostFunctions
    THEN HostAnswers(<<"FUNCTIONS_IS", f>>, f)
    ELSE HostAnswers(<<"FUNCTIONS_REQUEST", f \cap HostFunctions>>, host.funcs)

HostReceives ==
    /\ toHost # <<>>
    /\ toHost' = Tail(toHost)
    /\ UNCHANGED <<h3270, record>>
    /\ LET m == Head(toHost)
       IN  CASE m[1] = "WILL" -> HostOption("yours", m[2], TRUE, "DO", "DONT")
             [] m[1] = "WONT" -> HostOption("yours", m[2], FALSE, "DO", "DONT")
             [] m[1] = "DO"   -> HostOption("mine", m[2], TRUE, "WILL", "WONT")
             [] m[1] = "DONT" -> HostOption("mine", m[2], FALSE, "WILL", "WONT")
             [] m[1] = "DEVICE_TYPE_REQUEST" /\ InTn3270eNegotiation ->
                    \E reply \in {"DEVICE_TYPE_IS", "REJECT_LU", "REJECT"} :
                       HostAnswers(<<reply>>, host.funcs)
             [] m[1] = "FUNCTIONS_REQUEST" /\ InTn3270eNegotiation -> HostFunctionsRequest(m[2])
             [] m[1] = "FUNCTIONS_IS" /\ InTn3270eNegotiation ->
                    /\ host' = [host EXCEPT !.funcs = m[2]]
                    /\ UNCHANGED toTerminal
             [] OTHER -> UNCHANGED <<host, toTerminal>>

-----------------------------------------------------------------------------
(* The terminal: telnet_fsm chooses the handler; a subnegotiation of TN3270E  *)
(* is read only while that option is agreed to.                               *)
OptionCommand == {"WILL", "WONT", "DO", "DONT"}

OptionHandled(h, m) ==
    CASE m[1] = "WILL" -> RcvdWill(h, m[2], TRUE, TRUE)
      [] m[1] = "WONT" -> RcvdWont(h, m[2], TRUE)
      [] m[1] = "DO"   -> RcvdDo(h, m[2], TRUE, TRUE)
      [] m[1] = "DONT" -> RcvdDont(h, m[2], TRUE)

Tn3270eHandled(h, m) ==
    CASE m[1] = "SEND_DEVICE_TYPE"       -> Tn3270eRequest(h, TRUE)
      [] m[1] = "DEVICE_TYPE_IS"         -> RcvdDeviceTypeIs(h, TRUE)
      [] m[1] = "REJECT"                 -> RcvdReject(h, TRUE, TRUE)
      [] m[1] = "REJECT_LU"              -> RcvdReject(h, FALSE, TRUE)
      [] m[1] = "FUNCTIONS_REQUEST"      -> RcvdFunctionsRequest(h, m[2], TRUE)
      [] m[1] = "FUNCTIONS_IS"           -> RcvdFunctionsIs(h, m[2], TRUE)

Handled(h, m) ==
    IF m[1] \in OptionCommand THEN OptionHandled(h, m)
    ELSE IF "TN3270E" \in h.my THEN Tn3270eHandled(h, m) ELSE h

TerminalReceives ==
    /\ toTerminal # <<>>
    /\ toTerminal' = Tail(toTerminal)
    /\ LET h == Handled(h3270, Head(toTerminal))
       IN  /\ h3270' = [h EXCEPT !.out = <<>>]
           /\ toHost' = toHost \o h.out
    /\ UNCHANGED <<record, host>>

HostNext == HostStarts \/ HostReceives \/ TerminalReceives

HostSpec == HostInit /\ [][HostNext]_hostVars
            /\ WF_hostVars(HostReceives) /\ WF_hostVars(TerminalReceives)

-----------------------------------------------------------------------------
HostTypeOK == TypeOK /\ host \in HostState

Quiescent == toHost = <<>> /\ toTerminal = <<>>

Known(agreed) == IF agreed THEN "YES" ELSE "NO"

(* When nothing is on its way, terminal and host agree on every option,       *)
(* whoever asked, volunteered, refused or backed off, and in whatever order   *)
(* their messages crossed; neither waits for an answer the other will not     *)
(* give (telnet_fsm, backoff_tn3270e).  Of the terminal's options a timing    *)
(* mark is agreed to each time it is asked for, and never on.                 *)
OptionsAgree ==
    Quiescent =>
        /\ \A o \in Option \ {"TM"} : host.yours[o] = Known(o \in h3270.my)
        /\ \A o \in Option : host.mine[o] = Known(o \in h3270.his)

(* ... and on the functions of TN3270E, which are then negotiated to the end  *)
(* (tn3270e_negotiate).                                                       *)
FunctionsAgree ==
    Quiescent => host.funcs = IF "TN3270E" \in h3270.my /\ h3270.negotiated
                              THEN h3270.funcs ELSE NoAgreement

(* Together: the two ends of a quiet connection know the same.                *)
Agreement == HostTypeOK /\ OptionsAgree /\ FunctionsAgree

(* However the host answers, the exchange comes to an end: no option is       *)
(* discussed for ever, and a list of LUs that are all refused is gone through *)
(* (next_lu, tn3270e_negotiate).                                              *)
Settles == <>[]Quiescent
=============================================================================
