-------------------------------- MODULE Telnet --------------------------------
(***************************************************************************)
(* The telnet layer of a session (src/src/lib/telnet.c): the option tables *)
(* myopts and hisopts, the mode that check_in3270 derives from them, the   *)
(* negotiation of TN3270E, the list of LU names to try, urgent data, and   *)
(* the response owed for a TN3270E record.                                 *)
(*                                                                         *)
(* telnet_fsm collects the bytes of a command and then runs its handler;   *)
(* an action is one command with its handler.  A handler is an operator    *)
(* from session to session, which Telnet takes with any host and           *)
(* TelnetHost with one that keeps the protocol.  "ok" is whether a send    *)
(* succeeds.  A send that fails disconnects the session and returns, and   *)
(* the handlers of what is left in the same buffer still run ("rest").     *)
(*                                                                         *)
(* Left out: the counter of sent records, the names of LUs and types but   *)
(* for the place in the list, and what is in a record.                     *)
(***************************************************************************)
EXTENDS Naturals, Sequences

CONSTANTS
    Lus,            \* how many names h3270.luname lists, 0 if it is empty
    NonTn3270e,     \* h3270.non_tn3270e_host: the user asks for plain TN3270
    BsdTm,          \* appres.bsd_tm: timing marks are agreed to
    Option,         \* the telnet options a host speaks of
    FunctionSets,   \* the sets of TN3270E functions a host may ask for
    TlsFirst        \* the host starts TLS before any other option

ASSUME LusAssumption == Lus \in Nat
ASSUME SwitchAssumption == {NonTn3270e, BsdTm, TlsFirst} \subseteq BOOLEAN

VARIABLES
    h3270,          \* the session: h3270 and the statics of telnet.c
    record          \* the 3270 record being processed

vars == <<h3270, record>>

-----------------------------------------------------------------------------
WillOptions == {"SGA", "BINARY", "EOR", "TTYPE", "ECHO", "TN3270E"}
DoOptions   == {"BINARY", "EOR", "TTYPE", "SGA", "NAWS", "TM", "TN3270E", "STARTTLS"}

Function     == {"BIND_IMAGE", "DATA_STREAM_CTL", "RESPONSES", "SCS_CTL_CODES", "SYSREQ"}
OurFunctions == {"BIND_IMAGE", "RESPONSES", "SYSREQ"}

CState == {"NOT_CONNECTED", "CONNECTED_INITIAL", "CONNECTED_ANSI",
           "CONNECTED_3270", "CONNECTED_INITIAL_E", "CONNECTED_NVT",
           "CONNECTED_SSCP", "CONNECTED_TN3270E"}
Submode == {"E_NONE", "E_3270", "E_NVT", "E_SSCP"}
ResponseFlag == {"NO_RESPONSE", "ERROR_RESPONSE", "ALWAYS_RESPONSE"}

Session ==
    [cstate     : CState,
     sock       : BOOLEAN,             \* h3270.sock is a socket
     rest       : BOOLEAN,             \* net_input goes on with a closed session's buffer
     my         : SUBSET Option,       \* myopts
     his        : SUBSET Option,       \* hisopts
     linemode   : BOOLEAN,
     tls        : BOOLEAN,             \* need_tls_follows
     negotiated : BOOLEAN,             \* tn3270e_negotiated
     submode    : Submode,
     bound      : BOOLEAN,             \* tn3270e_bound
     funcs      : SUBSET Function,     \* e_funcs
     curr_lu    : 0 .. Lus,            \* place in the list; 0 is NULL
     try_lu     : 0 .. Lus,
     syncing    : BOOLEAN,
     excepting  : BOOLEAN,             \* the exception watch of xio.c
     response   : ResponseFlag,        \* response_required
     out        : {<<>>}]              \* what the handler sent, until its end

NoRecord == [flag |-> "NO_RESPONSE", open |-> FALSE, output |-> FALSE, answers |-> 0]

Record == [flag : ResponseFlag, open : BOOLEAN, output : BOOLEAN, answers : 0 .. 1]

TypeOK == h3270 \in Session /\ record \in Record

Connected(h) == h.cstate # "NOT_CONNECTED"
InE(h)       == h.cstate \in {"CONNECTED_INITIAL_E", "CONNECTED_NVT",
                              "CONNECTED_SSCP", "CONNECTED_TN3270E"}
In3270(h)    == h.cstate \in {"CONNECTED_3270", "CONNECTED_TN3270E", "CONNECTED_SSCP"}

(* setup_lus *)
SetupLus(h) == LET first == IF Lus > 0 THEN 1 ELSE 0
               IN  [h EXCEPT !.curr_lu = first, !.try_lu = first]

(* Mutant: the end of the list is not seen. *)
NextLuUnbounded(h) ==
    IF h.curr_lu = 0 THEN h ELSE [h EXCEPT !.curr_lu = @ + 1, !.try_lu = h.curr_lu + 1]

NextLu(h) ==
    IF h.curr_lu = 0 THEN h
    ELSE IF h.curr_lu < Lus
    THEN [h EXCEPT !.curr_lu = @ + 1, !.try_lu = h.curr_lu + 1]
    ELSE [h EXCEPT !.curr_lu = 0, !.try_lu = 0]

(* net_connected and, after it, host_connected *)
NetConnected ==
    SetupLus([cstate |-> "CONNECTED_INITIAL", sock |-> TRUE, rest |-> FALSE,
              my |-> {}, his |-> {}, linemode |-> TRUE, tls |-> FALSE,
              negotiated |-> FALSE, submode |-> "E_NONE", bound |-> FALSE,
              funcs |-> OurFunctions, curr_lu |-> 0, try_lu |-> 0,
              syncing |-> FALSE, excepting |-> TRUE,
              response |-> "NO_RESPONSE", out |-> <<>>])

HostDisconnect(h) ==
    IF Connected(h)
    THEN [h EXCEPT !.cstate = "NOT_CONNECTED", !.sock = FALSE, !.excepting = FALSE]
    ELSE h

Init == h3270 = HostDisconnect(NetConnected) /\ record = NoRecord

(* net_rawout *)
Send(h, message, ok) ==
    IF h.sock /\ ok THEN [h EXCEPT !.out = Append(@, message)] ELSE HostDisconnect(h)

-----------------------------------------------------------------------------
(* The mode that follows from the tables. *)

Tn3270Options(h) ==
    {"BINARY", "EOR", "TTYPE"} \subseteq h.my /\ {"BINARY", "EOR"} \subseteq h.his

Mode(h) ==
    IF "TN3270E" \in h.my
    THEN CASE ~h.negotiated \/ h.submode = "E_NONE" -> "CONNECTED_INITIAL_E"
           [] h.negotiated /\ h.submode = "E_NVT"   -> "CONNECTED_NVT"
           [] h.negotiated /\ h.submode = "E_3270"  -> "CONNECTED_TN3270E"
           [] h.negotiated /\ h.submode = "E_SSCP"  -> "CONNECTED_SSCP"
    ELSE CASE Tn3270Options(h)                      -> "CONNECTED_3270"
           [] ~Tn3270Options(h) /\ h.cstate = "CONNECTED_INITIAL" -> "CONNECTED_INITIAL"
           [] OTHER                                 -> "CONNECTED_ANSI"

(* Mutant: what TN3270E agreed on outlives it. *)
CheckIn3270Keeps(h) == [h EXCEPT !.cstate = Mode(h)]

(* The LU list is not reset: the code compares IN_E with itself. *)
CheckIn3270(h) ==
    IF Mode(h) = h.cstate THEN h
    ELSE IF "TN3270E" \in h.my THEN [h EXCEPT !.cstate = Mode(h)]
    ELSE [h EXCEPT !.cstate = Mode(h), !.negotiated = FALSE,
                   !.submode = "E_NONE", !.bound = FALSE]

CheckLinemode(h) == [h EXCEPT !.linemode = "ECHO" \notin h.his]

CheckModes(h) == CheckLinemode(CheckIn3270(h))

-----------------------------------------------------------------------------
(* WILL, WONT, DO and DONT: only a change is answered, and made. *)

RcvdWill(h, o, ok, ok2) ==
    IF o \notin WillOptions \/ (o = "TN3270E" /\ NonTn3270e)
    THEN Send(h, <<"DONT", o>>, ok)
    ELSE IF o \in h.his
    THEN h
    ELSE LET does == Send([h EXCEPT !.his = @ \cup {o}], <<"DO", o>>, ok)
         IN  CheckModes(IF o = "EOR" /\ o \notin h.my
                        THEN Send([does EXCEPT !.my = @ \cup {o}], <<"WILL", o>>, ok2)
                        ELSE does)

RcvdWont(h, o, ok) ==
    IF o \notin h.his
    THEN h
    ELSE CheckModes(Send([h EXCEPT !.his = @ \ {o}], <<"DONT", o>>, ok))

(* Mutant: a refused option leaves the modes as they were. *)
RcvdDontUnchecked(h, o, ok) ==
    IF o \notin h.my THEN h ELSE Send([h EXCEPT !.my = @ \ {o}], <<"WONT", o>>, ok)

(* Mutant: the host's DONT is obeyed and not confirmed. *)
RcvdDontSilent(h, o, ok) ==
    IF o \notin h.my THEN h ELSE CheckModes([h EXCEPT !.my = @ \ {o}])

RcvdDont(h, o, ok) ==
    IF o \notin h.my
    THEN h
    ELSE CheckModes(Send([h EXCEPT !.my = @ \ {o}], <<"WONT", o>>, ok))

(* What follows a DO of these two, agreed to before or not. *)
AfterDo(h, o, ok) ==
    CASE o = "NAWS"     -> Send(h, <<"NAWS">>, ok)
      [] o = "STARTTLS" -> [Send(h, <<"STARTTLS_FOLLOWS">>, ok) EXCEPT !.tls = TRUE]
      [] OTHER          -> h

RcvdDo(h, o, ok, ok2) ==
    IF \/ o \notin DoOptions
       \/ o = "TN3270E" /\ NonTn3270e
       \/ o = "TM" /\ ~BsdTm
    THEN Send(h, <<"WONT", o>>, ok)
    ELSE IF o \in h.my
    THEN AfterDo(h, o, ok2)
    ELSE AfterDo(CheckModes(Send([h EXCEPT !.my = @ \cup ({o} \ {"TM"})], <<"WILL", o>>, ok)),
                 o, ok2)

-----------------------------------------------------------------------------
(* Subnegotiations. *)

(* SB TTYPE SEND: the terminal type, with the LU to try. *)
RcvdTtypeSend(h, ok) == NextLu(Send(h, <<"TTYPE_IS", h.try_lu>>, ok))

Tn3270eRequest(h, ok) == Send(h, <<"DEVICE_TYPE_REQUEST", h.try_lu>>, ok)

BackoffTn3270e(h, ok) ==
    CheckIn3270([SetupLus(Send(h, <<"WONT", "TN3270E">>, ok)) EXCEPT !.my = @ \ {"TN3270E"}])

RcvdDeviceTypeIs(h, ok) == Send(h, <<"FUNCTIONS_REQUEST", h.funcs>>, ok)

(* Mutant: the same LU is tried again. *)
RcvdRejectSame(h, final, ok) ==
    IF final \/ h.try_lu = 0 THEN BackoffTn3270e(h, ok) ELSE Tn3270eRequest(h, ok)

(* Reasons INV-DEVICE-TYPE and UNSUPPORTED-REQ are final; any other blames    *)
(* the LU.                                                                    *)
RcvdReject(h, final, ok) ==
    IF final THEN BackoffTn3270e(h, ok)
    ELSE LET next == NextLu(h)
         IN  IF next.try_lu # 0 THEN Tn3270eRequest(next, ok)
                                ELSE BackoffTn3270e(next, ok)

Complete(h) == CheckIn3270([h EXCEPT !.negotiated = TRUE])

(* Mutant: the host's list is agreed to and ours kept. *)
RcvdFunctionsRequestKeeps(h, f, ok) ==
    IF f = h.funcs \/ ~(h.funcs \subseteq f)
    THEN Complete(Send(h, <<"FUNCTIONS_IS", f>>, ok))
    ELSE Send([h EXCEPT !.funcs = @ \cap f], <<"FUNCTIONS_REQUEST", h.funcs \cap f>>, ok)

(* Anything that lacks one of our functions is taken to be "what we want, or  *)
(* less", whatever else it has.                                               *)
RcvdFunctionsRequest(h, f, ok) ==
    IF f = h.funcs \/ ~(h.funcs \subseteq f)
    THEN Complete(Send([h EXCEPT !.funcs = f], <<"FUNCTIONS_IS", f>>, ok))
    ELSE Send([h EXCEPT !.funcs = @ \cap f], <<"FUNCTIONS_REQUEST", h.funcs \cap f>>, ok)

RcvdFunctionsIs(h, f, ok) ==
    IF h.funcs \subseteq f /\ f # h.funcs
    THEN BackoffTn3270e(h, ok)
    ELSE Complete([h EXCEPT !.funcs = f])

-----------------------------------------------------------------------------
(* Records. *)

(* Data after a change of mode, or before one that is still to come. *)
Enter(h, submode) == CheckIn3270([h EXCEPT !.submode = submode])

NeedsBind(h) == "BIND_IMAGE" \in h.funcs

(* net_abort, the SYSREQ key *)
NetAbort(h, ok) ==
    LET ao == Send(h, <<"AO">>, ok)
    IN  CASE h.submode = "E_3270" -> Enter(ao, "E_SSCP")
          [] h.submode = "E_SSCP" -> IF h.bound \/ ~NeedsBind(h)
                                     THEN Enter(ao, "E_3270") ELSE ao
          [] OTHER                -> h

(* Mutant: the response given with the output is forgotten. *)
NetOutputForgets(h, ok) ==
    IF h.cstate \in {"CONNECTED_TN3270E", "CONNECTED_SSCP"}
       /\ h.response = "ALWAYS_RESPONSE"
    THEN Send(h, <<"ACK">>, ok)
    ELSE h

(* net_output, up to the record itself: an ALWAYS-RESPONSE goes first. *)
NetOutput(h, ok) ==
    IF h.cstate \in {"CONNECTED_TN3270E", "CONNECTED_SSCP"}
       /\ h.response = "ALWAYS_RESPONSE"
    THEN [Send(h, <<"ACK">>, ok) EXCEPT !.response = "NO_RESPONSE"]
    ELSE h

(* What process_eor answers after process_ds has returned rv. *)
FinalAnswer(h, rv) ==
    CASE rv = "BAD" /\ h.response # "NO_RESPONSE"                 -> << <<"NAK">> >>
      [] rv = "OKAY_NO_OUTPUT" /\ h.response = "ALWAYS_RESPONSE"  -> << <<"ACK">> >>
      [] OTHER                                                    -> <<>>

-----------------------------------------------------------------------------
(* The main loop calls net_input while the session has a socket; the rest of  *)
(* the buffer in which a session was lost is read all the same.               *)
Reading == (h3270.sock \/ h3270.rest) /\ ~record.open

FromHost(h) ==
    /\ h3270' = [h EXCEPT !.out = <<>>, !.rest = @ \/ (h3270.sock /\ ~h.sock)]
    /\ UNCHANGED record

Will(o) == Reading /\ \E ok, ok2 \in BOOLEAN : FromHost(RcvdWill(h3270, o, ok, ok2))
Wont(o) == Reading /\ \E ok \in BOOLEAN : FromHost(RcvdWont(h3270, o, ok))
Dont(o) == Reading /\ \E ok \in BOOLEAN : FromHost(RcvdDont(h3270, o, ok))

Do(o) ==
    /\ Reading
    /\ o = "STARTTLS" /\ TlsFirst => h3270.my \cup h3270.his = {}
    /\ \E ok, ok2 \in BOOLEAN : FromHost(RcvdDo(h3270, o, ok, ok2))

(* With none of the listed LUs left telnet_fsm fails, and net_input           *)
(* disconnects and reads no further.                                          *)
TtypeSend ==
    /\ Reading
    /\ IF Lus > 0 /\ h3270.try_lu = 0
       THEN /\ h3270' = [HostDisconnect(h3270) EXCEPT !.rest = FALSE]
            /\ UNCHANGED record
       ELSE \E ok \in BOOLEAN : FromHost(RcvdTtypeSend(h3270, ok))

InTn3270e == Reading /\ "TN3270E" \in h3270.my

SendDeviceType == InTn3270e /\ \E ok \in BOOLEAN : FromHost(Tn3270eRequest(h3270, ok))
DeviceTypeIs   == InTn3270e /\ \E ok \in BOOLEAN : FromHost(RcvdDeviceTypeIs(h3270, ok))
DeviceTypeReject ==
    InTn3270e /\ \E final, ok \in BOOLEAN : FromHost(RcvdReject(h3270, final, ok))
FunctionsRequest ==
    InTn3270e /\ \E f \in FunctionSets, ok \in BOOLEAN :
                     FromHost(RcvdFunctionsRequest(h3270, f, ok))
FunctionsIs ==
    InTn3270e /\ \E f \in FunctionSets, ok \in BOOLEAN :
                     FromHost(RcvdFunctionsIs(h3270, f, ok))

(* continue_tls: on success everyone is told that the session is connected,   *)
(* which is CONNECTED_INITIAL again; on failure the socket is closed and      *)
(* nobody is told.                                                            *)
StartTls ==
    /\ Reading /\ h3270.tls /\ "STARTTLS" \in h3270.my
    /\ TlsFirst => h3270.my = {"STARTTLS"} /\ h3270.his = {}
    /\ \/ /\ h3270.sock
          /\ FromHost([h3270 EXCEPT !.tls = FALSE, !.cstate = "CONNECTED_INITIAL"])
       \/ FromHost([h3270 EXCEPT !.tls = FALSE, !.sock = FALSE])

(* The first data of a session that has negotiated nothing. *)
FirstData ==
    /\ Reading /\ h3270.cstate = "CONNECTED_INITIAL"
    /\ FromHost([h3270 EXCEPT !.cstate = "CONNECTED_ANSI"])

(* Mutant: the exception watch stays off. *)
DataMarkOnce ==
    /\ Reading /\ h3270.syncing
    /\ FromHost([h3270 EXCEPT !.syncing = FALSE])

(* IAC DM ends urgent data and takes exceptions again. *)
DataMark ==
    /\ Reading /\ h3270.syncing
    /\ FromHost([h3270 EXCEPT !.syncing = FALSE, !.excepting = TRUE])

(* IAC EOR ends a record, which is processed unless the data is urgent. *)
EndOfRecord ==
    /\ Reading /\ ~h3270.syncing
    /\ In3270(h3270) \/ (InE(h3270) /\ h3270.negotiated)

(* Mutant: data is processed before the session is bound. *)
DataUnbound(flag) ==
    /\ EndOfRecord /\ InE(h3270)
    /\ h3270' = [Enter(h3270, "E_3270") EXCEPT !.response = flag]
    /\ record' = [NoRecord EXCEPT !.open = TRUE, !.flag = flag]

Data(flag) ==
    /\ EndOfRecord /\ InE(h3270)
    /\ NeedsBind(h3270) => h3270.bound
    /\ h3270' = [Enter(h3270, "E_3270") EXCEPT !.response = flag]
    /\ record' = [NoRecord EXCEPT !.open = TRUE, !.flag = flag]

(* process_ds sends: the answer to a read or a query, a block of a transfer,  *)
(* or a queued key that the write has released.                               *)
DataOutput ==
    /\ record.open
    /\ \E ok \in BOOLEAN :
         LET h == NetOutput(h3270, ok)
         IN  /\ h3270' = [h EXCEPT !.out = <<>>, !.rest = @ \/ (h3270.sock /\ ~h.sock)]
             /\ record' = [record EXCEPT !.output = TRUE, !.answers = @ + Len(h.out)]

(* It says OKAY_OUTPUT only if it sent something. *)
DataEnds(rv) ==
    /\ record.open
    /\ rv = "OKAY_OUTPUT" => record.output
    /\ \E ok \in BOOLEAN :
         LET h == IF FinalAnswer(h3270, rv) = <<>> THEN h3270
                  ELSE Send(h3270, <<"ANSWER">>, ok)
         IN  h3270' = [h EXCEPT !.response = "NO_RESPONSE", !.out = <<>>,
                                !.rest = @ \/ (h3270.sock /\ ~h.sock)]
    /\ record' = NoRecord

BindImage ==
    /\ EndOfRecord /\ InE(h3270) /\ NeedsBind(h3270)
    /\ FromHost(CheckIn3270([h3270 EXCEPT !.bound = TRUE]))

(* Mutant: the screen stays in 3270 mode without a session to talk to. *)
UnbindKeepsMode ==
    /\ EndOfRecord /\ InE(h3270) /\ NeedsBind(h3270)
    /\ FromHost(CheckIn3270([h3270 EXCEPT !.bound = FALSE]))

Unbind ==
    /\ EndOfRecord /\ InE(h3270) /\ NeedsBind(h3270)
    /\ FromHost(CheckIn3270([h3270 EXCEPT !.bound = FALSE,
                                          !.submode = IF @ = "E_3270" THEN "E_NONE" ELSE @]))

NvtData    == EndOfRecord /\ InE(h3270) /\ FromHost(Enter(h3270, "E_NVT"))
SscpLuData == /\ EndOfRecord /\ InE(h3270) /\ NeedsBind(h3270)
              /\ FromHost(Enter(h3270, "E_SSCP"))

(* The socket's urgent condition: net_exception. *)
Urgent ==
    /\ h3270.sock /\ h3270.excepting /\ ~record.open
    /\ h3270' = [h3270 EXCEPT !.syncing = TRUE, !.excepting = FALSE]
    /\ UNCHANGED record

BufferEnds ==
    /\ h3270.rest /\ ~record.open
    /\ h3270' = [h3270 EXCEPT !.rest = FALSE]
    /\ UNCHANGED record

-----------------------------------------------------------------------------
(* The user, the network. *)

MainLoop == ~h3270.rest /\ ~record.open

Connect    == MainLoop /\ ~Connected(h3270) /\ h3270' = NetConnected /\ UNCHANGED record
Disconnect == /\ MainLoop /\ Connected(h3270)
              /\ h3270' = HostDisconnect(h3270) /\ UNCHANGED record
Sysreq     == /\ MainLoop /\ InE(h3270) /\ "SYSREQ" \in h3270.funcs
              /\ \E ok \in BOOLEAN : h3270' = [NetAbort(h3270, ok) EXCEPT !.out = <<>>]
              /\ UNCHANGED record

Options == \E o \in Option : Will(o) \/ Wont(o) \/ Do(o) \/ Dont(o)

Subnegotiations ==
    \/ TtypeSend \/ SendDeviceType \/ DeviceTypeIs \/ DeviceTypeReject
    \/ FunctionsRequest \/ FunctionsIs \/ StartTls

Records ==
    \/ \E flag \in ResponseFlag : Data(flag)
    \/ DataOutput
    \/ \E rv \in {"OKAY_NO_OUTPUT", "OKAY_OUTPUT", "BAD"} : DataEnds(rv)
    \/ BindImage \/ Unbind \/ NvtData \/ SscpLuData

Next == \/ Options \/ Subnegotiations \/ Records
        \/ FirstData \/ DataMark \/ Urgent \/ BufferEnds
        \/ Connect \/ Disconnect \/ Sysreq

Spec == Init /\ [][Next]_vars

-----------------------------------------------------------------------------
(* Safety. *)

(* While the session has a socket, its mode and the line mode are what the    *)
(* tables say, whichever handler changed them last; and without TN3270E only  *)
(* a session with no options and no data is still undecided (check_in3270,    *)
(* check_linemode).                                                           *)
ModeFollowsOptions ==
    h3270.sock => /\ h3270.cstate = Mode(h3270)
                  /\ h3270.linemode = ("ECHO" \notin h3270.his)

(* What TN3270E negotiated ends with it: a session outside TN3270E that       *)
(* enters it again starts from the beginning (check_in3270).                  *)
Tn3270eStateEnds ==
    h3270.sock /\ (h3270.negotiated \/ h3270.bound \/ h3270.submode # "E_NONE")
       => "TN3270E" \in h3270.my

(* Where BIND-IMAGE was agreed on, the screen shows 3270 data only of a       *)
(* session that is bound; SYSREQ back and forth, an unbind and a new          *)
(* agreement on functions keep it so (process_eor, net_abort).                *)
BoundIn3270 ==
    h3270.sock /\ h3270.submode = "E_3270" /\ NeedsBind(h3270) => h3270.bound

(* A session that is not in the middle of urgent data can be told of the      *)
(* next: the watch for it comes and goes with syncing (net_exception, IAC DM, *)
(* x_except_on, x_except_off).                                                *)
UrgentDataSeen == h3270.sock => h3270.excepting = ~h3270.syncing

(* Together, and with its type, what the handlers leave of a session.          *)
SessionConsistent == TypeOK /\ ModeFollowsOptions /\ Tn3270eStateEnds /\ BoundIn3270
                     /\ UrgentDataSeen

(* A host that asks for a response gets exactly one, and otherwise none: also *)
(* when the record's processing sends data, once or more often, and fails     *)
(* afterwards (process_eor, net_output).                                      *)
OneAnswer ==
    [][\A rv \in {"OKAY_NO_OUTPUT", "OKAY_OUTPUT", "BAD"} :
          DataEnds(rv) /\ h3270'.sock
          => record.answers + Len(FinalAnswer(h3270, rv))
             = IF \/ record.flag = "ALWAYS_RESPONSE"
                  \/ record.flag = "ERROR_RESPONSE" /\ rv = "BAD"
               THEN 1 ELSE 0]_vars
=============================================================================
