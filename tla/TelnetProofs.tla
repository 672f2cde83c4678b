----------------------------- MODULE TelnetProofs -----------------------------
(***************************************************************************)
(* Proofs about Telnet: whatever the host sends and whichever send fails,  *)
(* a session's mode, line mode, TN3270E state and watch for urgent data    *)
(* fit its options, and a record gets the answers it asks for.             *)
(*                                                                         *)
(* Two things are expected of the host: that it starts TLS before any      *)
(* other option, and that the sets of functions it asks for are nested.    *)
(***************************************************************************)
EXTENDS Telnet, TLAPS

Agreed == FunctionSets \cup {OurFunctions}

NestedFunctions ==
    /\ FunctionSets \subseteq SUBSET Function
    /\ \A f, g \in Agreed : f \subseteq g \/ g \subseteq f

(* What a handler may send. *)
Message ==
    {<<"NAWS">>, <<"STARTTLS_FOLLOWS">>, <<"AO">>, <<"ACK">>, <<"ANSWER">>}
    \cup ({"WILL", "WONT", "DO", "DONT"} \X (Option \cup {"TN3270E"}))
    \cup ({"TTYPE_IS", "DEVICE_TYPE_REQUEST"} \X (0 .. Lus))
    \cup ({"FUNCTIONS_REQUEST", "FUNCTIONS_IS"} \X SUBSET Function)

(* A session in the middle of a handler. *)
Handled ==
    [cstate     : CState,
     sock       : BOOLEAN,
     rest       : BOOLEAN,
     my         : SUBSET Option,
     his        : SUBSET Option,
     linemode   : BOOLEAN,
     tls        : BOOLEAN,
     negotiated : BOOLEAN,
     submode    : Submode,
     bound      : BOOLEAN,
     funcs      : Agreed,
     curr_lu    : 0 .. Lus,
     try_lu     : 0 .. Lus,
     syncing    : BOOLEAN,
     excepting  : BOOLEAN,
     response   : ResponseFlag,
     out        : Seq(Message)]

(* What holds of an open session also before the mode is looked at.           *)
Steady(h) ==
    /\ h.submode = "E_3270" /\ NeedsBind(h) => h.bound
    /\ h.excepting = ~h.syncing

(* TN3270E is agreed to, or its mode is still on and is about to be left. *)
Leaving(h) ==
    h.negotiated \/ h.bound \/ h.submode # "E_NONE" => "TN3270E" \in h.my \/ InE(h)

(* An open session after its modes were checked. *)
Settled(h) ==
    h.sock => /\ Steady(h)
              /\ h.cstate = Mode(h)
              /\ h.linemode = ("ECHO" \notin h.his)
              /\ h.negotiated \/ h.bound \/ h.submode # "E_NONE" => "TN3270E" \in h.my

(* The record being processed: its response is owed until it is given. *)
Owed(h, r) ==
    IF r.open
    THEN h.sock => /\ h.cstate = "CONNECTED_TN3270E"
                   /\ \/ r.answers = 0 /\ h.response = r.flag
                         /\ (r.output => r.flag # "ALWAYS_RESPONSE")
                      \/ r.answers = 1 /\ h.response = "NO_RESPONSE"
                         /\ r.flag = "ALWAYS_RESPONSE"
    ELSE r = NoRecord

IInv ==
    /\ h3270 \in Handled /\ h3270.out = <<>>
    /\ Settled(h3270)
    /\ record \in Record /\ Owed(h3270, record)

-----------------------------------------------------------------------------
(* Sending. *)

(* g is h but for what was sent. *)
Same(g, h) ==
    /\ g.cstate = h.cstate /\ g.my = h.my /\ g.his = h.his /\ g.linemode = h.linemode
    /\ g.tls = h.tls /\ g.negotiated = h.negotiated /\ g.submode = h.submode
    /\ g.bound = h.bound /\ g.funcs = h.funcs /\ g.syncing = h.syncing
    /\ g.excepting = h.excepting /\ g.response = h.response

(* g and h agree in all that the mode, and being settled, depend on. *)
SameModes(g, h) ==
    /\ g.cstate = h.cstate /\ g.sock = h.sock /\ g.my = h.my /\ g.his = h.his
    /\ g.linemode = h.linemode /\ g.negotiated = h.negotiated /\ g.submode = h.submode
    /\ g.bound = h.bound /\ g.funcs = h.funcs /\ g.syncing = h.syncing
    /\ g.excepting = h.excepting

(* Nothing else matters to it. *)
LEMMA SameModesSettled ==
    ASSUME NEW g, NEW h, SameModes(g, h), Settled(h)
    PROVE  Settled(g)
<1>1. Mode(g) = Mode(h) /\ (Steady(h) => Steady(g))
  BY DEF SameModes, Mode, Tn3270Options, Steady, NeedsBind
<1> QED BY <1>1 DEF SameModes, Settled

(* A send changes nothing of a session but to end it (net_rawout). *)
LEMMA SendIs ==
    ASSUME NEW h \in Handled, NEW m \in Message, NEW ok \in BOOLEAN
    PROVE  /\ Send(h, m, ok) \in Handled
           /\ Send(h, m, ok).sock => h.sock /\ Same(Send(h, m, ok), h)
           /\ Send(h, m, ok).my = h.my /\ Send(h, m, ok).his = h.his
           /\ Send(h, m, ok).funcs = h.funcs
<1>1. CASE h.sock /\ ok
  <2>1. Append(h.out, m) \in Seq(Message)
    BY DEF Handled
  <2>2. Send(h, m, ok) = [h EXCEPT !.out = Append(h.out, m)]
    BY <1>1 DEF Send
  <2> QED BY <1>1, <2>1, <2>2, Zenon DEF Handled, Same
<1>2. CASE ~(h.sock /\ ok)
  <2>1. Send(h, m, ok) = HostDisconnect(h)
    BY <1>2 DEF Send
  <2>2. CASE Connected(h)
    <3>1. Send(h, m, ok) =
            [h EXCEPT !.cstate = "NOT_CONNECTED", !.sock = FALSE, !.excepting = FALSE]
      BY <2>1, <2>2 DEF HostDisconnect
    <3> QED BY <3>1, Zenon DEF Handled, CState
  <2>3. CASE ~Connected(h)
    <3>1. Send(h, m, ok) = h
      BY <2>1, <2>3 DEF HostDisconnect
    <3> QED BY <3>1 DEF Same
  <2> QED BY <2>2, <2>3
<1> QED BY <1>1, <1>2

(* The mode is one of the eight. *)
LEMMA ModeIs ==
    ASSUME NEW h \in Handled
    PROVE  /\ "TN3270E" \in h.my =>
                Mode(h) \in {"CONNECTED_INITIAL_E", "CONNECTED_NVT", "CONNECTED_TN3270E",
                             "CONNECTED_SSCP"}
           /\ "TN3270E" \notin h.my =>
                Mode(h) = IF Tn3270Options(h) THEN "CONNECTED_3270"
                          ELSE IF h.cstate = "CONNECTED_INITIAL" THEN "CONNECTED_INITIAL"
                          ELSE "CONNECTED_ANSI"
<1>1. CASE "TN3270E" \in h.my
  BY <1>1 DEF Mode, Handled, Submode
<1>2. CASE "TN3270E" \notin h.my
  BY <1>2 DEF Mode
<1> QED BY <1>1, <1>2

(* check_in3270 settles the mode, also that of a session that leaves TN3270E. *)
LEMMA CheckIn3270Settles ==
    ASSUME NEW h \in Handled, h.sock => Steady(h) /\ Leaving(h)
    PROVE  LET g == CheckIn3270(h)
           IN  /\ g \in Handled /\ g.sock = h.sock /\ g.his = h.his /\ g.my = h.my
               /\ g.linemode = h.linemode /\ g.response = h.response
               /\ (h.sock => /\ Steady(g) /\ g.cstate = Mode(g)
                             /\ (g.negotiated \/ g.bound \/ g.submode # "E_NONE"
                                 => "TN3270E" \in g.my))
<1> DEFINE g == CheckIn3270(h)
<1>1. Mode(h) \in CState
  BY ModeIs DEF CState
<1>2. CASE Mode(h) = h.cstate
  <2>1. g = h
    BY <1>2 DEF CheckIn3270
  <2>2. "TN3270E" \notin h.my => ~InE(h)
    BY <1>2, ModeIs DEF InE
  <2> QED BY <1>2, <2>1, <2>2 DEF Leaving
<1>3. CASE Mode(h) # h.cstate /\ "TN3270E" \in h.my
  <2>1. g = [h EXCEPT !.cstate = Mode(h)]
    BY <1>3 DEF CheckIn3270
  <2>2. g \in Handled /\ g.cstate = Mode(h) /\ g.sock = h.sock /\ g.my = h.my /\ g.his = h.his
        /\ g.negotiated = h.negotiated /\ g.submode = h.submode /\ g.bound = h.bound
        /\ g.funcs = h.funcs /\ g.syncing = h.syncing /\ g.excepting = h.excepting
        /\ g.linemode = h.linemode /\ g.response = h.response
    BY <1>1, <2>1 DEF Handled
  <2>3. Mode(g) = Mode(h)
    BY <1>3, <2>2 DEF Mode
  <2> HIDE DEF g
  <2>4. h.sock => Steady(g)
    BY <2>2 DEF Steady, NeedsBind
  <2> QED BY <1>3, <2>2, <2>3, <2>4 DEF g
<1>4. CASE Mode(h) # h.cstate /\ "TN3270E" \notin h.my
  <2>1. g = [h EXCEPT !.cstate = Mode(h), !.negotiated = FALSE, !.submode = "E_NONE",
                      !.bound = FALSE]
    BY <1>4 DEF CheckIn3270
  <2>2. g \in Handled /\ g.cstate = Mode(h) /\ g.sock = h.sock /\ g.my = h.my /\ g.his = h.his
        /\ ~g.negotiated /\ g.submode = "E_NONE" /\ ~g.bound
        /\ g.funcs = h.funcs /\ g.syncing = h.syncing /\ g.excepting = h.excepting
        /\ g.linemode = h.linemode /\ g.response = h.response
    <3>1. g \in Handled
      BY <1>1, <2>1, Zenon DEF Handled, Submode
    <3>2. /\ g.cstate = Mode(h) /\ g.negotiated = FALSE /\ g.submode = "E_NONE"
          /\ g.bound = FALSE
      BY <2>1 DEF Handled
    <3>3. /\ g.sock = h.sock /\ g.my = h.my /\ g.his = h.his /\ g.funcs = h.funcs
          /\ g.syncing = h.syncing /\ g.excepting = h.excepting
          /\ g.linemode = h.linemode /\ g.response = h.response
      BY <2>1 DEF Handled
    <3> QED BY <3>1, <3>2, <3>3
  <2> HIDE DEF g
  <2>3. Tn3270Options(g) = Tn3270Options(h)
    BY <2>2 DEF Tn3270Options
  <2>4. Mode(g) = Mode(h)
    BY <1>4, <2>2, <2>3, ModeIs
  <2>5. h.sock => Steady(g)
    BY <2>2 DEF Steady
  <2> QED BY <1>4, <2>2, <2>4, <2>5 DEF g
<1> QED BY <1>2, <1>3, <1>4

(* So do check_in3270 and check_linemode together. *)
LEMMA CheckModesSettles ==
    ASSUME NEW h \in Handled, h.sock => Steady(h) /\ Leaving(h)
    PROVE  CheckModes(h) \in Handled /\ Settled(CheckModes(h))
<1>1. PICK g : g = CheckIn3270(h)
  OBVIOUS
<1>2. /\ g \in Handled
      /\ g.sock => /\ Steady(g) /\ g.cstate = Mode(g)
                   /\ (g.negotiated \/ g.bound \/ g.submode # "E_NONE" => "TN3270E" \in g.my)
  BY <1>1, CheckIn3270Settles
<1>3. PICK c : c = CheckModes(h)
  OBVIOUS
<1>4. c = [g EXCEPT !.linemode = "ECHO" \notin g.his]
  BY <1>1, <1>3 DEF CheckModes, CheckLinemode
<1>5. c \in Handled
  BY <1>2, <1>4 DEF Handled
<1>6. /\ c.cstate = g.cstate /\ c.sock = g.sock /\ c.my = g.my /\ c.his = g.his
      /\ c.negotiated = g.negotiated /\ c.submode = g.submode /\ c.bound = g.bound
      /\ c.funcs = g.funcs /\ c.syncing = g.syncing /\ c.excepting = g.excepting
      /\ c.linemode = ("ECHO" \notin c.his)
  BY <1>2, <1>4 DEF Handled
<1>7. Mode(c) = Mode(g) /\ (Steady(g) => Steady(c))
  BY <1>6 DEF Mode, Tn3270Options, Steady, NeedsBind
<1>8. Settled(c)
  BY <1>2, <1>6, <1>7 DEF Settled
<1> QED BY <1>3, <1>5, <1>8

(* check_in3270 alone settles a session whose line mode is right. *)
LEMMA Settles3270 ==
    ASSUME NEW h \in Handled,
           h.sock => Steady(h) /\ Leaving(h) /\ h.linemode = ("ECHO" \notin h.his)
    PROVE  CheckIn3270(h) \in Handled /\ Settled(CheckIn3270(h))
<1>1. PICK g : g = CheckIn3270(h)
  OBVIOUS
<1>2. /\ g \in Handled /\ g.sock = h.sock /\ g.his = h.his /\ g.linemode = h.linemode
      /\ g.sock => /\ Steady(g) /\ g.cstate = Mode(g)
                   /\ (g.negotiated \/ g.bound \/ g.submode # "E_NONE" => "TN3270E" \in g.my)
  BY <1>1, CheckIn3270Settles
<1>3. Settled(g)
  BY <1>2 DEF Settled
<1> QED BY <1>1, <1>2, <1>3

(* What is sent in a settled session leaves it settled. *)
LEMMA SendSettled ==
    ASSUME NEW h \in Handled, Settled(h), NEW m \in Message, NEW ok \in BOOLEAN
    PROVE  Send(h, m, ok) \in Handled /\ Settled(Send(h, m, ok))
<1>1. PICK g : g = Send(h, m, ok)
  OBVIOUS
<1>2. g \in Handled /\ (g.sock => h.sock /\ Same(g, h))
  BY <1>1, SendIs
<1>3. Same(g, h) => Mode(g) = Mode(h)
  BY DEF Same, Mode, Tn3270Options
<1>4. Settled(g)
  BY <1>2, <1>3 DEF Settled, Same, Steady, NeedsBind
<1> QED BY <1>1, <1>2, <1>4

(* An answer sent before the modes are checked. *)
LEMMA SendSteady ==
    ASSUME NEW h \in Handled, h.sock => Steady(h) /\ Leaving(h),
           NEW m \in Message, NEW ok \in BOOLEAN
    PROVE  /\ Send(h, m, ok) \in Handled
           /\ Send(h, m, ok).sock => Steady(Send(h, m, ok)) /\ Leaving(Send(h, m, ok))
           /\ Send(h, m, ok).my = h.my
<1>1. PICK g : g = Send(h, m, ok)
  OBVIOUS
<1>2. g \in Handled /\ (g.sock => h.sock /\ Same(g, h)) /\ g.my = h.my
  BY <1>1, SendIs
<1>3. g.sock => Steady(g) /\ Leaving(g)
  BY <1>2 DEF Same, Steady, NeedsBind, Leaving, InE
<1> QED BY <1>1, <1>2, <1>3

Tables(h, my, his) == [h EXCEPT !.my = my, !.his = his]

(* A settled session stays fit for check_in3270 while only its tables change. *)
LEMMA TablesChange ==
    ASSUME NEW h \in Handled, Settled(h), NEW my \in SUBSET Option, NEW his \in SUBSET Option
    PROVE  LET g == Tables(h, my, his)
           IN  /\ g \in Handled /\ g.my = my /\ g.his = his /\ g.sock = h.sock
               /\ g.sock => Steady(g) /\ Leaving(g)
<1>1. PICK g : g = Tables(h, my, his)
  OBVIOUS
<1>2. g \in Handled
  BY <1>1 DEF Handled, Tables
<1>3. /\ g.cstate = h.cstate /\ g.sock = h.sock /\ g.my = my /\ g.his = his
      /\ g.negotiated = h.negotiated /\ g.submode = h.submode /\ g.bound = h.bound
      /\ g.funcs = h.funcs /\ g.syncing = h.syncing /\ g.excepting = h.excepting
  BY <1>1 DEF Handled, Tables
<1>4. h.sock /\ "TN3270E" \in h.my => InE(h)
  BY ModeIs DEF Settled, InE
<1>5. g.sock => Steady(g) /\ Leaving(g)
  BY <1>3, <1>4 DEF Settled, Steady, NeedsBind, Leaving, InE
<1> QED BY <1>1, <1>2, <1>3, <1>5

-----------------------------------------------------------------------------
(* WILL, WONT, DO and DONT. *)

(* The four commands are messages. *)
LEMMA OptionMessages ==
    ASSUME NEW v \in {"WILL", "WONT", "DO", "DONT"}, NEW o \in Option
    PROVE  <<v, o>> \in Message
BY DEF Message

(* An offer of the host, the EOR it brings with it included (IAC WILL). *)
LEMMA WillSettles ==
    ASSUME NEW h \in Handled, Settled(h), NEW o \in Option, NEW ok \in BOOLEAN, NEW ok2 \in BOOLEAN
    PROVE  RcvdWill(h, o, ok, ok2) \in Handled /\ Settled(RcvdWill(h, o, ok, ok2))
<1>1. CASE o \notin WillOptions \/ (o = "TN3270E" /\ NonTn3270e)
  <2>1. RcvdWill(h, o, ok, ok2) = Send(h, <<"DONT", o>>, ok)
    BY <1>1 DEF RcvdWill
  <2> QED BY <2>1, OptionMessages, SendSettled
<1>2. CASE ~(o \notin WillOptions \/ (o = "TN3270E" /\ NonTn3270e)) /\ o \in h.his
  <2>1. RcvdWill(h, o, ok, ok2) = h
    BY <1>2 DEF RcvdWill
  <2> QED BY <2>1
<1>3. CASE ~(o \notin WillOptions \/ (o = "TN3270E" /\ NonTn3270e)) /\ o \notin h.his
  <2>1. PICK a : a = Tables(h, h.my, h.his \cup {o})
    OBVIOUS
  <2>2. a = [h EXCEPT !.his = @ \cup {o}]
    BY <2>1 DEF Handled, Tables
  <2>3. a \in Handled /\ (a.sock => Steady(a) /\ Leaving(a)) /\ a.my = h.my
    <3>1. h.my \in SUBSET Option /\ h.his \cup {o} \in SUBSET Option
      BY DEF Handled
    <3> QED BY <2>1, <3>1, TablesChange
  <2>4. PICK does : does = Send(a, <<"DO", o>>, ok)
    OBVIOUS
  <2>5. does \in Handled /\ (does.sock => Steady(does) /\ Leaving(does)) /\ does.my = h.my
    BY <2>3, <2>4, OptionMessages, SendSteady
  <2>6. CASE ~(o = "EOR" /\ o \notin h.my)
    <3>1. RcvdWill(h, o, ok, ok2) = CheckModes(does)
      BY <1>3, <2>2, <2>4, <2>6 DEF RcvdWill
    <3> QED BY <2>5, <3>1, CheckModesSettles
  <2>7. CASE o = "EOR" /\ o \notin h.my
    <3>1. PICK b : b = [does EXCEPT !.my = @ \cup {o}]
      OBVIOUS
    <3>2. b \in Handled
      BY <2>5, <3>1 DEF Handled
    <3>3. /\ b.cstate = does.cstate /\ b.sock = does.sock /\ does.my \subseteq b.my
          /\ b.negotiated = does.negotiated /\ b.submode = does.submode /\ b.bound = does.bound
          /\ b.funcs = does.funcs /\ b.syncing = does.syncing /\ b.excepting = does.excepting
      BY <2>5, <3>1 DEF Handled
    <3>4. b.sock => Steady(b) /\ Leaving(b)
      BY <2>5, <3>3 DEF Steady, NeedsBind, Leaving, InE
    <3>5. PICK c : c = Send(b, <<"WILL", o>>, ok2)
      OBVIOUS
    <3>6. c \in Handled /\ (c.sock => Steady(c) /\ Leaving(c))
      BY <3>2, <3>4, <3>5, OptionMessages, SendSteady
    <3>7. RcvdWill(h, o, ok, ok2) = CheckModes(c)
      BY <1>3, <2>2, <2>4, <2>7, <3>1, <3>5 DEF RcvdWill
    <3> QED BY <3>6, <3>7, CheckModesSettles
  <2> QED BY <2>6, <2>7
<1> QED BY <1>1, <1>2, <1>3

(* A refusal of the host (IAC WONT). *)
LEMMA WontSettles ==
    ASSUME NEW h \in Handled, Settled(h), NEW o \in Option, NEW ok \in BOOLEAN
    PROVE  RcvdWont(h, o, ok) \in Handled /\ Settled(RcvdWont(h, o, ok))
<1>1. CASE o \notin h.his
  BY <1>1 DEF RcvdWont
<1>2. CASE o \in h.his
  <2>1. PICK a : a = Tables(h, h.my, h.his \ {o})
    OBVIOUS
  <2>2. a = [h EXCEPT !.his = @ \ {o}]
    BY <2>1 DEF Handled, Tables
  <2>3. a \in Handled /\ (a.sock => Steady(a) /\ Leaving(a))
    <3>1. h.my \in SUBSET Option /\ h.his \ {o} \in SUBSET Option
      BY DEF Handled
    <3> QED BY <2>1, <3>1, TablesChange
  <2>4. PICK b : b = Send(a, <<"DONT", o>>, ok)
    OBVIOUS
  <2>5. b \in Handled /\ (b.sock => Steady(b) /\ Leaving(b))
    BY <2>3, <2>4, OptionMessages, SendSteady
  <2>6. RcvdWont(h, o, ok) = CheckModes(b)
    BY <1>2, <2>2, <2>4 DEF RcvdWont
  <2> QED BY <2>5, <2>6, CheckModesSettles
<1> QED BY <1>1, <1>2

(* The host gives up an option of ours (IAC DONT). *)
LEMMA DontSettles ==
    ASSUME NEW h \in Handled, Settled(h), NEW o \in Option, NEW ok \in BOOLEAN
    PROVE  RcvdDont(h, o, ok) \in Handled /\ Settled(RcvdDont(h, o, ok))
<1>1. CASE o \notin h.my
  BY <1>1 DEF RcvdDont
<1>2. CASE o \in h.my
  <2>1. PICK a : a = Tables(h, h.my \ {o}, h.his)
    OBVIOUS
  <2>2. a = [h EXCEPT !.my = @ \ {o}]
    BY <2>1 DEF Handled, Tables
  <2>3. a \in Handled /\ (a.sock => Steady(a) /\ Leaving(a))
    <3>1. h.my \ {o} \in SUBSET Option /\ h.his \in SUBSET Option
      BY DEF Handled
    <3> QED BY <2>1, <3>1, TablesChange
  <2>4. PICK b : b = Send(a, <<"WONT", o>>, ok)
    OBVIOUS
  <2>5. b \in Handled /\ (b.sock => Steady(b) /\ Leaving(b))
    BY <2>3, <2>4, OptionMessages, SendSteady
  <2>6. RcvdDont(h, o, ok) = CheckModes(b)
    BY <1>2, <2>2, <2>4 DEF RcvdDont
  <2> QED BY <2>5, <2>6, CheckModesSettles
<1> QED BY <1>1, <1>2

(* The window size, or that TLS follows, leaves the modes alone. *)
LEMMA AfterDoSettles ==
    ASSUME NEW h \in Handled, Settled(h), NEW o \in Option, NEW ok \in BOOLEAN
    PROVE  AfterDo(h, o, ok) \in Handled /\ Settled(AfterDo(h, o, ok))
<1>1. CASE o = "NAWS"
  <2>1. AfterDo(h, o, ok) = Send(h, <<"NAWS">>, ok) /\ <<"NAWS">> \in Message
    BY <1>1 DEF AfterDo, Message
  <2> QED BY <2>1, SendSettled
<1>2. CASE o = "STARTTLS"
  <2>1. PICK a : a = Send(h, <<"STARTTLS_FOLLOWS">>, ok)
    OBVIOUS
  <2>2. <<"STARTTLS_FOLLOWS">> \in Message
    BY DEF Message
  <2>3. a \in Handled /\ Settled(a)
    BY <2>1, <2>2, SendSettled
  <2>4. PICK b : b = [a EXCEPT !.tls = TRUE]
    OBVIOUS
  <2>5. b \in Handled
    BY <2>3, <2>4 DEF Handled
  <2>6. SameModes(b, a)
    BY <2>3, <2>4 DEF Handled, SameModes
  <2>7. Settled(b)
    BY <2>3, <2>6, SameModesSettled
  <2>8. AfterDo(h, o, ok) = b
    BY <1>2, <2>1, <2>4 DEF AfterDo
  <2> QED BY <2>5, <2>7, <2>8
<1>3. CASE o # "NAWS" /\ o # "STARTTLS"
  <2>1. AfterDo(h, o, ok) = h
    BY <1>3 DEF AfterDo
  <2> QED BY <2>1
<1> QED BY <1>1, <1>2, <1>3

(* A request of the host (IAC DO). *)
LEMMA DoSettles ==
    ASSUME NEW h \in Handled, Settled(h), NEW o \in Option, NEW ok \in BOOLEAN, NEW ok2 \in BOOLEAN
    PROVE  RcvdDo(h, o, ok, ok2) \in Handled /\ Settled(RcvdDo(h, o, ok, ok2))
<1> DEFINE refused == \/ o \notin DoOptions
                      \/ o = "TN3270E" /\ NonTn3270e
                      \/ o = "TM" /\ ~BsdTm
<1>1. CASE refused
  <2>1. RcvdDo(h, o, ok, ok2) = Send(h, <<"WONT", o>>, ok)
    BY <1>1 DEF RcvdDo
  <2> QED BY <2>1, OptionMessages, SendSettled
<1>2. CASE ~refused /\ o \in h.my
  <2>1. RcvdDo(h, o, ok, ok2) = AfterDo(h, o, ok2)
    BY <1>2 DEF RcvdDo
  <2> QED BY <2>1, AfterDoSettles
<1>3. CASE ~refused /\ o \notin h.my
  <2>1. PICK a : a = Tables(h, h.my \cup ({o} \ {"TM"}), h.his)
    OBVIOUS
  <2>2. a = [h EXCEPT !.my = @ \cup ({o} \ {"TM"})]
    BY <2>1 DEF Handled, Tables
  <2>3. a \in Handled /\ (a.sock => Steady(a) /\ Leaving(a))
    <3>1. h.my \cup ({o} \ {"TM"}) \in SUBSET Option /\ h.his \in SUBSET Option
      BY DEF Handled
    <3> QED BY <2>1, <3>1, TablesChange
  <2>4. PICK b : b = Send(a, <<"WILL", o>>, ok)
    OBVIOUS
  <2>5. b \in Handled /\ (b.sock => Steady(b) /\ Leaving(b))
    BY <2>3, <2>4, OptionMessages, SendSteady
  <2>6. PICK c : c = CheckModes(b)
    OBVIOUS
  <2>7. c \in Handled /\ Settled(c)
    BY <2>5, <2>6, CheckModesSettles
  <2>8. RcvdDo(h, o, ok, ok2) = AfterDo(c, o, ok2)
    BY <1>3, <2>2, <2>4, <2>6 DEF RcvdDo
  <2> QED BY <2>7, <2>8, AfterDoSettles
<1> QED BY <1>1, <1>2, <1>3

-----------------------------------------------------------------------------
(* Subnegotiations. *)

(* Fields that the mode does not depend on. *)
Names(h, curr, try) == [h EXCEPT !.curr_lu = curr, !.try_lu = try]

(* The modes do not depend on the LU that is tried. *)
LEMMA NamesSettled ==
    ASSUME NEW h \in Handled, NEW curr \in 0 .. Lus, NEW try \in 0 .. Lus
    PROVE  LET g == Names(h, curr, try)
           IN  /\ g \in Handled /\ SameModes(g, h)
               /\ g.try_lu = try /\ (Settled(h) => Settled(g))
<1>1. PICK g : g = Names(h, curr, try)
  OBVIOUS
<1>2. g \in Handled
  BY <1>1 DEF Handled, Names
<1>3. SameModes(g, h) /\ g.try_lu = try
  BY <1>1 DEF Handled, Names, SameModes
<1>4. Settled(h) => Settled(g)
  BY <1>3, SameModesSettled
<1> QED BY <1>1, <1>2, <1>3, <1>4

(* The next LU of the list, or none. *)
LEMMA NextLuIs ==
    ASSUME NEW h \in Handled
    PROVE  \E curr, try \in 0 .. Lus : NextLu(h) = Names(h, curr, try)
<1>1. h.curr_lu \in 0 .. Lus /\ h.try_lu \in 0 .. Lus
  BY DEF Handled
<1>2. CASE h.curr_lu = 0
  <2>1. NextLu(h) = Names(h, h.curr_lu, h.try_lu)
    BY <1>2 DEF NextLu, Names, Handled
  <2> QED BY <1>1, <2>1
<1>3. CASE h.curr_lu # 0 /\ h.curr_lu < Lus
  <2>1. NextLu(h) = Names(h, h.curr_lu + 1, h.curr_lu + 1)
    BY <1>3 DEF NextLu, Names, Handled
  <2>2. h.curr_lu + 1 \in 0 .. Lus
    BY <1>1, <1>3, LusAssumption
  <2> QED BY <2>1, <2>2
<1>4. CASE h.curr_lu # 0 /\ ~(h.curr_lu < Lus)
  <2>1. NextLu(h) = Names(h, 0, 0)
    BY <1>4 DEF NextLu, Names
  <2>2. 0 \in 0 .. Lus
    BY LusAssumption
  <2> QED BY <2>1, <2>2
<1> QED BY <1>2, <1>3, <1>4

(* Trying the next LU leaves the session settled (next_lu). *)
LEMMA NextLuSettled ==
    ASSUME NEW h \in Handled, Settled(h)
    PROVE  NextLu(h) \in Handled /\ Settled(NextLu(h))
BY NextLuIs, NamesSettled

(* SB TTYPE SEND. *)
LEMMA TtypeSettles ==
    ASSUME NEW h \in Handled, Settled(h), NEW ok \in BOOLEAN
    PROVE  RcvdTtypeSend(h, ok) \in Handled /\ Settled(RcvdTtypeSend(h, ok))
<1>1. <<"TTYPE_IS", h.try_lu>> \in Message
  BY DEF Handled, Message
<1> QED BY <1>1, SendSettled, NextLuSettled DEF RcvdTtypeSend

(* SB TN3270E SEND DEVICE-TYPE (tn3270e_request). *)
LEMMA RequestSettles ==
    ASSUME NEW h \in Handled, Settled(h), NEW ok \in BOOLEAN
    PROVE  Tn3270eRequest(h, ok) \in Handled /\ Settled(Tn3270eRequest(h, ok))
<1>1. <<"DEVICE_TYPE_REQUEST", h.try_lu>> \in Message
  BY DEF Handled, Message
<1> QED BY <1>1, SendSettled DEF Tn3270eRequest

(* Giving up TN3270E takes what it had negotiated with it. *)
LEMMA BackoffSettles ==
    ASSUME NEW h \in Handled, Settled(h), NEW ok \in BOOLEAN
    PROVE  BackoffTn3270e(h, ok) \in Handled /\ Settled(BackoffTn3270e(h, ok))
<1>1. PICK a : a = Send(h, <<"WONT", "TN3270E">>, ok)
  OBVIOUS
<1>2. a \in Handled /\ Settled(a)
  <2>1. <<"WONT", "TN3270E">> \in Message
    BY DEF Message
  <2> QED BY <1>1, <2>1, SendSettled
<1>3. PICK first \in 0 .. Lus : SetupLus(a) = Names(a, first, first)
  <2>1. (IF Lus > 0 THEN 1 ELSE 0) \in 0 .. Lus
    BY LusAssumption
  <2> QED BY <2>1 DEF SetupLus, Names
<1>4. PICK b : b = SetupLus(a)
  OBVIOUS
<1>5. b \in Handled /\ Settled(b)
  BY <1>2, <1>3, <1>4, NamesSettled
<1>6. PICK c : c = Tables(b, b.my \ {"TN3270E"}, b.his)
  OBVIOUS
<1>7. c = [b EXCEPT !.my = @ \ {"TN3270E"}]
  BY <1>5, <1>6 DEF Handled, Tables
<1>8. c \in Handled /\ (c.sock => Steady(c) /\ Leaving(c)) /\ c.sock = b.sock /\ c.his = b.his
  <2>1. b.my \ {"TN3270E"} \in SUBSET Option /\ b.his \in SUBSET Option
    BY <1>5 DEF Handled
  <2> QED BY <1>5, <1>6, <2>1, TablesChange
<1>9. c.sock => c.linemode = ("ECHO" \notin c.his)
  <2>1. c.linemode = b.linemode
    BY <1>5, <1>6 DEF Handled, Tables
  <2> QED BY <1>5, <1>8, <2>1 DEF Settled
<1>10. BackoffTn3270e(h, ok) = CheckIn3270(c)
  BY <1>1, <1>4, <1>7 DEF BackoffTn3270e
<1> QED BY <1>8, <1>9, <1>10, Settles3270

(* SB TN3270E DEVICE-TYPE IS. *)
LEMMA DeviceTypeIsSettles ==
    ASSUME NestedFunctions, NEW h \in Handled, Settled(h), NEW ok \in BOOLEAN
    PROVE  RcvdDeviceTypeIs(h, ok) \in Handled /\ Settled(RcvdDeviceTypeIs(h, ok))
<1>1. h.funcs \subseteq Function
  BY Zenon DEF Handled, NestedFunctions, Agreed, OurFunctions, Function
<1>2. <<"FUNCTIONS_REQUEST", h.funcs>> \in Message
  BY <1>1 DEF Message
<1> QED BY <1>2, SendSettled DEF RcvdDeviceTypeIs

(* SB TN3270E DEVICE-TYPE REJECT, with or without an LU left to try. *)
LEMMA RejectSettles ==
    ASSUME NEW h \in Handled, Settled(h), NEW final \in BOOLEAN, NEW ok \in BOOLEAN
    PROVE  RcvdReject(h, final, ok) \in Handled /\ Settled(RcvdReject(h, final, ok))
<1>1. CASE final
  BY <1>1, BackoffSettles DEF RcvdReject
<1>2. CASE ~final
  <2>1. PICK next : next = NextLu(h)
    OBVIOUS
  <2>2. next \in Handled /\ Settled(next)
    BY <2>1, NextLuSettled
  <2>3. RcvdReject(h, final, ok) = IF next.try_lu # 0 THEN Tn3270eRequest(next, ok)
                                                     ELSE BackoffTn3270e(next, ok)
    BY <1>2, <2>1 DEF RcvdReject
  <2> QED BY <2>2, <2>3, RequestSettles, BackoffSettles
<1> QED BY <1>1, <1>2

(* Fewer functions leave a session bound where it has to be. *)
LEMMA FewerFunctions ==
    ASSUME NEW h \in Handled, Settled(h), NEW f \in Agreed, f \subseteq h.funcs
    PROVE  LET g == [h EXCEPT !.funcs = f]
           IN  g \in Handled /\ Settled(g) /\ g.my = h.my /\ g.sock = h.sock
<1>1. PICK g : g = [h EXCEPT !.funcs = f]
  OBVIOUS
<1>2. g \in Handled
  BY <1>1 DEF Handled
<1>3. /\ g.cstate = h.cstate /\ g.sock = h.sock /\ g.my = h.my /\ g.his = h.his
      /\ g.negotiated = h.negotiated /\ g.submode = h.submode /\ g.bound = h.bound
      /\ g.funcs = f /\ g.syncing = h.syncing /\ g.excepting = h.excepting
      /\ g.linemode = h.linemode
  BY <1>1 DEF Handled
<1>4. Steady(h) => Steady(g)
  BY <1>3 DEF Steady, NeedsBind
<1>5. Mode(g) = Mode(h)
  BY <1>3 DEF Mode, Tn3270Options
<1>6. Settled(g)
  BY <1>3, <1>4, <1>5 DEF Settled
<1> QED BY <1>1, <1>2, <1>3, <1>6

(* The end of the negotiation of functions. *)
LEMMA CompleteSettles ==
    ASSUME NEW h \in Handled, Settled(h), "TN3270E" \in h.my
    PROVE  Complete(h) \in Handled /\ Settled(Complete(h))
<1>1. PICK g : g = [h EXCEPT !.negotiated = TRUE]
  OBVIOUS
<1>2. g \in Handled
  BY <1>1 DEF Handled
<1>3. /\ g.sock = h.sock /\ g.my = h.my /\ g.his = h.his /\ g.linemode = h.linemode
      /\ g.submode = h.submode /\ g.bound = h.bound
      /\ g.funcs = h.funcs /\ g.syncing = h.syncing /\ g.excepting = h.excepting
  BY <1>1 DEF Handled
<1>4. g.sock => Steady(g) /\ Leaving(g) /\ g.linemode = ("ECHO" \notin g.his)
  BY <1>3 DEF Settled, Steady, NeedsBind, Leaving
<1>5. Complete(h) = CheckIn3270(g)
  BY <1>1 DEF Complete
<1> QED BY <1>2, <1>4, <1>5, Settles3270

(* The host's list, where it is not ours and more. *)
LEMMA AgreedFunctions ==
    ASSUME NestedFunctions, NEW h \in Handled, NEW f \in FunctionSets
    PROVE  /\ f \in Agreed /\ f \subseteq Function /\ h.funcs \subseteq Function
           /\ ~(h.funcs \subseteq f) => f \subseteq h.funcs
BY DEF Handled, NestedFunctions, Agreed, OurFunctions, Function

(* SB TN3270E FUNCTIONS REQUEST. *)
LEMMA FunctionsRequestSettles ==
    ASSUME NestedFunctions, NEW h \in Handled, Settled(h), "TN3270E" \in h.my,
           NEW f \in FunctionSets, NEW ok \in BOOLEAN
    PROVE  RcvdFunctionsRequest(h, f, ok) \in Handled /\ Settled(RcvdFunctionsRequest(h, f, ok))
<1>1. <<"FUNCTIONS_IS", f>> \in Message /\ <<"FUNCTIONS_REQUEST", h.funcs>> \in Message
  BY AgreedFunctions DEF Message
<1>2. CASE f = h.funcs \/ ~(h.funcs \subseteq f)
  <2>1. PICK a : a = [h EXCEPT !.funcs = f]
    OBVIOUS
  <2>2. a \in Handled /\ Settled(a) /\ a.my = h.my
    BY <1>2, <2>1, AgreedFunctions, FewerFunctions
  <2>3. PICK b : b = Send(a, <<"FUNCTIONS_IS", f>>, ok)
    OBVIOUS
  <2>4. b \in Handled /\ Settled(b) /\ b.my = h.my
    BY <1>1, <2>2, <2>3, SendSettled, SendIs
  <2>5. RcvdFunctionsRequest(h, f, ok) = Complete(b)
    BY <1>2, <2>1, <2>3 DEF RcvdFunctionsRequest
  <2> QED BY <2>4, <2>5, CompleteSettles
<1>3. CASE ~(f = h.funcs \/ ~(h.funcs \subseteq f))
  <2>1. h.funcs \cap f = h.funcs
    BY <1>3
  <2>2. [h EXCEPT !.funcs = h.funcs] = h
    BY DEF Handled
  <2>3. RcvdFunctionsRequest(h, f, ok) = Send(h, <<"FUNCTIONS_REQUEST", h.funcs>>, ok)
    BY <1>3, <2>1, <2>2 DEF RcvdFunctionsRequest
  <2> QED BY <1>1, <2>3, SendSettled
<1> QED BY <1>2, <1>3

(* SB TN3270E FUNCTIONS IS. *)
LEMMA FunctionsIsSettles ==
    ASSUME NestedFunctions, NEW h \in Handled, Settled(h), "TN3270E" \in h.my,
           NEW f \in FunctionSets, NEW ok \in BOOLEAN
    PROVE  RcvdFunctionsIs(h, f, ok) \in Handled /\ Settled(RcvdFunctionsIs(h, f, ok))
<1>1. CASE h.funcs \subseteq f /\ f # h.funcs
  <2>1. RcvdFunctionsIs(h, f, ok) = BackoffTn3270e(h, ok)
    BY <1>1 DEF RcvdFunctionsIs
  <2> QED BY <2>1, BackoffSettles
<1>2. CASE ~(h.funcs \subseteq f /\ f # h.funcs)
  <2>1. PICK a : a = [h EXCEPT !.funcs = f]
    OBVIOUS
  <2>2. a \in Handled /\ Settled(a) /\ a.my = h.my
    BY <1>2, <2>1, AgreedFunctions, FewerFunctions
  <2>3. RcvdFunctionsIs(h, f, ok) = Complete(a)
    BY <1>2, <2>1 DEF RcvdFunctionsIs
  <2> QED BY <2>2, <2>3, CompleteSettles
<1> QED BY <1>1, <1>2

-----------------------------------------------------------------------------
(* Data of another kind, and SYSREQ. *)

(* A change of submode settles, if 3270 data comes only to a bound session. *)
LEMMA EnterSettles ==
    ASSUME NEW h \in Handled, Settled(h), h.sock => "TN3270E" \in h.my, NEW submode \in Submode,
           submode = "E_3270" /\ NeedsBind(h) => h.bound
    PROVE  Enter(h, submode) \in Handled /\ Settled(Enter(h, submode))
<1>1. PICK g : g = [h EXCEPT !.submode = submode]
  OBVIOUS
<1>2. g \in Handled
  BY <1>1 DEF Handled
<1>3. /\ g.sock = h.sock /\ g.my = h.my /\ g.his = h.his /\ g.linemode = h.linemode
      /\ g.submode = submode /\ g.bound = h.bound
      /\ g.funcs = h.funcs /\ g.syncing = h.syncing /\ g.excepting = h.excepting
  BY <1>1 DEF Handled
<1>4. g.sock => Steady(g) /\ Leaving(g) /\ g.linemode = ("ECHO" \notin g.his)
  BY <1>3 DEF Settled, Steady, NeedsBind, Leaving
<1>5. Enter(h, submode) = CheckIn3270(g)
  BY <1>1 DEF Enter
<1> QED BY <1>2, <1>4, <1>5, Settles3270

(* The mode of a session in TN3270E comes from its tables. *)
LEMMA InTn3270eMode ==
    ASSUME NEW h \in Handled, Settled(h), InE(h), h.sock
    PROVE  "TN3270E" \in h.my
BY ModeIs DEF Settled, InE

(* SYSREQ goes back to 3270 data only in a bound session (net_abort). *)
LEMMA NetAbortSettles ==
    ASSUME NEW h \in Handled, Settled(h), InE(h), NEW ok \in BOOLEAN
    PROVE  NetAbort(h, ok) \in Handled /\ Settled(NetAbort(h, ok))
<1>1. PICK ao : ao = Send(h, <<"AO">>, ok)
  OBVIOUS
<1>2. <<"AO">> \in Message
  BY DEF Message
<1>3. ao \in Handled /\ Settled(ao) /\ (ao.sock => h.sock /\ Same(ao, h)) /\ ao.my = h.my
      /\ ao.funcs = h.funcs
  BY <1>1, <1>2, SendSettled, SendIs
<1>4. ao.sock => "TN3270E" \in ao.my
  BY <1>3, InTn3270eMode
<1>5. CASE h.submode = "E_3270"
  <2>1. NetAbort(h, ok) = Enter(ao, "E_SSCP")
    BY <1>1, <1>5 DEF NetAbort
  <2>2. "E_SSCP" \in Submode
    BY DEF Submode
  <2> QED BY <1>3, <1>4, <2>1, <2>2, EnterSettles
<1>6. CASE h.submode = "E_SSCP" /\ (h.bound \/ ~NeedsBind(h))
  <2>1. NetAbort(h, ok) = Enter(ao, "E_3270")
    BY <1>1, <1>6 DEF NetAbort
  <2>2. "E_3270" \in Submode
    BY DEF Submode
  <2>3. NeedsBind(ao) = NeedsBind(h)
    BY <1>3 DEF NeedsBind
  <2>4. ao.bound = h.bound
    BY <1>1 DEF Send, HostDisconnect, Handled
  <2> QED BY <1>3, <1>4, <1>6, <2>1, <2>2, <2>3, <2>4, EnterSettles
<1>7. CASE h.submode = "E_SSCP" /\ ~(h.bound \/ ~NeedsBind(h))
  <2>1. NetAbort(h, ok) = ao
    BY <1>1, <1>7 DEF NetAbort
  <2> QED BY <1>3, <2>1
<1>8. CASE h.submode # "E_3270" /\ h.submode # "E_SSCP"
  <2>1. NetAbort(h, ok) = h
    BY <1>8 DEF NetAbort
  <2> QED BY <2>1
<1> QED BY <1>5, <1>6, <1>7, <1>8

-----------------------------------------------------------------------------
(* The actions. *)

(* A session and no record in the middle of its processing. *)
LEMMA NewSession ==
    ASSUME IInv, ~record.open, NEW g \in Handled, Settled(g), g.out = <<>>,
           h3270' = g, record' = record
    PROVE  IInv'
<1>1. record = NoRecord
  BY DEF IInv, Owed
<1>2. record' \in Record /\ record' = NoRecord
  BY <1>1 DEF IInv
<1>3. ~NoRecord.open
  BY DEF NoRecord
<1> QED BY <1>2, <1>3 DEF IInv, Owed

(* What every handler of the host's commands does to the session. *)
LEMMA FromHostKeeps ==
    ASSUME IInv, ~record.open, NEW h \in Handled, Settled(h), FromHost(h)
    PROVE  IInv'
<1>1. PICK rest \in BOOLEAN : h3270' = [h EXCEPT !.out = <<>>, !.rest = rest]
  <2>1. (h.rest \/ (h3270.sock /\ ~h.sock)) \in BOOLEAN
    OBVIOUS
  <2>2. h3270' = [h EXCEPT !.out = <<>>, !.rest = (h.rest \/ (h3270.sock /\ ~h.sock))]
    BY DEF FromHost, Handled
  <2> QED BY <2>1, <2>2
<1>2. PICK g : g = [h EXCEPT !.out = <<>>, !.rest = rest]
  OBVIOUS
<1>3. g \in Handled /\ g.out = <<>>
  <2>1. <<>> \in Seq(Message)
    OBVIOUS
  <2>2. g \in Handled
    BY <1>2, <2>1 DEF Handled
  <2> QED BY <1>2, <2>2 DEF Handled
<1>4. SameModes(g, h)
  BY <1>2 DEF Handled, SameModes
<1>5. Settled(g)
  BY <1>4, SameModesSettled
<1>6. h3270' = g /\ record' = record
  BY <1>1, <1>2 DEF FromHost
<1> QED BY <1>3, <1>5, <1>6, NewSession

(* The host's options, agreed to or not. *)
LEMMA OptionsKeep ==
    ASSUME IInv, Options
    PROVE  IInv'
<1>1. PICK o \in Option : Will(o) \/ Wont(o) \/ Do(o) \/ Dont(o)
  BY DEF Options
<1>2. ~record.open /\ h3270 \in Handled /\ Settled(h3270)
  BY <1>1 DEF Will, Wont, Do, Dont, Reading, IInv
<1>3. CASE Will(o)
  BY <1>2, <1>3, WillSettles, FromHostKeeps DEF Will
<1>4. CASE Wont(o)
  BY <1>2, <1>4, WontSettles, FromHostKeeps DEF Wont
<1>5. CASE Do(o)
  BY <1>2, <1>5, DoSettles, FromHostKeeps DEF Do
<1>6. CASE Dont(o)
  BY <1>2, <1>6, DontSettles, FromHostKeeps DEF Dont
<1> QED BY <1>1, <1>3, <1>4, <1>5, <1>6

(* A session that is closed. *)
LEMMA DisconnectSettles ==
    ASSUME NEW h \in Handled, Settled(h)
    PROVE  HostDisconnect(h) \in Handled /\ Settled(HostDisconnect(h))
           /\ HostDisconnect(h).out = h.out
<1>1. CASE Connected(h)
  <2>1. PICK g : g = [h EXCEPT !.cstate = "NOT_CONNECTED", !.sock = FALSE, !.excepting = FALSE]
    OBVIOUS
  <2>2. g \in Handled /\ ~g.sock /\ g.out = h.out
    BY <2>1 DEF Handled, CState
  <2>3. HostDisconnect(h) = g
    BY <1>1, <2>1 DEF HostDisconnect
  <2> QED BY <2>2, <2>3 DEF Settled
<1>2. CASE ~Connected(h)
  BY <1>2 DEF HostDisconnect
<1> QED BY <1>1, <1>2

(* SB TTYPE SEND, when no LU is left also. *)
LEMMA TtypeSendKeeps ==
    ASSUME IInv, TtypeSend
    PROVE  IInv'
<1>1. ~record.open /\ h3270 \in Handled /\ Settled(h3270) /\ h3270.out = <<>>
  BY DEF TtypeSend, Reading, IInv
<1>2. CASE Lus > 0 /\ h3270.try_lu = 0
  <2>1. PICK d : d = HostDisconnect(h3270)
    OBVIOUS
  <2>2. d \in Handled /\ Settled(d) /\ d.out = <<>>
    BY <1>1, <2>1, DisconnectSettles
  <2>3. PICK g : g = [d EXCEPT !.rest = FALSE]
    OBVIOUS
  <2>4. g \in Handled /\ g.out = <<>> /\ SameModes(g, d)
    BY <2>2, <2>3 DEF Handled, SameModes
  <2>5. Settled(g)
    BY <2>2, <2>4, SameModesSettled
  <2>6. h3270' = g /\ record' = record
    BY <1>2, <2>1, <2>3 DEF TtypeSend
  <2> QED BY <1>1, <2>4, <2>5, <2>6, NewSession
<1>3. CASE ~(Lus > 0 /\ h3270.try_lu = 0)
  BY <1>1, <1>3, TtypeSettles, FromHostKeeps DEF TtypeSend
<1> QED BY <1>2, <1>3

(* TLS starts before any option; the session is connected once more. *)
LEMMA StartTlsKeeps ==
    ASSUME TlsFirst, IInv, StartTls
    PROVE  IInv'
<1>1. ~record.open /\ h3270 \in Handled /\ Settled(h3270)
  BY DEF StartTls, Reading, IInv
<1>2. h3270.my = {"STARTTLS"} /\ h3270.his = {}
  BY DEF StartTls
<1>3. CASE h3270.sock /\ FromHost([h3270 EXCEPT !.tls = FALSE, !.cstate = "CONNECTED_INITIAL"])
  <2>1. PICK g : g = [h3270 EXCEPT !.tls = FALSE, !.cstate = "CONNECTED_INITIAL"]
    OBVIOUS
  <2>2. g \in Handled
    BY <1>1, <2>1 DEF Handled, CState
  <2>3. /\ g.cstate = "CONNECTED_INITIAL" /\ g.sock = h3270.sock /\ g.my = h3270.my
        /\ g.his = h3270.his /\ g.linemode = h3270.linemode
        /\ g.negotiated = h3270.negotiated /\ g.submode = h3270.submode
        /\ g.bound = h3270.bound /\ g.funcs = h3270.funcs /\ g.syncing = h3270.syncing
        /\ g.excepting = h3270.excepting
    BY <1>1, <2>1 DEF Handled, CState
  <2>4. "TN3270E" \notin g.my /\ ~Tn3270Options(g)
    BY <1>2, <2>3 DEF Tn3270Options
  <2>5. Mode(g) = "CONNECTED_INITIAL"
    BY <2>2, <2>3, <2>4, ModeIs
  <2>6. Settled(g)
    BY <1>1, <2>3, <2>4, <2>5 DEF Settled, Steady, NeedsBind
  <2> QED BY <1>1, <1>3, <2>1, <2>2, <2>6, FromHostKeeps
<1>4. CASE FromHost([h3270 EXCEPT !.tls = FALSE, !.sock = FALSE])
  <2>1. PICK g : g = [h3270 EXCEPT !.tls = FALSE, !.sock = FALSE]
    OBVIOUS
  <2>2. g \in Handled /\ ~g.sock
    BY <1>1, <2>1 DEF Handled
  <2> QED BY <1>1, <1>4, <2>1, <2>2, FromHostKeeps DEF Settled
<1> QED BY <1>3, <1>4 DEF StartTls

(* The host's subnegotiations. *)
LEMMA SubnegotiationsKeep ==
    ASSUME TlsFirst, NestedFunctions, IInv, Subnegotiations
    PROVE  IInv'
<1>1. h3270 \in Handled /\ Settled(h3270)
  BY DEF IInv
<1>2. CASE TtypeSend
  BY <1>2, TtypeSendKeeps
<1>3. CASE SendDeviceType
  BY <1>1, <1>3, RequestSettles, FromHostKeeps DEF SendDeviceType, InTn3270e, Reading
<1>4. CASE DeviceTypeIs
  BY <1>1, <1>4, DeviceTypeIsSettles, FromHostKeeps DEF DeviceTypeIs, InTn3270e, Reading
<1>5. CASE DeviceTypeReject
  BY <1>1, <1>5, RejectSettles, FromHostKeeps DEF DeviceTypeReject, InTn3270e, Reading
<1>6. CASE FunctionsRequest
  BY <1>1, <1>6, FunctionsRequestSettles, FromHostKeeps DEF FunctionsRequest, InTn3270e, Reading
<1>7. CASE FunctionsIs
  BY <1>1, <1>7, FunctionsIsSettles, FromHostKeeps DEF FunctionsIs, InTn3270e, Reading
<1>8. CASE StartTls
  BY <1>8, StartTlsKeeps
<1> QED BY <1>2, <1>3, <1>4, <1>5, <1>6, <1>7, <1>8 DEF Subnegotiations

-----------------------------------------------------------------------------
(* Records. *)

(* An answer is given once: what is owed when it is given is what was owed. *)
LEMMA RecordKeeps ==
    ASSUME NEW g \in Handled, Settled(g), g.out = <<>>, NEW r \in Record, Owed(g, r),
           h3270' = g, record' = r
    PROVE  IInv'
BY DEF IInv

(* The record while it is processed. *)
Processed(f, output, n) == [flag |-> f, open |-> TRUE, output |-> output, answers |-> n]

(* It is a record. *)
LEMMA ProcessedIs ==
    ASSUME NEW f \in ResponseFlag, NEW output \in BOOLEAN, NEW n \in 0 .. 1
    PROVE  Processed(f, output, n) \in Record
BY DEF Record, Processed

(* 3270 data of a bound session: its response is owed (process_eor). *)
LEMMA DataKeeps ==
    ASSUME IInv, NEW flag \in ResponseFlag, Data(flag)
    PROVE  IInv'
<1>1. h3270 \in Handled /\ Settled(h3270) /\ h3270.out = <<>> /\ InE(h3270)
      /\ (NeedsBind(h3270) => h3270.bound)
  BY DEF IInv, Data
<1>2. h3270.sock => "TN3270E" \in h3270.my
  BY <1>1, InTn3270eMode
<1>3. h3270.sock => h3270.negotiated
  <2>1. h3270.sock /\ In3270(h3270) => Mode(h3270) \in {"CONNECTED_TN3270E", "CONNECTED_SSCP"}
    BY <1>1, <1>2, ModeIs DEF In3270, InE, Settled
  <2>2. h3270.sock /\ ~h3270.negotiated => Mode(h3270) = "CONNECTED_INITIAL_E"
    BY <1>2 DEF Mode
  <2> QED BY <2>1, <2>2 DEF Data, EndOfRecord
<1>4. PICK e : e = Enter(h3270, "E_3270")
  OBVIOUS
<1>5. e \in Handled /\ Settled(e)
  <2>1. "E_3270" \in Submode
    BY DEF Submode
  <2> QED BY <1>1, <1>2, <1>4, <2>1, EnterSettles
<1>6. e.out = <<>> /\ e.sock = h3270.sock
  BY <1>1, <1>4 DEF Enter, CheckIn3270, Handled
<1>7. e.sock => e.cstate = "CONNECTED_TN3270E"
  <2>1. SUFFICES ASSUME e.sock
                 PROVE  e.cstate = "CONNECTED_TN3270E"
    OBVIOUS
  <2>2. "TN3270E" \in h3270.my /\ h3270.negotiated
    BY <1>2, <1>3, <1>6, <2>1
  <2>3. e.my = h3270.my /\ e.negotiated = h3270.negotiated /\ e.submode = "E_3270"
    <3>1. PICK a : a = [h3270 EXCEPT !.submode = "E_3270"]
      OBVIOUS
    <3>2. a.my = h3270.my /\ a.negotiated = h3270.negotiated /\ a.submode = "E_3270"
          /\ a \in Handled
      BY <1>1, <3>1 DEF Handled, Submode
    <3>3. e = CheckIn3270(a)
      BY <1>4, <3>1 DEF Enter
    <3>4. e = a \/ e = [a EXCEPT !.cstate = Mode(a)]
      BY <2>2, <3>2, <3>3 DEF CheckIn3270
    <3> QED BY <3>2, <3>4 DEF Handled
  <2>4. Mode(e) = "CONNECTED_TN3270E"
    BY <2>2, <2>3 DEF Mode
  <2> QED BY <1>5, <2>1, <2>4 DEF Settled
<1>8. PICK g : g = [e EXCEPT !.response = flag]
  OBVIOUS
<1>9. g \in Handled
  BY <1>5, <1>8 DEF Handled
<1>10. g.out = e.out /\ g.response = flag /\ SameModes(g, e)
  BY <1>5, <1>8 DEF Handled, SameModes
<1>11. Settled(g)
  BY <1>5, <1>10, SameModesSettled
<1>12. PICK r : r = [NoRecord EXCEPT !.open = TRUE, !.flag = flag]
  OBVIOUS
<1>13. r \in Record /\ r.open /\ r.flag = flag /\ r.output = FALSE /\ r.answers = 0
  <2>1. r = Processed(flag, FALSE, 0)
    BY <1>12 DEF NoRecord, Processed
  <2>2. 0 \in 0 .. 1 /\ FALSE \in BOOLEAN
    OBVIOUS
  <2>3. flag \in ResponseFlag
    OBVIOUS
  <2>4. Processed(flag, FALSE, 0) \in Record
    BY <2>2, <2>3, ProcessedIs, Zenon
  <2>5. r \in Record
    BY <2>1, <2>4, Zenon
  <2> QED BY <2>1, <2>5 DEF Processed
<1>14. Owed(g, r)
  BY <1>7, <1>10, <1>13 DEF Owed, SameModes
<1>15. h3270' = g /\ record' = r
  BY <1>4, <1>8, <1>12 DEF Data
<1> QED BY <1>6, <1>9, <1>10, <1>11, <1>13, <1>14, <1>15, RecordKeeps

(* Output gives an ALWAYS-RESPONSE that is owed, and once (net_output). *)
LEMMA DataOutputKeeps ==
    ASSUME IInv, DataOutput
    PROVE  IInv'
<1>1. h3270 \in Handled /\ Settled(h3270) /\ h3270.out = <<>> /\ record \in Record
      /\ record.open /\ Owed(h3270, record)
  BY DEF IInv, DataOutput
<1>2. PICK ok \in BOOLEAN :
        LET h == NetOutput(h3270, ok)
        IN  /\ h3270' = [h EXCEPT !.out = <<>>, !.rest = @ \/ (h3270.sock /\ ~h.sock)]
            /\ record' = [record EXCEPT !.output = TRUE, !.answers = @ + Len(h.out)]
  BY DEF DataOutput
<1>3. PICK h : h = NetOutput(h3270, ok)
  OBVIOUS
<1>4. PICK rest : rest = (h.rest \/ (h3270.sock /\ ~h.sock))
  OBVIOUS
<1>5. PICK g : g = [h EXCEPT !.out = <<>>, !.rest = rest]
  OBVIOUS
<1>6. PICK r : r = [record EXCEPT !.output = TRUE, !.answers = @ + Len(h.out)]
  OBVIOUS
<1>7. <<>> \in Seq(Message) /\ rest \in BOOLEAN
  BY <1>4
<1>8. CASE /\ h3270.cstate \in {"CONNECTED_TN3270E", "CONNECTED_SSCP"}
           /\ h3270.response = "ALWAYS_RESPONSE"
  <2>1. PICK a : a = Send(h3270, <<"ACK">>, ok)
    OBVIOUS
  <2>2. <<"ACK">> \in Message
    BY DEF Message
  <2>3. a \in Handled /\ Settled(a) /\ (a.sock => h3270.sock /\ Same(a, h3270))
    BY <1>1, <2>1, <2>2, SendSettled, SendIs
  <2>4. h = [a EXCEPT !.response = "NO_RESPONSE"]
    BY <1>3, <1>8, <2>1 DEF NetOutput
  <2>5. h \in Handled
    BY <2>3, <2>4 DEF Handled, ResponseFlag
  <2>6. SameModes(h, a) /\ h.response = "NO_RESPONSE" /\ h.out = a.out
    BY <2>3, <2>4 DEF Handled, SameModes
  <2>7. Settled(h)
    BY <2>3, <2>6, SameModesSettled
  <2>8. g \in Handled
    BY <1>5, <1>7, <2>5 DEF Handled
  <2>9. SameModes(g, h) /\ g.response = h.response /\ g.out = <<>>
    BY <1>5, <2>5 DEF Handled, SameModes
  <2>10. Settled(g)
    BY <2>7, <2>9, SameModesSettled
  <2>11. h3270.sock => record.flag = "ALWAYS_RESPONSE" /\ record.answers = 0
    BY <1>1, <1>8 DEF Owed
  <2>12. h.out = IF h3270.sock /\ ok THEN << <<"ACK">> >> ELSE <<>>
    BY <1>1, <2>1, <2>6 DEF Send, HostDisconnect, Handled
  <2>13. h.sock => h3270.sock /\ ok
    BY <1>1, <1>8, <2>1, <2>6 DEF Send, HostDisconnect, Handled, Connected, SameModes
  <2>14. Len(h.out) = IF h3270.sock /\ ok THEN 1 ELSE 0
    BY <2>12
  <2>15. r \in Record /\ r.open /\ r.flag = record.flag
         /\ r.answers = record.answers + Len(h.out)
    <3>1. r = Processed(record.flag, TRUE, record.answers + Len(h.out))
      BY <1>1, <1>6 DEF Record, Processed
    <3>2. record.answers \in 0 .. 1 /\ record.flag \in ResponseFlag
      BY <1>1 DEF Record
    <3>3. record.answers + Len(h.out) \in 0 .. 1
      BY <2>11, <2>14, <3>2
    <3>4. TRUE \in BOOLEAN
      OBVIOUS
    <3>5. r \in Record
      BY <3>1, <3>2, <3>3, <3>4, ProcessedIs, Zenon
    <3> QED BY <1>1, <3>1, <3>5 DEF Processed, Owed
  <2>16. Owed(g, r)
    BY <1>1, <2>3, <2>6, <2>9, <2>11, <2>13, <2>14, <2>15 DEF Owed, Same, SameModes
  <2>17. h3270' = g /\ record' = r
    BY <1>2, <1>3, <1>4, <1>5, <1>6, <2>5 DEF Handled
  <2> QED BY <2>8, <2>9, <2>10, <2>15, <2>16, <2>17, RecordKeeps
<1>9. CASE ~(/\ h3270.cstate \in {"CONNECTED_TN3270E", "CONNECTED_SSCP"}
             /\ h3270.response = "ALWAYS_RESPONSE")
  <2>1. h = h3270
    BY <1>3, <1>9 DEF NetOutput
  <2>2. g \in Handled
    BY <1>1, <1>5, <1>7, <2>1 DEF Handled
  <2>3. SameModes(g, h) /\ g.response = h.response /\ g.out = <<>>
    BY <1>1, <1>5, <2>1 DEF Handled, SameModes
  <2>4. Settled(g)
    BY <1>1, <2>1, <2>3, SameModesSettled
  <2>5. Len(h.out) = 0
    BY <1>1, <2>1
  <2>6. r \in Record /\ r.open /\ r.flag = record.flag /\ r.answers = record.answers
    <3>1. record.answers \in 0 .. 1 /\ record.flag \in ResponseFlag
      BY <1>1 DEF Record
    <3>2. r = Processed(record.flag, TRUE, record.answers + Len(h.out))
      BY <1>1, <1>6 DEF Record, Processed
    <3>3. record.answers + Len(h.out) = record.answers
      BY <2>5, <3>1
    <3>4. TRUE \in BOOLEAN
      OBVIOUS
    <3>5. r \in Record
      BY <3>1, <3>2, <3>3, <3>4, ProcessedIs, Zenon
    <3> QED BY <3>2, <3>3, <3>5 DEF Processed
  <2>7. h3270.sock /\ record.answers = 0 => record.flag # "ALWAYS_RESPONSE"
    BY <1>1, <1>9 DEF Owed
  <2>8. Owed(g, r)
    BY <1>1, <2>1, <2>3, <2>6, <2>7 DEF Owed, SameModes
  <2>9. h3270' = g /\ record' = r
    BY <1>1, <1>2, <1>3, <1>4, <1>5, <1>6, <2>1 DEF Handled
  <2> QED BY <2>2, <2>3, <2>4, <2>6, <2>8, <2>9, RecordKeeps
<1> QED BY <1>8, <1>9

(* Nothing is owed after the end of a record (process_eor). *)
LEMMA DataEndsKeeps ==
    ASSUME IInv, NEW rv \in {"OKAY_NO_OUTPUT", "OKAY_OUTPUT", "BAD"}, DataEnds(rv)
    PROVE  IInv'
<1>1. h3270 \in Handled /\ Settled(h3270) /\ h3270.out = <<>>
  BY DEF IInv
<1>2. PICK ok \in BOOLEAN :
        LET h == IF FinalAnswer(h3270, rv) = <<>> THEN h3270
                 ELSE Send(h3270, <<"ANSWER">>, ok)
        IN  h3270' = [h EXCEPT !.response = "NO_RESPONSE", !.out = <<>>,
                               !.rest = @ \/ (h3270.sock /\ ~h.sock)]
  BY DEF DataEnds
<1>3. PICK h : h = IF FinalAnswer(h3270, rv) = <<>> THEN h3270
                   ELSE Send(h3270, <<"ANSWER">>, ok)
  OBVIOUS
<1>4. h \in Handled /\ Settled(h)
  <2>1. <<"ANSWER">> \in Message
    BY DEF Message
  <2> QED BY <1>1, <1>3, <2>1, SendSettled
<1>5. PICK rest : rest = (h.rest \/ (h3270.sock /\ ~h.sock))
  OBVIOUS
<1>6. PICK g : g = [h EXCEPT !.response = "NO_RESPONSE", !.out = <<>>, !.rest = rest]
  OBVIOUS
<1>7. g \in Handled
  <2>1. <<>> \in Seq(Message) /\ rest \in BOOLEAN /\ "NO_RESPONSE" \in ResponseFlag
    BY <1>5 DEF ResponseFlag
  <2> QED BY <1>4, <1>6, <2>1 DEF Handled
<1>8. SameModes(g, h) /\ g.out = <<>>
  BY <1>4, <1>6 DEF Handled, SameModes
<1>9. Settled(g)
  BY <1>4, <1>8, SameModesSettled
<1>10. h3270' = g /\ record' = NoRecord
  BY <1>2, <1>3, <1>4, <1>5, <1>6 DEF DataEnds, Handled
<1>11. NoRecord \in Record /\ Owed(g, NoRecord)
  BY DEF NoRecord, Record, ResponseFlag, Owed
<1> QED BY <1>7, <1>8, <1>9, <1>10, <1>11, RecordKeeps

(* A session that is bound, or no longer. *)
LEMMA BindSettles ==
    ASSUME NEW h \in Handled, Settled(h), InE(h), NEW bound \in BOOLEAN, NEW submode \in Submode,
           submode = "E_3270" => bound
    PROVE  LET g == CheckIn3270([h EXCEPT !.bound = bound, !.submode = submode])
           IN  g \in Handled /\ Settled(g)
<1>1. PICK g : g = [h EXCEPT !.bound = bound, !.submode = submode]
  OBVIOUS
<1>2. g \in Handled
  BY <1>1 DEF Handled
<1>3. /\ g.sock = h.sock /\ g.my = h.my /\ g.his = h.his /\ g.linemode = h.linemode
      /\ g.submode = submode /\ g.bound = bound
      /\ g.syncing = h.syncing /\ g.excepting = h.excepting
  BY <1>1 DEF Handled
<1>4. g.sock => Steady(g) /\ Leaving(g) /\ g.linemode = ("ECHO" \notin g.his)
  BY <1>3, InTn3270eMode DEF Settled, Steady, Leaving
<1> QED BY <1>1, <1>2, <1>4, Settles3270

(* Records of every kind. *)
LEMMA RecordsKeep ==
    ASSUME IInv, Records
    PROVE  IInv'
<1>1. h3270 \in Handled /\ Settled(h3270)
  BY DEF IInv
<1>2. CASE \E flag \in ResponseFlag : Data(flag)
  BY <1>2, DataKeeps
<1>3. CASE DataOutput
  BY <1>3, DataOutputKeeps
<1>4. CASE \E rv \in {"OKAY_NO_OUTPUT", "OKAY_OUTPUT", "BAD"} : DataEnds(rv)
  BY <1>4, DataEndsKeeps
<1>5. CASE BindImage
  <2>1. PICK g : g = CheckIn3270([h3270 EXCEPT !.bound = TRUE])
    OBVIOUS
  <2>2. [h3270 EXCEPT !.bound = TRUE] = [h3270 EXCEPT !.bound = TRUE, !.submode = h3270.submode]
    BY <1>1 DEF Handled
  <2>3. h3270.submode \in Submode /\ InE(h3270) /\ ~record.open
    BY <1>1, <1>5 DEF Handled, BindImage, EndOfRecord, Reading
  <2>4. g \in Handled /\ Settled(g)
    BY <1>1, <2>1, <2>2, <2>3, BindSettles
  <2> QED BY <1>5, <2>1, <2>3, <2>4, FromHostKeeps DEF BindImage
<1>6. CASE Unbind
  <2>1. PICK submode : submode = IF h3270.submode = "E_3270" THEN "E_NONE" ELSE h3270.submode
    OBVIOUS
  <2>2. PICK g : g = CheckIn3270([h3270 EXCEPT !.bound = FALSE, !.submode = submode])
    OBVIOUS
  <2>3. submode \in Submode /\ submode # "E_3270"
    BY <1>1, <2>1 DEF Handled, Submode
  <2>4. InE(h3270) /\ ~record.open
    BY <1>6 DEF Unbind, EndOfRecord, Reading
  <2>5. g \in Handled /\ Settled(g)
    BY <1>1, <2>2, <2>3, <2>4, BindSettles
  <2>6. FromHost(g)
    BY <1>1, <1>6, <2>1, <2>2 DEF Unbind, Handled
  <2> QED BY <2>4, <2>5, <2>6, FromHostKeeps
<1>7. CASE NvtData
  <2>1. InE(h3270) /\ ~record.open /\ "E_NVT" \in Submode /\ "E_NVT" # "E_3270"
    BY <1>7 DEF NvtData, EndOfRecord, Reading, Submode
  <2>2. PICK g : g = Enter(h3270, "E_NVT")
    OBVIOUS
  <2>3. g \in Handled /\ Settled(g)
    BY <1>1, <2>1, <2>2, InTn3270eMode, EnterSettles
  <2> QED BY <1>7, <2>1, <2>2, <2>3, FromHostKeeps DEF NvtData
<1>8. CASE SscpLuData
  <2>1. InE(h3270) /\ ~record.open /\ "E_SSCP" \in Submode /\ "E_SSCP" # "E_3270"
    BY <1>8 DEF SscpLuData, EndOfRecord, Reading, Submode
  <2>2. PICK g : g = Enter(h3270, "E_SSCP")
    OBVIOUS
  <2>3. g \in Handled /\ Settled(g)
    BY <1>1, <2>1, <2>2, InTn3270eMode, EnterSettles
  <2> QED BY <1>8, <2>1, <2>2, <2>3, FromHostKeeps DEF SscpLuData
<1> QED BY <1>2, <1>3, <1>4, <1>5, <1>6, <1>7, <1>8 DEF Records

-----------------------------------------------------------------------------
(* The rest of the steps. *)

(* Data before any option. *)
LEMMA FirstDataKeeps ==
    ASSUME IInv, FirstData
    PROVE  IInv'
<1>1. h3270 \in Handled /\ Settled(h3270) /\ ~record.open /\ h3270.cstate = "CONNECTED_INITIAL"
  BY DEF FirstData, Reading, IInv
<1>2. PICK g : g = [h3270 EXCEPT !.cstate = "CONNECTED_ANSI"]
  OBVIOUS
<1>3. g \in Handled
  BY <1>1, <1>2 DEF Handled, CState
<1>4. /\ g.cstate = "CONNECTED_ANSI" /\ g.sock = h3270.sock /\ g.my = h3270.my
      /\ g.his = h3270.his /\ g.linemode = h3270.linemode
      /\ g.negotiated = h3270.negotiated /\ g.submode = h3270.submode
      /\ g.bound = h3270.bound /\ g.funcs = h3270.funcs /\ g.syncing = h3270.syncing
      /\ g.excepting = h3270.excepting
  BY <1>1, <1>2 DEF Handled, CState
<1>5. h3270.sock => "TN3270E" \notin h3270.my /\ ~Tn3270Options(h3270)
  BY <1>1, ModeIs DEF Settled
<1>6. Tn3270Options(g) = Tn3270Options(h3270)
  BY <1>4 DEF Tn3270Options
<1>7. g.sock => Mode(g) = "CONNECTED_ANSI"
  BY <1>3, <1>4, <1>5, <1>6, ModeIs
<1>8. Settled(g)
  BY <1>1, <1>4, <1>7 DEF Settled, Steady, NeedsBind
<1>9. FromHost(g)
  BY <1>2 DEF FirstData
<1> QED BY <1>1, <1>3, <1>8, <1>9, FromHostKeeps

(* The watch for urgent data. *)
LEMMA WatchSettled ==
    ASSUME NEW h \in Handled, Settled(h), NEW syncing \in BOOLEAN
    PROVE  LET g == [h EXCEPT !.syncing = syncing, !.excepting = ~syncing]
           IN  g \in Handled /\ Settled(g) /\ g.out = h.out
<1>1. PICK g : g = [h EXCEPT !.syncing = syncing, !.excepting = ~syncing]
  OBVIOUS
<1>2. g \in Handled
  BY <1>1 DEF Handled
<1>3. /\ g.cstate = h.cstate /\ g.sock = h.sock /\ g.my = h.my
      /\ g.his = h.his /\ g.linemode = h.linemode
      /\ g.negotiated = h.negotiated /\ g.submode = h.submode
      /\ g.bound = h.bound /\ g.funcs = h.funcs /\ g.syncing = syncing
      /\ g.excepting = ~syncing /\ g.out = h.out
  BY <1>1 DEF Handled
<1>4. Mode(g) = Mode(h)
  BY <1>3 DEF Mode, Tn3270Options
<1>5. Settled(g)
  BY <1>3, <1>4 DEF Settled, Steady, NeedsBind
<1> QED BY <1>1, <1>2, <1>3, <1>5

(* IAC DM and the urgent condition. *)
LEMMA WatchKeeps ==
    ASSUME IInv, DataMark \/ Urgent
    PROVE  IInv'
<1>1. h3270 \in Handled /\ Settled(h3270) /\ ~record.open /\ h3270.out = <<>>
  BY DEF DataMark, Urgent, Reading, IInv
<1>2. CASE DataMark
  <2>1. PICK g : g = [h3270 EXCEPT !.syncing = FALSE, !.excepting = TRUE]
    OBVIOUS
  <2>2. g \in Handled /\ Settled(g)
    BY <1>1, <2>1, WatchSettled
  <2>3. FromHost(g)
    BY <1>2, <2>1 DEF DataMark
  <2> QED BY <1>1, <2>2, <2>3, FromHostKeeps
<1>3. CASE Urgent
  <2>1. PICK g : g = [h3270 EXCEPT !.syncing = TRUE, !.excepting = FALSE]
    OBVIOUS
  <2>2. g \in Handled /\ Settled(g) /\ g.out = <<>>
    BY <1>1, <2>1, WatchSettled
  <2>3. h3270' = g /\ record' = record
    BY <1>3, <2>1 DEF Urgent
  <2> QED BY <1>1, <2>2, <2>3, NewSession
<1> QED BY <1>2, <1>3

(* The end of the buffer in which a session was lost. *)
LEMMA BufferEndsKeeps ==
    ASSUME IInv, BufferEnds
    PROVE  IInv'
<1>1. h3270 \in Handled /\ Settled(h3270) /\ ~record.open /\ h3270.out = <<>>
  BY DEF BufferEnds, IInv
<1>2. PICK g : g = [h3270 EXCEPT !.rest = FALSE]
  OBVIOUS
<1>3. g \in Handled
  BY <1>1, <1>2 DEF Handled
<1>4. SameModes(g, h3270) /\ g.out = <<>>
  BY <1>1, <1>2 DEF Handled, SameModes
<1>5. h3270' = g /\ record' = record
  BY <1>2 DEF BufferEnds
<1> QED BY <1>1, <1>3, <1>4, <1>5, SameModesSettled, NewSession

(* A session starts outside TN3270E with no option agreed on. *)
LEMMA ConnectedSettled ==
    NetConnected \in Handled /\ Settled(NetConnected) /\ NetConnected.out = <<>>
<1>1. PICK first : first = IF Lus > 0 THEN 1 ELSE 0
  OBVIOUS
<1>2. first \in 0 .. Lus
  BY <1>1, LusAssumption
<1>3. PICK g : g = NetConnected
  OBVIOUS
<1>4. g = [cstate |-> "CONNECTED_INITIAL", sock |-> TRUE, rest |-> FALSE,
           my |-> {}, his |-> {}, linemode |-> TRUE, tls |-> FALSE,
           negotiated |-> FALSE, submode |-> "E_NONE", bound |-> FALSE,
           funcs |-> OurFunctions, curr_lu |-> first, try_lu |-> first,
           syncing |-> FALSE, excepting |-> TRUE,
           response |-> "NO_RESPONSE", out |-> <<>>]
  BY <1>1, <1>3, Zenon DEF NetConnected, SetupLus
<1>5. g \in Handled
  <2>1. OurFunctions \in Agreed /\ "CONNECTED_INITIAL" \in CState /\ "E_NONE" \in Submode
        /\ "NO_RESPONSE" \in ResponseFlag /\ <<>> \in Seq(Message)
    BY DEF Agreed, CState, Submode, ResponseFlag
  <2> HIDE DEF Agreed
  <2> QED BY <1>2, <1>4, <2>1 DEF Handled
<1>6. /\ g.cstate = "CONNECTED_INITIAL" /\ g.my = {} /\ g.his = {} /\ g.linemode
      /\ ~g.negotiated /\ ~g.bound /\ g.submode = "E_NONE" /\ ~g.syncing /\ g.excepting
      /\ g.out = <<>>
  BY <1>4
<1>7. Mode(g) = "CONNECTED_INITIAL"
  <2>1. "TN3270E" \notin g.my /\ ~Tn3270Options(g)
    BY <1>6 DEF Tn3270Options
  <2> QED BY <1>5, <1>6, <2>1, ModeIs
<1>8. Settled(g)
  <2>1. Steady(g)
    BY <1>6 DEF Steady
  <2> QED BY <1>6, <1>7, <2>1 DEF Settled
<1> QED BY <1>3, <1>5, <1>6, <1>8

(* The program starts without a session. *)
LEMMA InitHolds ==
    ASSUME Init
    PROVE  IInv
<1>1. PICK g : g = HostDisconnect(NetConnected)
  OBVIOUS
<1>2. g \in Handled /\ Settled(g) /\ g.out = <<>>
  BY <1>1, ConnectedSettled, DisconnectSettles
<1>3. NoRecord \in Record /\ Owed(g, NoRecord)
  BY DEF NoRecord, Record, ResponseFlag, Owed
<1> QED BY <1>1, <1>2, <1>3 DEF Init, IInv

(* The user connects, disconnects, or presses SYSREQ. *)
LEMMA UserKeeps ==
    ASSUME IInv, Connect \/ Disconnect \/ Sysreq
    PROVE  IInv'
<1>1. h3270 \in Handled /\ Settled(h3270) /\ ~record.open /\ h3270.out = <<>>
  BY DEF Connect, Disconnect, Sysreq, MainLoop, IInv
<1>2. CASE Connect
  BY <1>1, <1>2, ConnectedSettled, NewSession DEF Connect
<1>3. CASE Disconnect
  <2>1. PICK g : g = HostDisconnect(h3270)
    OBVIOUS
  <2>2. g \in Handled /\ Settled(g) /\ g.out = <<>>
    BY <1>1, <2>1, DisconnectSettles
  <2>3. h3270' = g /\ record' = record
    BY <1>3, <2>1 DEF Disconnect
  <2> QED BY <1>1, <2>2, <2>3, NewSession
<1>4. CASE Sysreq
  <2>1. PICK ok \in BOOLEAN : h3270' = [NetAbort(h3270, ok) EXCEPT !.out = <<>>]
    BY <1>4 DEF Sysreq
  <2>2. PICK a : a = NetAbort(h3270, ok)
    OBVIOUS
  <2>3. a \in Handled /\ Settled(a)
    BY <1>1, <1>4, <2>2, NetAbortSettles DEF Sysreq
  <2>4. PICK g : g = [a EXCEPT !.out = <<>>]
    OBVIOUS
  <2>5. g \in Handled /\ g.out = <<>>
    <3>1. <<>> \in Seq(Message)
      OBVIOUS
    <3> QED BY <2>3, <2>4, <3>1 DEF Handled
  <2>6. SameModes(g, a)
    BY <2>3, <2>4 DEF Handled, SameModes
  <2>7. h3270' = g /\ record' = record
    BY <1>4, <2>1, <2>2, <2>4 DEF Sysreq
  <2> QED BY <1>1, <2>3, <2>5, <2>6, <2>7, SameModesSettled, NewSession
<1> QED BY <1>2, <1>3, <1>4

(* The invariant is inductive. *)
LEMMA StepKeeps ==
    ASSUME TlsFirst, NestedFunctions, IInv, [Next]_vars
    PROVE  IInv'
<1>1. CASE UNCHANGED vars
  BY <1>1 DEF vars, IInv
<1>2. CASE Next
  BY <1>2, OptionsKeep, SubnegotiationsKeep, RecordsKeep, FirstDataKeeps, WatchKeeps,
     BufferEndsKeeps, UserKeeps DEF Next
<1> QED BY <1>1, <1>2

-----------------------------------------------------------------------------
(* The results. *)

(* It says what the runs check. *)
LEMMA InvariantIs ==
    ASSUME NestedFunctions, IInv
    PROVE  SessionConsistent
<1>1. h3270 \in Handled /\ h3270.out = <<>> /\ Settled(h3270) /\ record \in Record
  BY DEF IInv
<1>2. h3270 \in Session
  <2>1. h3270.funcs \subseteq Function
    BY <1>1, Zenon DEF Handled, NestedFunctions, Agreed, OurFunctions, Function
  <2> QED BY <1>1, <2>1 DEF Handled, Session
<1>3. ModeFollowsOptions /\ Tn3270eStateEnds
  BY <1>1 DEF ModeFollowsOptions, Tn3270eStateEnds, Settled
<1>4. BoundIn3270 /\ UrgentDataSeen
  BY <1>1 DEF BoundIn3270, UrgentDataSeen, Settled, Steady
<1> QED BY <1>1, <1>2, <1>3, <1>4 DEF SessionConsistent, TypeOK

(* With such a host, every open session has the mode, the line mode, the      *)
(* TN3270E state and the watch for urgent data that its options call for,     *)
(* whichever handler ran last and whichever send failed (check_in3270,        *)
(* check_linemode, process_eor, net_exception).                               *)
THEOREM SessionStaysConsistent ==
    ASSUME TlsFirst, NestedFunctions
    PROVE  Spec => []SessionConsistent
<1>1. Init => IInv
  BY InitHolds
<1>2. IInv /\ [Next]_vars => IInv'
  BY StepKeeps
<1>3. IInv => SessionConsistent
  BY InvariantIs
<1> QED BY <1>1, <1>2, <1>3, PTL DEF Spec

(* A record's end gives what is still owed. *)
LEMMA AnswersAtTheEnd ==
    ASSUME IInv, NEW rv \in {"OKAY_NO_OUTPUT", "OKAY_OUTPUT", "BAD"}, DataEnds(rv), h3270'.sock
    PROVE  record.answers + Len(FinalAnswer(h3270, rv))
             = IF \/ record.flag = "ALWAYS_RESPONSE"
                  \/ record.flag = "ERROR_RESPONSE" /\ rv = "BAD"
               THEN 1 ELSE 0
<1>1. h3270 \in Handled /\ record \in Record /\ Owed(h3270, record) /\ record.open
      /\ (rv = "OKAY_OUTPUT" => record.output)
  BY DEF IInv, DataEnds
<1>2. h3270.sock
  <2>1. PICK ok \in BOOLEAN :
          LET h == IF FinalAnswer(h3270, rv) = <<>> THEN h3270
                   ELSE Send(h3270, <<"ANSWER">>, ok)
          IN  h3270' = [h EXCEPT !.response = "NO_RESPONSE", !.out = <<>>,
                                 !.rest = @ \/ (h3270.sock /\ ~h.sock)]
    BY DEF DataEnds
  <2>2. PICK h : h = IF FinalAnswer(h3270, rv) = <<>> THEN h3270
                     ELSE Send(h3270, <<"ANSWER">>, ok)
    OBVIOUS
  <2>3. h \in Handled /\ (h.sock => h3270.sock)
    <3>1. <<"ANSWER">> \in Message
      BY DEF Message
    <3> QED BY <1>1, <2>2, <3>1, SendIs
  <2>4. h3270'.sock = h.sock
    BY <2>1, <2>2, <2>3 DEF Handled
  <2> QED BY <2>3, <2>4
<1>3. Len(FinalAnswer(h3270, rv)) =
        IF \/ rv = "BAD" /\ h3270.response # "NO_RESPONSE"
           \/ rv = "OKAY_NO_OUTPUT" /\ h3270.response = "ALWAYS_RESPONSE" THEN 1 ELSE 0
  <2>1. FinalAnswer(h3270, rv) =
          IF rv = "BAD" /\ h3270.response # "NO_RESPONSE" THEN << <<"NAK">> >>
          ELSE IF rv = "OKAY_NO_OUTPUT" /\ h3270.response = "ALWAYS_RESPONSE" THEN << <<"ACK">> >>
          ELSE <<>>
    BY DEF FinalAnswer
  <2>2. Len(<< <<"NAK">> >>) = 1 /\ Len(<< <<"ACK">> >>) = 1 /\ Len(<<>>) = 0
    OBVIOUS
  <2> QED BY <2>1, <2>2
<1>4. CASE record.answers = 0 /\ h3270.response = record.flag
           /\ (record.output => record.flag # "ALWAYS_RESPONSE")
  BY <1>1, <1>3, <1>4 DEF Record, ResponseFlag
<1>5. CASE record.answers = 1 /\ h3270.response = "NO_RESPONSE"
           /\ record.flag = "ALWAYS_RESPONSE"
  BY <1>3, <1>5
<1> QED BY <1>1, <1>2, <1>4, <1>5 DEF Owed

(* With such a host, a record that asks for a response gets exactly one and   *)
(* any other none, whatever its processing sends (process_eor, net_output).   *)
THEOREM AnsweredOnce ==
    ASSUME TlsFirst, NestedFunctions
    PROVE  Spec => OneAnswer
<1> DEFINE Answered == \A rv \in {"OKAY_NO_OUTPUT", "OKAY_OUTPUT", "BAD"} :
          DataEnds(rv) /\ h3270'.sock
          => record.answers + Len(FinalAnswer(h3270, rv))
             = IF \/ record.flag = "ALWAYS_RESPONSE"
                  \/ record.flag = "ERROR_RESPONSE" /\ rv = "BAD"
               THEN 1 ELSE 0
<1>1. Init => IInv
  BY InitHolds
<1>2. IInv /\ [Next]_vars => IInv'
  BY StepKeeps
<1>3. IInv => Answered
  BY AnswersAtTheEnd
<1>4. IInv /\ [Next]_vars => [Answered]_vars
  BY <1>3
<1> HIDE DEF Answered
<1>5. Spec => [][Answered]_vars
  BY <1>1, <1>2, <1>4, PTL DEF Spec
<1> QED BY <1>5 DEF OneAnswer, Answered

=============================================================================
