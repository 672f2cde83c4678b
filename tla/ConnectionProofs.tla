--------------------------- MODULE ConnectionProofs ---------------------------
(***************************************************************************)
(* Proofs about Connection.  As long as there is one attempt to connect at *)
(* a time, in any build of the program, a session and the socket, watch    *)
(* and TLS layer it owns are in step.  The inductive invariant says what   *)
(* an attempt holds in each stage.                                         *)
(*                                                                         *)
(* Where attempts cannot nest (the library in its own loop, and the        *)
(* graphical program with RECONNECT off) that is no restriction: the timer *)
(* exists only with RECONNECT, and its attempt never waits.  In the        *)
(* graphical program with RECONNECT it is one: see run nested.             *)
(*                                                                         *)
(* Then the services of the connection, each in steps of its own.          *)
(* PrinterSession: what a process said waits for its timeout, and whom it  *)
(* prints for is bound to the mode.  ProxyNegotiation: what was read of a  *)
(* proxy's reply and what is still coming are together one of the replies, *)
(* and what SOCKS 5 counts is what is left of it.                          *)
(***************************************************************************)
EXTENDS Connection, Services, SequenceTheorems, WellFoundedInduction, TLAPS

(* No call of lib3270_connect inside another.                                 *)
OneAtATime == Len(attempts) <= 1

(* The builds in which none can come.                                         *)
NoNesting == ~(Threaded /\ Reconnect)

(* The session's record, its reconnection, and no watch that is lost. *)
Sound(h) ==
    /\ h \in Session
    /\ h.stray = {}
    /\ h.timers = (IF h.inprogress THEN 1 ELSE 0)
    /\ h.timers # 0 => Reconnect

(* Nothing is connected and nothing is held. *)
Closed(h) ==
    /\ ~Connected(h)
    /\ h.sock = NoFd /\ h.open = {} /\ h.live = {}
    /\ h.watch = NoFd /\ ~h.secure

(* Between attempts: a closed session, or a connected one with at most the    *)
(* one socket.                                                                *)
Held(h) ==
    /\ ~Connected(h) => Closed(h)
    /\ h.open = {h.sock} \ {NoFd}
    /\ h.live = h.open
    /\ h.secure => h.ssl = "up" /\ h.sock # NoFd

(* While the attempt t connects its socket. *)
Trying(h, t) ==
    /\ ~Connected(h)
    /\ h.sock \in Fd /\ h.open = {h.sock}
    /\ h.live = (IF t.rc = "ok" THEN {h.sock} ELSE {})
    /\ h.watch = NoFd /\ ~h.secure
    /\ t.fd \in {NoFd, h.sock}

(* An attempt under way, and what it finds. *)
Frame(h, t) ==
    /\ t \in Attempt
    /\ t.by = "timer" => Reconnect /\ ~t.wait /\ ~h.inprogress
    /\ t.by = "timer" /\ t.stage = "pending" => ~Connected(h)
    /\ t.stage = "waiting" => t.wait
    /\ t.stage \in {"pending", "resolving"} => t.rc = "none" /\ t.fd = NoFd
    /\ t.stage \in {"pending", "waiting"} => Held(h)
    /\ t.stage = "resolving" => Closed(h)
    /\ t.stage = "connecting" => Trying(h, t)

IInv ==
    /\ Sound(h3270)
    /\ \/ attempts = <<>> /\ Held(h3270)
       \/ \E t \in Attempt : attempts = <<t>> /\ Frame(h3270, t)

-----------------------------------------------------------------------------
(* The stack when there is one attempt on it. *)
LEMMA OnStack ==
    ASSUME NEW t \in Attempt, attempts = <<t>>
    PROVE  /\ attempts # <<>> /\ Len(attempts) = 1 /\ DOMAIN attempts = {1}
           /\ attempts[1] = t /\ Top = t /\ Pop = <<>>
           /\ \A x : SetTop(x) = <<x>>
  <1>1. Len(attempts) = 1 /\ attempts[1] = t /\ DOMAIN attempts = {1} /\ attempts # <<>>
    OBVIOUS
  <1>2. Top = t
    BY <1>1 DEF Top
  <1>3. Pop = <<>>
    BY <1>1 DEF Pop
  <1>4. \A x : SetTop(x) = <<x>>
    BY <1>1 DEF SetTop
  <1> QED BY <1>1, <1>2, <1>3, <1>4

(* Setting the reconnection timer and its flag touches nothing else. *)
LEMMA SetTimer ==
    ASSUME NEW n \in Session, NEW k \in Nat, NEW b \in BOOLEAN
    PROVE  LET s == [n EXCEPT !.inprogress = b, !.timers = k]
           IN  /\ s \in Session
               /\ s.watch = n.watch /\ s.stray = n.stray /\ s.sock = n.sock
               /\ s.open = n.open /\ s.live = n.live /\ s.secure = n.secure
               /\ s.cstate = n.cstate /\ s.ssl = n.ssl /\ s.tls = n.tls
               /\ s.timers = k /\ s.inprogress = b
  BY DEF Session

(* A disconnection of a session between attempts closes it. *)
LEMMA HostDisconnectHeld ==
    ASSUME NEW h, Sound(h), Held(h)
    PROVE  Sound(HostDisconnect(h)) /\ Closed(HostDisconnect(h)) /\ Held(HostDisconnect(h))
  <1>1. CASE ~Connected(h)
    BY <1>1 DEF HostDisconnect, Held
  <1>2. CASE Connected(h)
    <2> DEFINE r == XRemoveInput(h)
               n == NetDisconnect(r)
               s == ScheduleReconnect(n)
    <2>1. /\ r \in Session /\ r.watch = NoFd /\ r.stray = {}
          /\ r.sock = h.sock /\ r.open = h.open /\ r.live = h.live
          /\ r.inprogress = h.inprogress /\ r.timers = h.timers
      BY DEF Sound, Session, XRemoveInput
    <2>2. /\ n \in Session /\ n.watch = NoFd /\ n.stray = {} /\ n.sock = NoFd
          /\ n.open = h.open \ {h.sock} /\ n.live = h.live \ {h.sock} /\ n.secure = FALSE
          /\ n.inprogress = h.inprogress /\ n.timers = h.timers
      <3> HIDE DEF r
      <3> QED BY <2>1 DEF Session, NetDisconnect, SockClose
    <2>3. n.open = {} /\ n.live = {}
      BY <2>2 DEF Held
    <2>4. /\ s \in Session /\ s.watch = NoFd /\ s.stray = {} /\ s.sock = NoFd
          /\ s.open = {} /\ s.live = {} /\ ~s.secure
          /\ s.timers = (IF s.inprogress THEN 1 ELSE 0) /\ (s.timers # 0 => Reconnect)
      <3> HIDE DEF n
      <3>1. CASE Reconnect /\ ~n.inprogress
        <4>1. s = [n EXCEPT !.inprogress = TRUE, !.timers = n.timers + 1]
          BY <3>1 DEF ScheduleReconnect
        <4>2. n.timers = 0
          BY <2>2, <3>1 DEF Sound
        <4>3. n.timers + 1 = 1
          BY <4>2
        <4>4. /\ s \in Session /\ s.watch = n.watch /\ s.stray = n.stray /\ s.sock = n.sock
              /\ s.open = n.open /\ s.live = n.live /\ s.secure = n.secure
              /\ s.timers = 1 /\ s.inprogress = TRUE
          <5> HIDE DEF s
          <5>1. s = [n EXCEPT !.inprogress = TRUE, !.timers = 1]
            BY <4>1, <4>3, Zenon
          <5>2. 1 \in Nat /\ TRUE \in BOOLEAN /\ n \in Session
            BY <2>2
          <5> QED BY <5>1, <5>2, SetTimer, Zenon
        <4> QED BY <2>2, <2>3, <3>1, <4>4
      <3>2. CASE ~(Reconnect /\ ~n.inprogress)
        <4>1. s = n
          BY <3>2 DEF ScheduleReconnect
        <4> QED BY <2>2, <2>3, <4>1 DEF Sound
      <3> QED BY <3>1, <3>2
    <2>5. HostDisconnect(h) = HostDisconnected(s)
      BY <1>2 DEF HostDisconnect
    <2> HIDE DEF s
    <2>6. LET d == HostDisconnected(s)
          IN  /\ d \in Session /\ d.cstate = "NOT_CONNECTED" /\ d.watch = NoFd /\ d.stray = {}
              /\ d.sock = NoFd /\ d.open = {} /\ d.live = {} /\ ~d.secure
              /\ d.timers = s.timers /\ d.inprogress = s.inprogress
      BY <2>4 DEF Session, CState, HostDisconnected
    <2> QED BY <2>4, <2>5, <2>6 DEF Sound, Closed, Held, Connected
  <1> QED BY <1>1, <1>2

(* A change of state alone. *)
LEMMA SetCState ==
    ASSUME NEW h \in Session, NEW c \in CState
    PROVE  LET s == [h EXCEPT !.cstate = c]
           IN  /\ s \in Session
               /\ s.watch = h.watch /\ s.stray = h.stray /\ s.sock = h.sock
               /\ s.open = h.open /\ s.live = h.live /\ s.secure = h.secure
               /\ s.ssl = h.ssl /\ s.inprogress = h.inprogress /\ s.timers = h.timers
               /\ s.cstate = c
  BY DEF Session

(* A handshake that succeeds secures the connection. *)
LEMMA SetSecure ==
    ASSUME NEW h \in Session
    PROVE  LET s == [h EXCEPT !.ssl = "up", !.secure = TRUE]
           IN  /\ s \in Session
               /\ s.watch = h.watch /\ s.stray = h.stray /\ s.sock = h.sock
               /\ s.open = h.open /\ s.live = h.live /\ s.secure
               /\ s.ssl = "up" /\ s.inprogress = h.inprogress /\ s.timers = h.timers
               /\ s.cstate = h.cstate
  <1> DEFINE s == [h EXCEPT !.ssl = "up", !.secure = TRUE]
  <1>1. /\ s \in Session
        /\ s.watch = h.watch /\ s.stray = h.stray /\ s.sock = h.sock
        /\ s.open = h.open /\ s.live = h.live
        /\ s.ssl = "up" /\ s.inprogress = h.inprogress /\ s.timers = h.timers
        /\ s.cstate = h.cstate
    BY DEF Session
  <1>2. s.secure = TRUE
    BY Zenon DEF Session
  <1> QED BY <1>1, <1>2

(* A session in a connected state, with what it holds, is between attempts.   *)
LEMMA ConnectedHeld ==
    ASSUME IInv, Connected(h3270) \/ h3270.watch # NoFd
    PROVE  /\ Held(h3270)
           /\ \A t \in Attempt : attempts = <<t>> => t.stage \in {"pending", "waiting"}
  <1>1. CASE attempts = <<>>
    BY <1>1 DEF IInv
  <1>2. ASSUME NEW t \in Attempt, attempts = <<t>>, Frame(h3270, t)
        PROVE  Held(h3270) /\ t.stage \in {"pending", "waiting"}
    BY <1>2 DEF Frame, Closed, Trying, Attempt
  <1>3. ASSUME NEW t \in Attempt, NEW u \in Attempt, attempts = <<t>>, attempts = <<u>>
        PROVE  t = u
    BY <1>3, OnStack
  <1> QED BY <1>1, <1>2, <1>3 DEF IInv

(* An event that leaves the stack alone and the session held. *)
LEMMA EventInv ==
    ASSUME IInv, Connected(h3270) \/ h3270.watch # NoFd, NEW h, Sound(h), Held(h), Become(h)
    PROVE  IInv'
  <1>1. h3270' = h /\ attempts' = attempts
    BY DEF Become
  <1>2. CASE attempts = <<>>
    BY <1>1, <1>2 DEF IInv
  <1>3. ASSUME NEW t \in Attempt, attempts = <<t>>, Frame(h3270, t)
        PROVE  Frame(h, t)
    <2>1. t.stage \in {"pending", "waiting"}
      BY <1>3, ConnectedHeld
    <2>2. t.by # "timer"
      BY <1>3, <2>1 DEF Frame, Held, Closed
    <2> QED BY <1>3, <2>1, <2>2 DEF Frame
  <1> QED BY <1>1, <1>2, <1>3 DEF IInv

-----------------------------------------------------------------------------
(* The end of a session, by the host, the user or a write that fails. *)
LEMMA EndInv ==
    ASSUME IInv, Connected(h3270) \/ h3270.watch # NoFd, Become(HostDisconnect(h3270))
    PROVE  IInv'
  <1>1. Sound(h3270) /\ Held(h3270)
    BY ConnectedHeld DEF IInv
  <1> QED BY <1>1, HostDisconnectHeld, EventInv

(* net_input is called only for a session that is connected. *)
LEMMA ReadableConnected ==
    ASSUME IInv, Readable
    PROVE  h3270.watch # NoFd
  BY DEF IInv, Sound, Readable

(* An answer or a mode of the host, also when the answer cannot be sent. *)
LEMMA NegotiateInv ==
    ASSUME IInv, Negotiate
    PROVE  IInv'
  <1>1. h3270.watch # NoFd
    BY ReadableConnected DEF Negotiate, InputData
  <1>2. Sound(h3270) /\ Held(h3270) /\ Connected(h3270)
    BY <1>1, ConnectedHeld DEF IInv, Held, Closed
  <1>3. PICK sent \in BOOLEAN, state \in {"CONNECTED_INITIAL_E", "IN_SESSION"} :
          LET h == IF sent THEN h3270 ELSE HostDisconnect(h3270)
          IN  Become([h EXCEPT !.cstate = state])
    BY DEF Negotiate
  <1> DEFINE h == IF sent THEN h3270 ELSE HostDisconnect(h3270)
  <1>4. Sound(h) /\ Held(h)
    BY <1>2, HostDisconnectHeld
  <1> HIDE DEF h
  <1> DEFINE s == [h EXCEPT !.cstate = state]
  <1>5. state \in CState /\ state # "NOT_CONNECTED" /\ h \in Session
    BY <1>4 DEF CState, Sound
  <1>6. /\ s \in Session /\ s.cstate = state
        /\ s.watch = h.watch /\ s.stray = h.stray /\ s.sock = h.sock
        /\ s.open = h.open /\ s.live = h.live /\ s.secure = h.secure
        /\ s.ssl = h.ssl /\ s.inprogress = h.inprogress /\ s.timers = h.timers
    BY <1>5, SetCState
  <1>7. Become(s)
    BY <1>3 DEF h
  <1> HIDE DEF s
  <1>8. Sound(s) /\ Held(s)
    BY <1>4, <1>5, <1>6 DEF Sound, Held, Connected
  <1> QED BY <1>1, <1>7, <1>8, EventInv

(* A handshake that succeeds, or closes the socket of a session that stays. *)
LEMMA ContinueTlsInv ==
    ASSUME IInv, ContinueTls
    PROVE  IInv'
  <1>1. h3270.watch # NoFd /\ h3270.sock # NoFd
    BY ReadableConnected DEF ContinueTls, InputData, Readable
  <1>2. Sound(h3270) /\ Held(h3270) /\ Connected(h3270)
    BY <1>1, ConnectedHeld DEF IInv, Held, Closed
  <1>3. CASE Become(HostConnected([h3270 EXCEPT !.ssl = "up", !.secure = TRUE]))
    <2> DEFINE h == [h3270 EXCEPT !.ssl = "up", !.secure = TRUE]
               s == [h EXCEPT !.cstate = "CONNECTED_INITIAL"]
    <2>1. /\ h \in Session
          /\ h.watch = h3270.watch /\ h.stray = h3270.stray /\ h.sock = h3270.sock
          /\ h.open = h3270.open /\ h.live = h3270.live /\ h.secure /\ h.ssl = "up"
          /\ h.inprogress = h3270.inprogress /\ h.timers = h3270.timers
      BY <1>2, SetSecure DEF Sound
    <2>2. Become(s)
      BY <1>3 DEF HostConnected
    <2> HIDE DEF h
    <2>3. "CONNECTED_INITIAL" \in CState
      BY DEF CState
    <2>4. /\ s \in Session /\ s.cstate = "CONNECTED_INITIAL"
          /\ s.watch = h.watch /\ s.stray = h.stray /\ s.sock = h.sock
          /\ s.open = h.open /\ s.live = h.live /\ s.secure = h.secure
          /\ s.ssl = h.ssl /\ s.inprogress = h.inprogress /\ s.timers = h.timers
      BY <2>1, <2>3, SetCState
    <2> HIDE DEF s
    <2>5. Sound(s) /\ Held(s)
      BY <1>1, <1>2, <2>1, <2>4 DEF Sound, Held, Connected
    <2> QED BY <1>1, <2>2, <2>5, EventInv
  <1>4. CASE Become(NetDisconnect(h3270))
    <2> DEFINE s == NetDisconnect(h3270)
    <2>1. /\ s \in Session /\ s.watch = h3270.watch /\ s.stray = h3270.stray
          /\ s.sock = NoFd /\ s.cstate = h3270.cstate /\ s.secure = FALSE
          /\ s.open = h3270.open \ {h3270.sock} /\ s.live = h3270.live \ {h3270.sock}
          /\ s.inprogress = h3270.inprogress /\ s.timers = h3270.timers
      BY <1>2 DEF Sound, Session, NetDisconnect, SockClose
    <2> HIDE DEF s
    <2>2. s.open = {} /\ s.live = {}
      BY <1>2, <2>1 DEF Held
    <2>3. Sound(s) /\ Held(s)
      BY <1>2, <2>1, <2>2 DEF Sound, Held, Connected
    <2> QED BY <1>1, <1>4, <2>3, EventInv DEF s
  <1> QED BY <1>3, <1>4 DEF ContinueTls

-----------------------------------------------------------------------------
(* What holds when the innermost attempt is in a stage. *)
LEMMA TopFrame ==
    ASSUME IInv, NEW stage, AttemptIn(stage)
    PROVE  /\ Top \in Attempt /\ attempts = <<Top>> /\ Pop = <<>>
           /\ Top.stage = stage /\ Frame(h3270, Top)
           /\ \A x : SetTop(x) = <<x>>
  <1>1. PICK t \in Attempt : attempts = <<t>> /\ Frame(h3270, t)
    BY DEF IInv, AttemptIn
  <1> QED BY <1>1, OnStack DEF AttemptIn

(* An attempt returns and leaves the session as sound as it found it. *)
LEMMA ReturnInv ==
    ASSUME NEW h, Sound(h), Held(h), NEW ok \in BOOLEAN, Pop = <<>>,
           Top.by = "timer" => ~h.inprogress, Return(h, ok)
    PROVE  IInv'
  <1>1. attempts' = <<>> /\ h \in Session
    BY DEF Return, Sound
  <1>2. CASE h3270' = h
    BY <1>1, <1>2 DEF IInv
  <1>3. CASE ~h.inprogress /\ h3270' = [h EXCEPT !.inprogress = FALSE]
    <2> DEFINE s == [h EXCEPT !.inprogress = FALSE]
    <2>1. /\ s \in Session /\ s.cstate = h.cstate
          /\ s.watch = h.watch /\ s.stray = h.stray /\ s.sock = h.sock
          /\ s.open = h.open /\ s.live = h.live /\ s.secure = h.secure
          /\ s.ssl = h.ssl /\ s.timers = h.timers
      BY <1>1 DEF Session
    <2>2. ~s.inprogress
      BY <1>1, Zenon DEF Session
    <2>3. h3270' = s
      BY <1>3
    <2> HIDE DEF s
    <2>4. Sound(s) /\ Held(s)
      BY <1>3, <2>1, <2>2 DEF Sound, Held, Closed, Connected
    <2> QED BY <1>1, <2>3, <2>4 DEF IInv
  <1> QED BY <1>2, <1>3 DEF Return

(* A failed attempt has nothing left to close. *)
LEMMA FailInv ==
    ASSUME NEW h \in Session, Sound(h), Pop = <<>>,
           h.sock = NoFd, h.open = {}, h.live = {}, h.watch = NoFd, ~h.secure,
           Top.by = "timer" => ~h.inprogress, DoConnectFails(h)
    PROVE  IInv'
  <1> DEFINE s == [h EXCEPT !.cstate = "NOT_CONNECTED"]
  <1>1. "NOT_CONNECTED" \in CState
    BY DEF CState
  <1>2. /\ s \in Session /\ s.cstate = "NOT_CONNECTED"
        /\ s.watch = h.watch /\ s.stray = h.stray /\ s.sock = h.sock
        /\ s.open = h.open /\ s.live = h.live /\ s.secure = h.secure
        /\ s.ssl = h.ssl /\ s.inprogress = h.inprogress /\ s.timers = h.timers
    BY <1>1, SetCState
  <1>3. Return(s, FALSE)
    BY DEF DoConnectFails, HostDisconnected
  <1> HIDE DEF s
  <1>4. Sound(s) /\ Held(s)
    BY <1>2 DEF Sound, Held, Closed, Connected
  <1> QED BY <1>2, <1>3, <1>4, ReturnInv

(* An attempt goes on, and finds what its new stage asks for. *)
LEMMA GoOnInv ==
    ASSUME NEW t \in Attempt, Sound(h3270'), Frame(h3270', t), attempts' = <<t>>
    PROVE  IInv'
  BY DEF IInv

(* An attempt is turned away or starts from a closed session. *)
LEMMA BeginInv ==
    ASSUME IInv, Begin
    PROVE  IInv'
  <1>1. /\ Top \in Attempt /\ attempts = <<Top>> /\ Pop = <<>>
        /\ Top.stage = "pending" /\ Frame(h3270, Top)
        /\ \A x : SetTop(x) = <<x>>
    BY TopFrame DEF Begin
  <1>2. Sound(h3270) /\ Held(h3270)
    BY <1>1 DEF IInv, Frame
  <1>3. CASE h3270.inprogress \/ Connected(h3270)
    <2>1. Return(h3270, FALSE)
      BY <1>3 DEF Begin
    <2>2. Top.by = "timer" => ~h3270.inprogress
      BY <1>1 DEF Frame
    <2> QED BY <1>1, <1>2, <2>1, <2>2, ReturnInv
  <1>4. CASE ~(h3270.inprogress \/ Connected(h3270))
    <2> DEFINE s == [h3270 EXCEPT !.tls = Top.tls]
               t == [Top EXCEPT !.stage = "resolving"]
    <2>1. h3270' = s /\ attempts' = <<t>>
      BY <1>1, <1>4 DEF Begin
    <2>2. /\ s \in Session /\ s.cstate = h3270.cstate
          /\ s.watch = h3270.watch /\ s.stray = h3270.stray /\ s.sock = h3270.sock
          /\ s.open = h3270.open /\ s.live = h3270.live /\ s.secure = h3270.secure
          /\ s.ssl = h3270.ssl /\ s.timers = h3270.timers
          /\ s.inprogress = h3270.inprogress
      BY <1>1, <1>2 DEF Sound, Session, Attempt
    <2>3. /\ t \in Attempt /\ t.stage = "resolving" /\ t.by = Top.by /\ t.wait = Top.wait
          /\ t.rc = Top.rc /\ t.fd = Top.fd
      BY <1>1 DEF Attempt
    <2> HIDE DEF s, t
    <2>4. Sound(s) /\ Closed(s)
      BY <1>2, <1>4, <2>2 DEF Sound, Held, Closed, Connected
    <2>5. Frame(s, t)
      BY <1>1, <2>2, <2>3, <2>4 DEF Frame
    <2> QED BY <2>1, <2>3, <2>4, <2>5, GoOnInv
  <1> QED BY <1>3, <1>4

(* No name, no socket. *)
LEMMA ResolveFailsInv ==
    ASSUME IInv, ResolveFails
    PROVE  IInv'
  <1>1. /\ Pop = <<>> /\ Top.stage = "resolving" /\ Frame(h3270, Top)
    BY TopFrame DEF ResolveFails
  <1>2. Sound(h3270) /\ Closed(h3270)
    BY <1>1 DEF IInv, Frame
  <1> QED BY <1>1, <1>2, FailInv DEF ResolveFails, Sound, Closed, Frame

(* The attempt holds the one socket it opens. *)
LEMMA OpenSocketInv ==
    ASSUME IInv, OpenSocket
    PROVE  IInv'
  <1>1. /\ Top \in Attempt /\ Pop = <<>>
        /\ Top.stage = "resolving" /\ Frame(h3270, Top)
        /\ \A x : SetTop(x) = <<x>>
    BY TopFrame DEF OpenSocket
  <1>2. Sound(h3270) /\ Closed(h3270) /\ h3270 \in Session
    BY <1>1 DEF IInv, Frame, Sound
  <1>3. CASE DoConnectFails([h3270 EXCEPT !.sock = NoFd])
    <2> DEFINE s == [h3270 EXCEPT !.sock = NoFd]
    <2>1. /\ s \in Session /\ s.sock = NoFd /\ s.open = {} /\ s.live = {} /\ s.watch = NoFd
          /\ s.secure = h3270.secure /\ s.stray = h3270.stray /\ s.timers = h3270.timers
          /\ s.inprogress = h3270.inprogress
      BY <1>2 DEF Session, Closed
    <2>2. DoConnectFails(s)
      BY <1>3
    <2> HIDE DEF s
    <2> QED BY <1>1, <1>2, <2>1, <2>2, FailInv DEF Sound, Closed, Frame
  <1>4. ASSUME NEW fd \in Fd \ h3270.open,
               h3270' = [h3270 EXCEPT !.sock = fd, !.open = @ \cup {fd},
                                      !.ssl = IF h3270.tls THEN "idle" ELSE @],
               attempts' = SetTop([Top EXCEPT !.stage = "connecting"])
        PROVE  IInv'
    <2> DEFINE s == [h3270 EXCEPT !.sock = fd, !.open = @ \cup {fd},
                                  !.ssl = IF h3270.tls THEN "idle" ELSE @]
               t == [Top EXCEPT !.stage = "connecting"]
    <2>1. h3270' = s /\ attempts' = <<t>>
      BY <1>1, <1>4
    <2>2. /\ s \in Session /\ s.cstate = h3270.cstate /\ s.sock = fd /\ s.open = {fd}
          /\ s.live = {} /\ s.watch = NoFd /\ s.secure = h3270.secure
          /\ s.stray = h3270.stray /\ s.timers = h3270.timers
          /\ s.inprogress = h3270.inprogress
      BY <1>2 DEF Session, Closed
    <2>3. /\ t \in Attempt /\ t.stage = "connecting" /\ t.by = Top.by /\ t.wait = Top.wait
          /\ t.rc = "none" /\ t.fd = NoFd
      BY <1>1 DEF Attempt, Frame
    <2> HIDE DEF s, t
    <2>4. Sound(s) /\ Frame(s, t)
      BY <1>1, <1>2, <2>2, <2>3 DEF Sound, Frame, Trying, Closed, Connected
    <2> QED BY <2>1, <2>3, <2>4, GoOnInv
  <1> QED BY <1>3, <1>4 DEF OpenSocket

(* The thread of the only attempt there is reads the socket it has opened. *)
LEMMA ThreadInv ==
    ASSUME IInv, Thread
    PROVE  IInv'
  <1>1. PICK i \in DOMAIN attempts : BgConnectStarts(i) \/ BgConnectEnds(i)
    BY DEF Thread
  <1>2. PICK t \in Attempt : attempts = <<t>> /\ Frame(h3270, t)
    BY <1>1 DEF IInv
  <1>3. i = 1 /\ attempts[i] = t
    BY <1>1, <1>2
  <1>4. t.stage = "connecting" /\ t.rc = "none"
    BY <1>1, <1>3 DEF BgConnectStarts, BgConnectEnds
  <1>5. Sound(h3270) /\ Trying(h3270, t) /\ h3270 \in Session
    BY <1>2, <1>4 DEF IInv, Frame, Sound
  <1>6. CASE BgConnectStarts(i)
    <2> DEFINE u == [t EXCEPT !.fd = h3270.sock]
    <2>1. attempts' = <<u>> /\ h3270' = h3270
      BY <1>2, <1>3, <1>6 DEF BgConnectStarts
    <2>2. /\ u \in Attempt /\ u.stage = t.stage /\ u.by = t.by /\ u.wait = t.wait
          /\ u.rc = t.rc /\ u.fd = h3270.sock
      BY <1>5 DEF Attempt, Session
    <2> HIDE DEF u
    <2>3. Frame(h3270, u)
      BY <1>2, <1>4, <1>5, <2>2 DEF Frame, Trying
    <2> QED BY <1>5, <2>1, <2>2, <2>3, GoOnInv
  <1>7. CASE attempts' = [attempts EXCEPT ![i].rc = "failed"] /\ UNCHANGED h3270
    <2> DEFINE u == [t EXCEPT !.rc = "failed"]
    <2>1. attempts' = <<u>> /\ h3270' = h3270
      BY <1>2, <1>3, <1>7
    <2>2. /\ u \in Attempt /\ u.stage = t.stage /\ u.by = t.by /\ u.wait = t.wait
          /\ u.rc = "failed" /\ u.fd = t.fd
      BY DEF Attempt
    <2> HIDE DEF u
    <2>3. Frame(h3270, u)
      BY <1>2, <1>4, <1>5, <2>2 DEF Frame, Trying
    <2> QED BY <1>5, <2>1, <2>2, <2>3, GoOnInv
  <1>8. CASE /\ attempts[i].fd \in h3270.open \ h3270.live
             /\ h3270' = [h3270 EXCEPT !.live = @ \cup {attempts[i].fd}]
             /\ attempts' = [attempts EXCEPT ![i].rc = "ok"]
    <2> DEFINE u == [t EXCEPT !.rc = "ok"]
               s == [h3270 EXCEPT !.live = @ \cup {t.fd}]
    <2>1. attempts' = <<u>> /\ h3270' = s /\ t.fd = h3270.sock
      BY <1>2, <1>3, <1>5, <1>8 DEF Trying
    <2>2. /\ u \in Attempt /\ u.stage = t.stage /\ u.by = t.by /\ u.wait = t.wait
          /\ u.rc = "ok" /\ u.fd = t.fd
      BY DEF Attempt
    <2>3. /\ s \in Session /\ s.cstate = h3270.cstate /\ s.sock = h3270.sock
          /\ s.open = h3270.open /\ s.live = {h3270.sock} /\ s.watch = h3270.watch
          /\ s.secure = h3270.secure /\ s.stray = h3270.stray
          /\ s.timers = h3270.timers /\ s.inprogress = h3270.inprogress
      BY <1>4, <1>5, <2>1 DEF Session, Trying
    <2> HIDE DEF u, s
    <2>4. Sound(s) /\ Frame(s, u)
      BY <1>2, <1>4, <1>5, <2>1, <2>2, <2>3 DEF Sound, Frame, Trying, Connected
    <2> QED BY <2>1, <2>2, <2>4, GoOnInv
  <1> QED BY <1>1, <1>6, <1>7, <1>8 DEF BgConnectEnds

(* close_fail leaves an attempt with nothing to close. *)
LEMMA ConnectFailsInv ==
    ASSUME IInv, ConnectFails
    PROVE  IInv'
  <1>1. /\ Top \in Attempt /\ Pop = <<>> /\ Top.stage = "connecting" /\ Frame(h3270, Top)
    BY TopFrame DEF ConnectFails
  <1>2. Sound(h3270) /\ Trying(h3270, Top) /\ h3270 \in Session
    BY <1>1 DEF IInv, Frame, Sound
  <1> DEFINE s == SockClose(h3270)
  <1>3. /\ s \in Session /\ s.sock = NoFd
        /\ s.open = h3270.open \ {h3270.sock} /\ s.live = h3270.live \ {h3270.sock}
        /\ s.watch = h3270.watch /\ s.stray = h3270.stray /\ s.secure = h3270.secure
        /\ s.timers = h3270.timers /\ s.inprogress = h3270.inprogress
    BY <1>2 DEF Session, SockClose
  <1>4. DoConnectFails(s)
    BY DEF ConnectFails
  <1> HIDE DEF s
  <1>5. s.open = {} /\ s.live = {}
    BY <1>2, <1>3 DEF Trying
  <1> QED BY <1>1, <1>2, <1>3, <1>4, <1>5, FailInv DEF Sound, Trying, Frame

(* A failed proxy or handshake changes nothing, a handshake that succeeds     *)
(* secures the connection.                                                    *)
LEMMA NetConnectedSound ==
    ASSUME NEW h \in Session, ~Connected(h), ~h.secure,
           NEW p \in BOOLEAN, NEW o \in BOOLEAN
    PROVE  LET k == NetConnected(h, p, o)
           IN  /\ k \in Session
               /\ k.watch = h.watch /\ k.stray = h.stray /\ k.sock = h.sock
               /\ k.open = h.open /\ k.live = h.live /\ (k.secure => k.ssl = "up")
               /\ k.inprogress = h.inprogress /\ k.timers = h.timers
  <1>1. HostDisconnect(h) = h
    BY DEF HostDisconnect
  <1>2. CASE NetConnected(h, p, o) = h
    BY <1>2
  <1>3. CASE NetConnected(h, p, o) = HostConnected([h EXCEPT !.ssl = "up", !.secure = TRUE])
    <2> DEFINE u == [h EXCEPT !.ssl = "up", !.secure = TRUE]
               s == [u EXCEPT !.cstate = "CONNECTED_INITIAL"]
    <2>1. /\ u \in Session
          /\ u.watch = h.watch /\ u.stray = h.stray /\ u.sock = h.sock
          /\ u.open = h.open /\ u.live = h.live /\ u.ssl = "up"
          /\ u.inprogress = h.inprogress /\ u.timers = h.timers
      BY SetSecure
    <2>2. NetConnected(h, p, o) = s
      BY <1>3 DEF HostConnected
    <2> HIDE DEF u
    <2>3. "CONNECTED_INITIAL" \in CState
      BY DEF CState
    <2>4. /\ s \in Session
          /\ s.watch = u.watch /\ s.stray = u.stray /\ s.sock = u.sock
          /\ s.open = u.open /\ s.live = u.live /\ s.ssl = u.ssl
          /\ s.inprogress = u.inprogress /\ s.timers = u.timers
      BY <2>1, <2>3, SetCState
    <2> HIDE DEF s
    <2> QED BY <2>1, <2>2, <2>4
  <1> QED BY <1>1, <1>2, <1>3 DEF NetConnected

(* The session a connected attempt leaves owns its socket and its watch. *)
LEMMA ConnectSucceedsInv ==
    ASSUME IInv, ConnectSucceeds
    PROVE  IInv'
  <1>1. /\ Top \in Attempt /\ Pop = <<>> /\ Top.stage = "connecting" /\ Frame(h3270, Top)
        /\ Top.rc = "ok" /\ \A x : SetTop(x) = <<x>>
    BY TopFrame DEF ConnectSucceeds
  <1>2. Sound(h3270) /\ Trying(h3270, Top) /\ h3270 \in Session
    BY <1>1 DEF IInv, Frame, Sound
  <1>3. PICK p \in BOOLEAN, o \in BOOLEAN :
          LET h == NetConnected(h3270, p, o)
          IN  IF h.sock = NoFd
              THEN DoConnectFails(h)
              ELSE IF Top.wait
              THEN /\ h3270' = HostConnected(XAddInput(h))
                   /\ attempts' = SetTop([Top EXCEPT !.stage = "waiting"])
              ELSE Return(HostConnected(XAddInput(h)), TRUE)
    BY DEF ConnectSucceeds
  <1> DEFINE k == NetConnected(h3270, p, o)
             u == XAddInput(k)
             s == HostConnected(u)
  <1>4. /\ k \in Session
        /\ k.watch = h3270.watch /\ k.stray = h3270.stray /\ k.sock = h3270.sock
        /\ k.open = h3270.open /\ k.live = h3270.live /\ (k.secure => k.ssl = "up")
        /\ k.inprogress = h3270.inprogress /\ k.timers = h3270.timers
    BY <1>2, NetConnectedSound DEF Trying
  <1>5. k.sock # NoFd
    BY <1>2, <1>4, FdAssumption DEF Trying
  <1>6. IF Top.wait
        THEN h3270' = s /\ attempts' = SetTop([Top EXCEPT !.stage = "waiting"])
        ELSE Return(s, TRUE)
    BY <1>3, <1>5
  <1> HIDE DEF k
  <1>7. /\ u \in Session
        /\ u.stray = k.stray /\ u.sock = k.sock
        /\ u.open = k.open /\ u.live = k.live /\ u.ssl = k.ssl /\ u.secure = k.secure
        /\ u.inprogress = k.inprogress /\ u.timers = k.timers
    BY <1>2, <1>4 DEF Session, XAddInput, Trying
  <1> HIDE DEF u
  <1>8. "CONNECTED_INITIAL" \in CState
    BY DEF CState
  <1>9. /\ s \in Session /\ s.cstate = "CONNECTED_INITIAL"
        /\ s.stray = u.stray /\ s.sock = u.sock
        /\ s.open = u.open /\ s.live = u.live /\ s.ssl = u.ssl /\ s.secure = u.secure
        /\ s.inprogress = u.inprogress /\ s.timers = u.timers
    BY <1>7, <1>8, SetCState DEF HostConnected
  <1> HIDE DEF s
  <1>10. Sound(s)
    BY <1>2, <1>4, <1>7, <1>9 DEF Sound
  <1>11. s.open = {s.sock} /\ s.live = {s.sock}
    BY <1>1, <1>2, <1>4, <1>7, <1>9 DEF Trying
  <1>12. Held(s)
    BY <1>4, <1>5, <1>7, <1>9, <1>11 DEF Held, Connected
  <1>13. CASE Top.wait
    <2> DEFINE t == [Top EXCEPT !.stage = "waiting"]
    <2>1. h3270' = s /\ attempts' = <<t>>
      BY <1>1, <1>6, <1>13
    <2>2. /\ t \in Attempt /\ t.stage = "waiting" /\ t.by = Top.by /\ t.wait = Top.wait
      BY <1>1 DEF Attempt
    <2> HIDE DEF t
    <2>3. Frame(s, t)
      BY <1>1, <1>12, <1>13, <2>2 DEF Frame
    <2> QED BY <1>10, <2>1, <2>2, <2>3, GoOnInv
  <1>14. CASE ~Top.wait
    <2>1. Top.by = "timer" => ~s.inprogress
      BY <1>1, <1>4, <1>7, <1>9 DEF Frame
    <2>2. Return(s, TRUE)
      BY <1>6, <1>14
    <2> QED BY <1>1, <1>10, <1>12, <2>1, <2>2, ReturnInv
  <1> QED BY <1>13, <1>14

(* The wait for a mode ends and leaves the session as it found it. *)
LEMMA WaitEndsInv ==
    ASSUME IInv, WaitEnds
    PROVE  IInv'
  <1>1. /\ Pop = <<>> /\ Top.stage = "waiting" /\ Frame(h3270, Top)
    BY TopFrame DEF WaitEnds
  <1>2. Sound(h3270) /\ Held(h3270) /\ (Top.by = "timer" => ~h3270.inprogress)
    BY <1>1 DEF IInv, Frame
  <1>3. InSession(h3270) \in BOOLEAN
    BY DEF InSession
  <1>4. Return(h3270, InSession(h3270))
    BY DEF WaitEnds
  <1> QED BY <1>1, <1>2, <1>3, <1>4, ReturnInv

-----------------------------------------------------------------------------
(* The first attempt on an empty stack. *)
LEMMA CallInv ==
    ASSUME attempts = <<>>, NEW by \in {"user", "timer"}, NEW tls \in BOOLEAN,
           NEW wait \in BOOLEAN, Call(by, tls, wait), Sound(h3270'), Held(h3270'),
           by = "timer" => Reconnect /\ ~wait /\ ~h3270'.inprogress /\ ~Connected(h3270')
    PROVE  IInv'
  <1> DEFINE t == [by |-> by, tls |-> tls, wait |-> wait,
                   stage |-> "pending", fd |-> NoFd, rc |-> "none"]
  <1>1. attempts' = <<t>>
    BY DEF Call
  <1>2. /\ t \in Attempt /\ t.by = by /\ t.wait = wait /\ t.stage = "pending"
        /\ t.fd = NoFd /\ t.rc = "none"
    BY DEF Attempt
  <1> HIDE DEF t
  <1>3. Frame(h3270', t)
    BY <1>2 DEF Frame
  <1> QED BY <1>1, <1>2, <1>3, GoOnInv

(* A call that leaves one attempt on the stack found none there. *)
LEMMA CallOnEmpty ==
    ASSUME IInv, OneAtATime', NEW by, NEW tls, NEW wait, Call(by, tls, wait)
    PROVE  attempts = <<>>
  <1>1. ASSUME NEW t \in Attempt, attempts = <<t>> PROVE FALSE
    BY <1>1 DEF Call, OneAtATime
  <1> QED BY <1>1 DEF IInv

(* A user's attempt, when no other is under way. *)
LEMMA UserConnectsInv ==
    ASSUME IInv, OneAtATime', UserConnects
    PROVE  IInv'
  <1>1. attempts = <<>>
    BY CallOnEmpty DEF UserConnects
  <1>2. attempts = <<>> /\ Sound(h3270) /\ Held(h3270)
    BY <1>1 DEF IInv
  <1>3. PICK tls \in BOOLEAN, wait \in BOOLEAN : Call("user", tls, wait)
    BY DEF UserConnects
  <1>4. h3270' = h3270
    BY DEF UserConnects
  <1> QED BY <1>2, <1>3, <1>4, CallInv

(* The only timer fires: none is left, and the flag is clear. *)
LEMMA TryReconnectInv ==
    ASSUME IInv, OneAtATime', TryReconnect
    PROVE  IInv'
  <1>1. /\ LoopRuns /\ Sound(h3270) /\ h3270 \in Session /\ h3270.timers > 0
    BY DEF TryReconnect, IInv, Sound
  <1>2. h3270.timers = 1 /\ Reconnect
    BY <1>1 DEF Sound
  <1> DEFINE n == h3270.timers - 1
             s == [h3270 EXCEPT !.timers = n, !.inprogress = FALSE]
  <1>3. h3270' = s
    BY DEF TryReconnect
  <1>a. n = 0
    BY <1>2
  <1> HIDE DEF n
  <1>4. /\ s.watch = h3270.watch /\ s.stray = h3270.stray /\ s.sock = h3270.sock
        /\ s.open = h3270.open /\ s.live = h3270.live /\ s.secure = h3270.secure
        /\ s.cstate = h3270.cstate /\ s.ssl = h3270.ssl /\ s.tls = h3270.tls
        /\ s.timers = 0 /\ s \in Session
    BY <1>1, <1>a DEF Session
  <1>b. s.inprogress = FALSE
    BY <1>1, Zenon DEF Session
  <1>5. /\ s \in Session
        /\ s.watch = h3270.watch /\ s.stray = h3270.stray /\ s.sock = h3270.sock
        /\ s.open = h3270.open /\ s.live = h3270.live /\ s.secure = h3270.secure
        /\ s.cstate = h3270.cstate /\ s.ssl = h3270.ssl /\ s.tls = h3270.tls
        /\ s.timers = 0 /\ s.inprogress = FALSE
    BY <1>4, <1>b
  <1> HIDE DEF s
  <1>6. Sound(s)
    BY <1>1, <1>5 DEF Sound
  <1>7. Held(h3270) => Held(s)
    BY <1>5 DEF Held, Closed, Connected
  <1>8. CASE attempts = <<>>
    <2>1. Held(s)
      BY <1>7, <1>8 DEF IInv
    <2>2. CASE Connected(h3270)
      BY <1>3, <1>6, <1>8, <2>1, <2>2 DEF TryReconnect, IInv
    <2>3. CASE ~Connected(h3270)
      <3>1. Call("timer", h3270.tls, FALSE)
        BY <2>3 DEF TryReconnect
      <3>2. h3270.tls \in BOOLEAN
        BY <1>1, Zenon DEF Session
      <3>3. ~Connected(s)
        BY <1>5, <2>3 DEF Connected
      <3> QED BY <1>2, <1>3, <1>5, <1>6, <1>8, <2>1, <3>1, <3>2, <3>3, CallInv
    <2> QED BY <2>2, <2>3
  <1>9. ASSUME NEW t \in Attempt, attempts = <<t>>, Frame(h3270, t)
        PROVE  IInv'
    <2>1. Connected(h3270)
      BY <1>9, OnStack, CallOnEmpty DEF TryReconnect
    <2>2. attempts' = <<t>> /\ t.stage \in {"pending", "waiting"} /\ t.by # "timer"
      BY <1>9, <2>1, ConnectedHeld DEF TryReconnect, Frame
    <2>3. Frame(s, t)
      BY <1>5, <1>7, <1>9, <2>2 DEF Frame
    <2> QED BY <1>3, <1>6, <2>2, <2>3, GoOnInv
  <1> QED BY <1>8, <1>9 DEF IInv

-----------------------------------------------------------------------------
(* Nothing is connected to begin with. *)
LEMMA InitInv == Init => IInv
  <1> SUFFICES ASSUME Init PROVE IInv
    OBVIOUS
  <1>1. /\ h3270.cstate = "NOT_CONNECTED" /\ h3270.sock = NoFd /\ h3270.open = {}
        /\ h3270.live = {} /\ h3270.watch = NoFd /\ h3270.stray = {} /\ ~h3270.secure
        /\ h3270.timers = 0 /\ ~h3270.inprogress /\ h3270 \in Session
    BY DEF Init, Session, CState
  <1>2. attempts = <<>>
    BY DEF Init
  <1> QED BY <1>1, <1>2 DEF IInv, Sound, Held, Closed, Connected

(* Every step preserves the invariant, unless it puts an attempt on another. *)
LEMMA NextInv ==
    ASSUME IInv, [Next]_vars, OneAtATime'
    PROVE  IInv'
  <1>1. CASE Begin            BY <1>1, BeginInv
  <1>2. CASE ResolveFails     BY <1>2, ResolveFailsInv
  <1>3. CASE OpenSocket       BY <1>3, OpenSocketInv
  <1>4. CASE WaitEnds         BY <1>4, WaitEndsInv
  <1>5. CASE ConnectFails     BY <1>5, ConnectFailsInv
  <1>6. CASE ConnectSucceeds  BY <1>6, ConnectSucceedsInv
  <1>7. CASE Thread           BY <1>7, ThreadInv
  <1>8. CASE UserConnects     BY <1>8, UserConnectsInv
  <1>9. CASE TryReconnect     BY <1>9, TryReconnectInv
  <1>10. CASE UserDisconnects
    BY <1>10, EndInv DEF UserDisconnects, UserFree
  <1>11. CASE NetRawoutFails
    BY <1>11, EndInv DEF NetRawoutFails, UserFree
  <1>12. CASE InputEnds
    BY <1>12, EndInv, ReadableConnected DEF InputEnds
  <1>13. CASE Negotiate       BY <1>13, NegotiateInv
  <1>14. CASE ContinueTls     BY <1>14, ContinueTlsInv
  <1>15. CASE UNCHANGED vars
    BY <1>15 DEF vars, IInv
  <1> QED BY <1>1, <1>2, <1>3, <1>4, <1>5, <1>6, <1>7, <1>8, <1>9, <1>10, <1>11,
             <1>12, <1>13, <1>14, <1>15 DEF Next, Progress, Event

(* What the invariant means for the state. *)
LEMMA InvMeans ==
    ASSUME IInv
    PROVE  TypeOK /\ OneSocket /\ WatchedWhileConnected /\ OneReconnectTimer /\ SecureMeansTls
  <1>1. Sound(h3270)
    BY DEF IInv
  <1>2. TypeOK
    <2>1. attempts \in Seq(Attempt)
      <3>1. CASE attempts = <<>>
        BY <3>1
      <3>2. ASSUME NEW t \in Attempt, attempts = <<t>>
            PROVE  attempts \in Seq(Attempt)
        <4> HIDE DEF Attempt
        <4> QED BY <3>2
      <3> QED BY <3>1, <3>2 DEF IInv
    <2>2. Len(attempts) <= MaxAttempts
      BY MaxAttemptsAssumption DEF IInv
    <2>3. h3270.timers \in 0 .. 1
      BY <1>1 DEF Sound
    <2> QED BY <1>1, <2>1, <2>2, <2>3 DEF Sound, TypeOK
  <1>3. OneReconnectTimer
    BY <1>1 DEF Sound, OneReconnectTimer
  <1>4. CASE Held(h3270)
    <2>1. WatchedWhileConnected
      BY <1>1, <1>4 DEF Sound, Held, Closed, WatchedWhileConnected
    <2>2. SecureMeansTls
      BY <1>1, <1>4 DEF Held, SecureMeansTls
    <2>3. OneSocket
      BY <1>4 DEF Held, Closed, OneSocket
    <2> QED BY <1>2, <1>3, <2>1, <2>2, <2>3
  <1>5. CASE ~Held(h3270)
    <2>1. PICK t \in Attempt : attempts = <<t>> /\ Frame(h3270, t)
      BY <1>5 DEF IInv
    <2>2. t.stage \in {"resolving", "connecting"}
      BY <1>5, <2>1 DEF Frame, Attempt
    <2>3. ~h3270.secure /\ h3270.watch = NoFd
      BY <2>1, <2>2 DEF Frame, Closed, Trying
    <2>4. WatchedWhileConnected /\ SecureMeansTls
      BY <1>1, <2>3 DEF Sound, WatchedWhileConnected, SecureMeansTls
    <2>5. OneSocket
      <3>1. CASE t.stage = "resolving"
        BY <2>1, <3>1 DEF Frame, Closed, OneSocket
      <3>2. CASE t.stage = "connecting"
        <4>1. h3270.open = {h3270.sock} \ {NoFd}
          BY <2>1, <3>2, FdAssumption DEF Frame, Trying
        <4>2. attempts[1].stage = "connecting" /\ 1 \in DOMAIN attempts
          BY <2>1, <3>2, OnStack
        <4> QED BY <4>1, <4>2 DEF OneSocket
      <3> QED BY <2>2, <3>1, <3>2
    <2> QED BY <1>2, <1>3, <2>4, <2>5
  <1> QED BY <1>4, <1>5

(* The attempts of a user and of the timer keep the session and its socket,   *)
(* its watch and its TLS layer in step, in every build, as long as there is   *)
(* one of them at a time.                                                     *)
THEOREM Invariance == Spec /\ []OneAtATime => []IInv
  <1>1. Init => IInv
    BY InitInv
  <1>2. IInv /\ [Next]_vars /\ OneAtATime' => IInv'
    BY NextInv
  <1> QED BY <1>1, <1>2, PTL DEF Spec

(* Every variable keeps its type, whatever host, user and network do.         *)
THEOREM TypeCorrect == Spec /\ []OneAtATime => []TypeOK
  <1>1. IInv => TypeOK
    BY InvMeans
  <1> QED BY <1>1, Invariance, PTL

(* No socket outlives its session or its attempt, as long as there is one     *)
(* attempt at a time.                                                         *)
THEOREM NoSocketLeaks == Spec /\ []OneAtATime => []OneSocket
  <1>1. IInv => OneSocket
    BY InvMeans
  <1> QED BY <1>1, Invariance, PTL

(* The main loop watches the socket of a connected session, and once, as long *)
(* as there is one attempt at a time.                                         *)
THEOREM WatchFollowsSession == Spec /\ []OneAtATime => []WatchedWhileConnected
  <1>1. IInv => WatchedWhileConnected
    BY InvMeans
  <1> QED BY <1>1, Invariance, PTL

(* auto_reconnect_inprogress is set exactly while its one timer runs, as long *)
(* as there is one attempt at a time.                                         *)
THEOREM ReconnectionHasTimer == Spec /\ []OneAtATime => []OneReconnectTimer
  <1>1. IInv => OneReconnectTimer
    BY InvMeans
  <1> QED BY <1>1, Invariance, PTL

(* A connection is shown as secure only above TLS, on its own socket, as long *)
(* as there is one attempt at a time.                                         *)
THEOREM SecureConnection == Spec /\ []OneAtATime => []SecureMeansTls
  <1>1. IInv => SecureMeansTls
    BY InvMeans
  <1> QED BY <1>1, Invariance, PTL

(* A timer's attempt exists only with RECONNECT, and then without a thread:   *)
(* the main loop does not run within it, so no call comes on top of another.  *)
LEMMA CallsAlone ==
    ASSUME NoNesting, IInv, [Next]_vars
    PROVE  OneAtATime'
  <1>1. Len(attempts) <= 1
    <2>1. ASSUME NEW t \in Attempt, attempts = <<t>> PROVE Len(attempts) = 1
      BY <2>1, OnStack
    <2>2. attempts = <<>> => Len(attempts) = 0
      OBVIOUS
    <2>3. attempts = <<>> \/ \E t \in Attempt : attempts = <<t>>
      BY DEF IInv
    <2>4. CASE attempts = <<>>
      BY <2>2, <2>4
    <2>5. CASE \E t \in Attempt : attempts = <<t>>
      <3>1. Len(attempts) = 1
        BY <2>1, <2>5
      <3> QED BY <3>1
    <2> QED BY <2>3, <2>4, <2>5
  <1>2. ASSUME NEW by, NEW tls, NEW wait, Call(by, tls, wait), attempts = <<>>
        PROVE  OneAtATime'
    BY <1>2 DEF Call, OneAtATime
  <1>3. CASE UserConnects
    <2>1. ASSUME NEW t \in Attempt, attempts = <<t>>, Frame(h3270, t)
          PROVE  FALSE
      <3>1. t.by = "timer"
        BY <2>1, OnStack, <1>3 DEF UserConnects, UserFree, Attempt
      <3>2. t.stage = "waiting"
        BY <2>1, <3>1, OnStack, <1>3 DEF UserConnects, UserFree, LoopRuns, AttemptIn, Frame, NoNesting
      <3> QED BY <2>1, <3>1, <3>2 DEF Frame
    <2>2. attempts = <<>>
      BY <2>1 DEF IInv
    <2> QED BY <1>2, <1>3, <2>2 DEF UserConnects
  <1>4. CASE TryReconnect
    <2>1. LoopRuns /\ ~Threaded
      BY <1>4 DEF TryReconnect, IInv, Sound, NoNesting
    <2>2. CASE attempts = <<>>
      BY <1>1, <1>2, <1>4, <2>2 DEF TryReconnect, OneAtATime
    <2>3. CASE attempts # <<>>
      <3>1. Connected(h3270)
        BY <2>1, <2>3 DEF LoopRuns
      <3> QED BY <1>1, <1>4, <3>1 DEF TryReconnect, OneAtATime
    <2> QED BY <2>2, <2>3
  <1>5. CASE Thread
    <2>1. PICK i \in DOMAIN attempts : BgConnectStarts(i) \/ BgConnectEnds(i)
      BY <1>5 DEF Thread
    <2>2. PICK t \in Attempt : attempts = <<t>> /\ i = 1
      BY <2>1 DEF IInv
    <2> QED BY <2>1, <2>2 DEF BgConnectStarts, BgConnectEnds, OneAtATime
  <1>6. ASSUME NEW stage, AttemptIn(stage), attempts' = Pop \/ \E x : attempts' = SetTop(x)
        PROVE  OneAtATime'
    <2>1. Pop = <<>> /\ \A x : SetTop(x) = <<x>>
      BY <1>6, TopFrame
    <2>2. attempts' = <<>> \/ \E x : attempts' = <<x>>
      BY <1>6, <2>1
    <2> QED BY <2>2 DEF OneAtATime
  <1>7. CASE Progress
    <2>1. CASE Begin \/ OpenSocket \/ ConnectSucceeds
      BY <1>6, <2>1 DEF Begin, OpenSocket, ConnectSucceeds, DoConnectFails, Return
    <2>2. CASE ResolveFails \/ ConnectFails \/ WaitEnds
      BY <1>6, <2>2 DEF ResolveFails, ConnectFails, WaitEnds, DoConnectFails, Return
    <2> QED BY <1>7, <2>1, <2>2 DEF Progress
  <1>8. CASE UserDisconnects \/ NetRawoutFails \/ InputEnds \/ Negotiate \/ ContinueTls \/ UNCHANGED vars
    BY <1>1, <1>8 DEF UserDisconnects, NetRawoutFails, InputEnds, Negotiate, ContinueTls, Become, vars, OneAtATime
  <1> QED BY <1>3, <1>4, <1>5, <1>7, <1>8 DEF Next, Event

(* In the library's own loop, and in the graphical program with RECONNECT     *)
(* off, there is one attempt at a time, and all of it holds whatever happens. *)
THEOREM InStep ==
    ASSUME NoNesting
    PROVE  Spec => [](TypeOK /\ OneSocket /\ WatchedWhileConnected /\ OneReconnectTimer /\ SecureMeansTls)
  <1>1. Init => IInv
    BY InitInv
  <1>2. IInv /\ [Next]_vars => IInv'
    BY CallsAlone, NextInv
  <1>3. IInv => TypeOK /\ OneSocket /\ WatchedWhileConnected /\ OneReconnectTimer /\ SecureMeansTls
    BY InvMeans
  <1> QED BY <1>1, <1>2, <1>3, PTL DEF Spec

-----------------------------------------------------------------------------
(* The reconnection, also where attempts nest. *)

Fields == {"cstate", "sock", "open", "live", "watch", "stray", "ssl", "secure", "tls", "inprogress", "timers"}

Clocked(h) ==
    /\ h = [f \in Fields |-> h[f]]
    /\ h.timers \in Nat
    /\ h.inprogress => h.timers > 0

(* What leaves the flag and the timers alone.                                 *)
LEMMA OtherFields ==
    ASSUME NEW h, Clocked(h)
    PROVE  /\ Clocked(HostConnected(h)) /\ Clocked(HostDisconnected(h))
           /\ Clocked(XAddInput(h)) /\ Clocked(XRemoveInput(h))
           /\ Clocked(SockClose(h)) /\ Clocked(NetDisconnect(h))
           /\ \A x : Clocked([h EXCEPT !.tls = x]) /\ Clocked([h EXCEPT !.live = x])
                    /\ Clocked([h EXCEPT !.sock = x]) /\ Clocked([h EXCEPT !.cstate = x])
           /\ \A x, y, z : Clocked([h EXCEPT !.sock = x, !.open = y, !.ssl = z])
           /\ Clocked([h EXCEPT !.ssl = "up", !.secure = TRUE])
  <1>1. Clocked(HostConnected(h)) /\ Clocked(HostDisconnected(h))
    BY DEF Clocked, Fields, HostConnected, HostDisconnected
  <1>2. Clocked(XAddInput(h)) /\ Clocked(XRemoveInput(h))
    BY DEF Clocked, Fields, XAddInput, XRemoveInput
  <1>3. Clocked(SockClose(h))
    BY DEF Clocked, Fields, SockClose
  <1>4. Clocked(NetDisconnect(h))
    <2> DEFINE n == [h EXCEPT !.ssl = "none", !.secure = FALSE]
    <2>1. Clocked(n)
      BY DEF Clocked, Fields
    <2> HIDE DEF n
    <2>2. Clocked(SockClose(n))
      BY <2>1 DEF Clocked, Fields, SockClose
    <2> QED BY <2>2 DEF NetDisconnect, n
  <1>5. /\ \A x : Clocked([h EXCEPT !.tls = x]) /\ Clocked([h EXCEPT !.live = x])
                 /\ Clocked([h EXCEPT !.sock = x]) /\ Clocked([h EXCEPT !.cstate = x])
        /\ \A x, y, z : Clocked([h EXCEPT !.sock = x, !.open = y, !.ssl = z])
    <2>1. \A x : Clocked([h EXCEPT !.tls = x])
      BY DEF Clocked, Fields
    <2>2. \A x : Clocked([h EXCEPT !.live = x])
      BY DEF Clocked, Fields
    <2>3. \A x : Clocked([h EXCEPT !.sock = x])
      BY DEF Clocked, Fields
    <2>4. \A x : Clocked([h EXCEPT !.cstate = x])
      BY DEF Clocked, Fields
    <2>5. \A x, y, z : Clocked([h EXCEPT !.sock = x, !.open = y, !.ssl = z])
      <3> SUFFICES ASSUME NEW x, NEW y, NEW z
                   PROVE  Clocked([h EXCEPT !.sock = x, !.open = y, !.ssl = z])
        OBVIOUS
      <3> QED BY DEF Clocked, Fields
    <2> QED BY <2>1, <2>2, <2>3, <2>4, <2>5
  <1>6. Clocked([h EXCEPT !.ssl = "up", !.secure = TRUE])
    BY DEF Clocked, Fields
  <1> QED BY <1>1, <1>2, <1>3, <1>4, <1>5, <1>6

(* A disconnection that sets the flag starts the timer.                       *)
LEMMA FlagSet ==
    ASSUME NEW h, Clocked(h)
    PROVE  Clocked(HostDisconnect(h))
  <1> DEFINE n == NetDisconnect(XRemoveInput(h))
             s == ScheduleReconnect(n)
  <1>1. Clocked(n)
    <2> DEFINE x == XRemoveInput(h)
    <2>1. Clocked(x)
      BY OtherFields
    <2> HIDE DEF x
    <2>2. Clocked(NetDisconnect(x))
      BY <2>1, OtherFields
    <2> QED BY <2>2 DEF x
  <1> HIDE DEF n
  <1>2. Clocked(s)
    <2>1. CASE Reconnect /\ ~n.inprogress
      <3> DEFINE k == n.timers + 1
      <3>1. k \in Nat /\ k > 0 /\ s = [n EXCEPT !.inprogress = TRUE, !.timers = k]
        BY <1>1, <2>1 DEF ScheduleReconnect, Clocked
      <3> HIDE DEF k, s
      <3> QED BY <1>1, <3>1 DEF Clocked, Fields
    <2>2. CASE ~(Reconnect /\ ~n.inprogress)
      BY <1>1, <2>2 DEF ScheduleReconnect
    <2> QED BY <2>1, <2>2
  <1> HIDE DEF s
  <1>3. Clocked(HostDisconnected(s))
    BY <1>2, OtherFields
  <1> QED BY <1>3 DEF HostDisconnect, s, n

(* The return of a failed attempt clears it.                                  *)
LEMMA FlagReturned ==
    ASSUME NEW h, Clocked(h), NEW ok, Return(h, ok)
    PROVE  Clocked(h3270')
  <1>1. Clocked([h EXCEPT !.inprogress = FALSE])
    BY DEF Clocked, Fields
  <1> QED BY <1>1 DEF Return

(* The end of a connection attempt.                                           *)
LEMMA FlagConnected ==
    ASSUME Clocked(h3270), ConnectSucceeds
    PROVE  Clocked(h3270')
  <1>1. PICK p \in BOOLEAN, o \in BOOLEAN :
          LET h == NetConnected(h3270, p, o)
          IN  IF h.sock = NoFd
              THEN DoConnectFails(h)
              ELSE IF Top.wait
              THEN /\ h3270' = HostConnected(XAddInput(h))
                   /\ attempts' = SetTop([Top EXCEPT !.stage = "waiting"])
              ELSE Return(HostConnected(XAddInput(h)), TRUE)
    BY DEF ConnectSucceeds
  <1> DEFINE u == [h3270 EXCEPT !.ssl = "up", !.secure = TRUE]
             k == NetConnected(h3270, p, o)
             w == XAddInput(k)
             s == HostConnected(w)
             d == HostDisconnected(k)
  <1>2. Clocked(u) /\ Clocked(HostDisconnect(h3270))
    BY OtherFields, FlagSet
  <1>3. k \in {h3270, HostConnected(u), HostDisconnect(h3270)}
    BY DEF NetConnected
  <1>4. k.sock = NoFd \/ h3270' = s \/ Return(s, TRUE)
    BY <1>1
  <1>5. k.sock = NoFd => Return(d, FALSE)
    BY <1>1 DEF DoConnectFails
  <1> HIDE DEF u, k
  <1>6. Clocked(k)
    BY <1>2, <1>3, OtherFields
  <1>7. Clocked(w) /\ Clocked(d)
    BY <1>6, OtherFields
  <1> HIDE DEF w, d
  <1>8. Clocked(s)
    BY <1>7, OtherFields
  <1> HIDE DEF s
  <1> QED BY <1>4, <1>5, <1>7, <1>8, FlagReturned

(* Also where attempts nest, the flag that turns every attempt away is not    *)
(* left set without a timer that clears it (host_disconnect, try_reconnect).  *)
THEOREM FlagHasTimer == Spec => [](h3270.inprogress => h3270.timers > 0)
  <1>1. Init => Clocked(h3270)
    <2> SUFFICES ASSUME Init PROVE Clocked(h3270)
      OBVIOUS
    <2>1. DOMAIN h3270 = Fields /\ h3270 = [f \in DOMAIN h3270 |-> h3270[f]]
      BY DEF Init, Fields
    <2>2. h3270.timers = 0 /\ h3270.inprogress = FALSE
      BY DEF Init
    <2> QED BY <2>1, <2>2 DEF Clocked
  <1>2. Clocked(h3270) /\ [Next]_vars => Clocked(h3270)'
    <2> SUFFICES ASSUME Clocked(h3270), [Next]_vars PROVE Clocked(h3270')
      OBVIOUS
    <2>1. CASE Begin \/ WaitEnds
      <3> DEFINE t == Top.tls
                 ok == InSession(h3270)
      <3>1. Return(h3270, FALSE) \/ Return(h3270, ok) \/ h3270' = [h3270 EXCEPT !.tls = t]
        BY <2>1 DEF Begin, WaitEnds
      <3> HIDE DEF t, ok
      <3>2. Clocked([h3270 EXCEPT !.tls = t])
        BY OtherFields
      <3>3. CASE Return(h3270, FALSE)
        BY <3>3, FlagReturned
      <3>4. CASE Return(h3270, ok)
        BY <3>4, FlagReturned
      <3> QED BY <3>1, <3>2, <3>3, <3>4
    <2>2. CASE ResolveFails
      <3> DEFINE d == HostDisconnected(h3270)
      <3>1. Clocked(d) /\ Return(d, FALSE)
        BY <2>2, OtherFields DEF ResolveFails, DoConnectFails
      <3> HIDE DEF d
      <3> QED BY <3>1, FlagReturned
    <2>3. CASE OpenSocket
      <3> DEFINE u == [h3270 EXCEPT !.sock = NoFd]
                 d == HostDisconnected(u)
      <3>1. Clocked(u)
        BY OtherFields
      <3>2. Return(d, FALSE) \/ \E x, y, z : h3270' = [h3270 EXCEPT !.sock = x, !.open = y, !.ssl = z]
        BY <2>3, Zenon DEF OpenSocket, DoConnectFails
      <3> HIDE DEF u
      <3>3. Clocked(d)
        BY <3>1, OtherFields
      <3> HIDE DEF d
      <3>4. \A x, y, z : Clocked([h3270 EXCEPT !.sock = x, !.open = y, !.ssl = z])
        BY OtherFields
      <3>5. CASE Return(d, FALSE)
        BY <3>3, <3>5, FlagReturned
      <3>6. CASE \E x, y, z : h3270' = [h3270 EXCEPT !.sock = x, !.open = y, !.ssl = z]
        <4>1. PICK x, y, z : h3270' = [h3270 EXCEPT !.sock = x, !.open = y, !.ssl = z]
          BY <3>6
        <4>2. Clocked([h3270 EXCEPT !.sock = x, !.open = y, !.ssl = z])
          BY <3>4
        <4> QED BY <4>1, <4>2
      <3> QED BY <3>2, <3>5, <3>6
    <2>4. CASE ConnectFails
      <3> DEFINE u == SockClose(h3270)
                 d == HostDisconnected(u)
      <3>1. Clocked(u) /\ Return(d, FALSE)
        BY <2>4, OtherFields DEF ConnectFails, DoConnectFails
      <3> HIDE DEF u
      <3>2. Clocked(d)
        BY <3>1, OtherFields
      <3> HIDE DEF d
      <3> QED BY <3>1, <3>2, FlagReturned
    <2>5. CASE ConnectSucceeds
      BY <2>5, FlagConnected
    <2>6. CASE Thread
      <3>1. UNCHANGED h3270 \/ \E x : h3270' = [h3270 EXCEPT !.live = x]
        BY <2>6, Zenon DEF Thread, BgConnectStarts, BgConnectEnds
      <3>2. \A x : Clocked([h3270 EXCEPT !.live = x])
        BY OtherFields
      <3> QED BY <3>1, <3>2
    <2>7. CASE UserConnects \/ UNCHANGED vars
      BY <2>7 DEF UserConnects, vars
    <2>8. CASE TryReconnect
      <3> DEFINE k == h3270.timers - 1
      <3>1. k \in Nat /\ h3270' = [h3270 EXCEPT !.timers = k, !.inprogress = FALSE]
        BY <2>8 DEF TryReconnect, Clocked
      <3> HIDE DEF k
      <3> QED BY <3>1 DEF Clocked, Fields
    <2>9. CASE UserDisconnects \/ NetRawoutFails \/ InputEnds
      BY <2>9, FlagSet DEF UserDisconnects, NetRawoutFails, InputEnds, Become
    <2>10. CASE Negotiate
      <3>1. PICK sent \in BOOLEAN, state \in {"CONNECTED_INITIAL_E", "IN_SESSION"} :
              LET h == IF sent THEN h3270 ELSE HostDisconnect(h3270)
              IN  Become([h EXCEPT !.cstate = state])
        BY <2>10 DEF Negotiate
      <3> DEFINE h == IF sent THEN h3270 ELSE HostDisconnect(h3270)
      <3>2. Clocked(h) /\ h3270' = [h EXCEPT !.cstate = state]
        BY <3>1, FlagSet DEF Become
      <3> HIDE DEF h
      <3> QED BY <3>2, OtherFields
    <2>11. CASE ContinueTls
      <3> DEFINE u == [h3270 EXCEPT !.ssl = "up", !.secure = TRUE]
      <3>1. Clocked(u)
        BY OtherFields
      <3>2. h3270' = HostConnected(u) \/ h3270' = NetDisconnect(h3270)
        BY <2>11 DEF ContinueTls, Become
      <3> HIDE DEF u
      <3> QED BY <3>1, <3>2, OtherFields
    <2> QED BY <2>1, <2>2, <2>3, <2>4, <2>5, <2>6, <2>7, <2>8, <2>9, <2>10, <2>11
            DEF Next, Progress, Event
  <1>3. Clocked(h3270) => (h3270.inprogress => h3270.timers > 0)
    BY DEF Clocked
  <1> QED BY <1>1, <1>2, <1>3, PTL DEF Spec

-----------------------------------------------------------------------------
(* The printer session. *)

Unit == {<<how, lu>> : how \in {"assoc", "lu"}, lu \in LUs}

(* The text of a pipe, read or not, of at most n characters.                  *)
Said(text, n) ==
    \A p \in Printing!Pipes : text[p] \in Seq(Printing!Chars) /\ Len(text[p]) <= n

Process ==
    [pid : {Printing!CN} \cup Unit, watch : SUBSET Printing!Pipes,
     timeout : SUBSET Printing!Pipes, buf : [Printing!Pipes -> Seq(Printing!Chars)],
     need_cs : BOOLEAN, charset_file : BOOLEAN, status : BOOLEAN]

Child == [alive : BOOLEAN, pipe : [Printing!Pipes -> Seq(Printing!Chars)]]

(* What has been read waits for its timeout, and leaves room for more.        *)
Gathered(p) ==
    /\ p \in Process
    /\ Said(p.buf, PRINTER_BUF - 2)
    /\ \A pipe \in Printing!Pipes : p.buf[pipe] # <<>> => pipe \in p.timeout
    /\ p.pid = Printing!CN =>
         p.watch = {} /\ p.timeout = {} /\ \A pipe \in Printing!Pipes : p.buf[pipe] = <<>>

(* A process that is associated with the terminal's unit was asked for by the *)
(* name that stands for it.                                                   *)
Associated(p) == p.pid # Printing!CN /\ p.pid[1] = "assoc" => printer_lu = Printing!Dot

Follows3270(p, m) ==
    p.pid # Printing!CN => Printing!In3270(m) /\ (p.pid[1] = "assoc" => Printing!InE(m))

PrinterInv ==
    /\ printer_lu \in {Printing!CN, Printing!Dot} \cup {<<lu>> : lu \in LUs}
    /\ mode \in Printing!Modes
    /\ connected_lu \in {Printing!CN} \cup {<<lu>> : lu \in LUs}
    /\ Gathered(printer) /\ Associated(printer) /\ Follows3270(printer, mode)
    /\ child \in Child /\ Said(child.pipe, PRINTER_BUF)

-----------------------------------------------------------------------------
(* A bounded sequence is a sequence with a bound on its length.               *)
LEMMA BoundedIs ==
    ASSUME NEW S, NEW n \in Nat, NEW s
    PROVE  s \in Printing!BoundedSeq(S, n) <=> s \in Seq(S) /\ Len(s) <= n
  <1>1. ASSUME s \in Printing!BoundedSeq(S, n) PROVE s \in Seq(S) /\ Len(s) <= n
    <2>1. PICK m \in 0 .. n : s \in [1 .. m -> S]
      BY <1>1 DEF Printing!BoundedSeq, Printing!SeqOf
    <2>2. s \in Seq(S) /\ Len(s) = m
      BY <2>1
    <2> QED BY <2>1, <2>2
  <1>2. ASSUME s \in Seq(S), Len(s) <= n PROVE s \in Printing!BoundedSeq(S, n)
    <2>1. Len(s) \in 0 .. n /\ s \in [1 .. Len(s) -> S]
      BY <1>2
    <2> QED BY <2>1 DEF Printing!BoundedSeq, Printing!SeqOf
  <1> QED BY <1>1, <1>2

(* A cut keeps a text's characters and its bound.                             *)
LEMMA CutShort ==
    ASSUME NEW S, NEW s \in Seq(S), NEW n \in Nat
    PROVE  /\ Printing!Upto(s, n) \in Seq(S) /\ Len(Printing!Upto(s, n)) <= n
           /\ Len(Printing!Upto(s, n)) <= Len(s)
  <1>1. CASE Len(s) <= n
    BY <1>1 DEF Printing!Upto
  <1>2. CASE ~(Len(s) <= n)
    <2>1. SubSeq(s, 1, n) \in Seq(S) /\ Len(SubSeq(s, 1, n)) = n
      BY <1>2
    <2> QED BY <1>2, <2>1 DEF Printing!Upto
  <1> QED BY <1>1, <1>2

(* Stopping leaves nothing of the process.                                    *)
LEMMA StopLeavesNothing ==
    ASSUME NEW p \in Process, BufferAssumption
    PROVE  LET q == Printing!printer_stop(p)
           IN  /\ Gathered(q) /\ q.pid = Printing!CN
  <1> DEFINE q == Printing!printer_stop(p)
             empty == [pipe \in Printing!Pipes |-> <<>>]
  <1>1. empty \in [Printing!Pipes -> Seq(Printing!Chars)]
    OBVIOUS
  <1>2. /\ q \in Process /\ q.pid = Printing!CN /\ q.watch = {} /\ q.timeout = {} /\ q.buf = empty
    <2> HIDE DEF empty
    <2>1. (p.charset_file /\ ~p.need_cs) \in BOOLEAN
      BY DEF Process
    <2>2. q = [p EXCEPT !.watch = {}, !.timeout = {}, !.buf = empty, !.pid = Printing!CN,
                        !.charset_file = p.charset_file /\ ~p.need_cs, !.status = FALSE]
      BY DEF Printing!printer_stop, empty
    <2> DEFINE c == p.charset_file /\ ~p.need_cs
    <2>3. c \in BOOLEAN BY <2>1
    <2>4. q = [p EXCEPT !.watch = {}, !.timeout = {}, !.buf = empty, !.pid = Printing!CN,
                        !.charset_file = c, !.status = FALSE]
      BY <2>2
    <2> HIDE DEF c, q
    <2> QED BY <1>1, <2>3, <2>4 DEF Process
  <1>3. Len(<<>>) = 0 /\ \A pipe \in Printing!Pipes : q.buf[pipe] = <<>>
    BY <1>2
  <1> HIDE DEF q
  <1>4. Gathered(q)
    BY <1>2, <1>3, Len(<<>>) = 0 DEF Gathered, Said, BufferAssumption
  <1> QED BY <1>2, <1>4 DEF q

(* What a start makes of a printer that is not running.                       *)
LEMMA StartSound ==
    ASSUME BufferAssumption, NEW p, Gathered(p), p.pid = Printing!CN,
           printer_lu \in {Printing!Dot} \cup {<<lu>> : lu \in LUs},
           connected_lu' \in {Printing!CN} \cup {<<lu>> : lu \in LUs},
           Printing!In3270(mode'), printer_lu = Printing!Dot => mode' = "TN3270E",
           NEW cs \in BOOLEAN, NEW outcome \in Printing!Outcomes
    PROVE  LET lu == IF printer_lu = Printing!Dot THEN Printing!CN ELSE printer_lu
               r  == Printing!printer_start(p, lu, cs, outcome)
           IN  Gathered(r) /\ Associated(r) /\ Follows3270(r, mode')
  <1> DEFINE lu == IF printer_lu = Printing!Dot THEN Printing!CN ELSE printer_lu
             r  == Printing!printer_start(p, lu, cs, outcome)
             unit == IF lu = Printing!CN THEN <<"assoc", connected_lu'[1]>> ELSE <<"lu", lu[1]>>
             c == p.charset_file \/ (cs /\ outcome # "file")
             q == [p EXCEPT !.need_cs = cs, !.charset_file = c]
  <1>1. c \in BOOLEAN
    BY DEF Gathered, Process
  <1>2. /\ q \in Process /\ q.pid = Printing!CN /\ q.buf = p.buf /\ q.watch = p.watch
        /\ q.timeout = p.timeout
    <2> HIDE DEF c
    <2> QED BY <1>1 DEF Gathered, Process
  <1>3. Gathered(q)
    <2> HIDE DEF q
    <2> QED BY <1>2 DEF Gathered
  <1>4. \/ r = p \/ r = q \/ r = [q EXCEPT !.status = TRUE]
        \/ /\ r = [q EXCEPT !.pid = unit, !.watch = Printing!Pipes, !.status = TRUE]
           /\ lu = Printing!CN => connected_lu' # Printing!CN
    BY DEF Printing!printer_start
  <1>5. CASE r = p
    BY <1>5 DEF Associated, Follows3270
  <1>6. CASE r = q
    <2> HIDE DEF q
    <2> QED BY <1>2, <1>3, <1>6 DEF Associated, Follows3270
  <1>7. CASE r = [q EXCEPT !.status = TRUE]
    <2> HIDE DEF q, r
    <2>1. /\ r \in Process /\ r.pid = Printing!CN /\ r.buf = q.buf /\ r.watch = q.watch
          /\ r.timeout = q.timeout
      BY <1>2, <1>7 DEF Process
    <2>2. Gathered(r)
      BY <1>2, <1>3, <2>1 DEF Gathered
    <2> QED BY <2>1, <2>2 DEF Associated, Follows3270, r
  <1>8. CASE /\ r = [q EXCEPT !.pid = unit, !.watch = Printing!Pipes, !.status = TRUE]
             /\ lu = Printing!CN => connected_lu' # Printing!CN
    <2>1. /\ unit \in Unit /\ unit # Printing!CN
          /\ unit[1] = "assoc" => printer_lu = Printing!Dot
      BY <1>8 DEF Printing!CN, Printing!Dot, Unit
    <2> HIDE DEF q, r, unit
    <2>2. /\ r \in Process /\ r.pid = unit /\ r.buf = q.buf /\ r.timeout = q.timeout
      BY <1>2, <1>8, <2>1 DEF Process
    <2>3. Gathered(r)
      BY <1>3, <2>1, <2>2 DEF Gathered
    <2>4. Printing!InE("TN3270E")
      BY DEF Printing!InE
    <2> QED BY <2>1, <2>2, <2>3, <2>4 DEF Associated, Follows3270, r
  <1> QED BY <1>4, <1>5, <1>6, <1>7, <1>8

(* The printer follows the mode.                                              *)
LEMMA ConnectSound ==
    ASSUME BufferAssumption, PrinterInv,
           connected_lu' \in {Printing!CN} \cup {<<lu>> : lu \in LUs},
           NEW cs \in BOOLEAN, NEW outcome \in Printing!Outcomes
    PROVE  LET r == Printing!printer_host_connect(printer, cs, outcome)
           IN  Gathered(r) /\ Associated(r) /\ Follows3270(r, mode')
  <1> DEFINE r == Printing!printer_host_connect(printer, cs, outcome)
             lu == IF printer_lu = Printing!Dot THEN Printing!CN ELSE printer_lu
             q == Printing!printer_start(printer, lu, cs, outcome)
  <1> USE DEF Printing!printer_running
  <1>1. CASE Printing!In3270(mode') /\ Printing!Wanted(printer)
    <2>1. r = q
      BY <1>1 DEF Printing!printer_host_connect, Printing!Wanted
    <2>2. /\ Gathered(printer) /\ printer.pid = Printing!CN
          /\ printer_lu \in {Printing!Dot} \cup {<<x>> : x \in LUs}
          /\ printer_lu = Printing!Dot => mode' = "TN3270E"
      BY <1>1 DEF PrinterInv, Printing!Wanted
    <2> QED BY <1>1, <2>1, <2>2, StartSound
  <1>2. CASE r = Printing!printer_stop(printer)
    <2>1. Gathered(r) /\ r.pid = Printing!CN
      BY <1>2, StopLeavesNothing DEF PrinterInv, Gathered
    <2> QED BY <2>1 DEF Associated, Follows3270
  <1>3. CASE /\ r = printer
             /\ printer.pid # Printing!CN => Printing!In3270(mode')
             /\ ~(~Printing!InE(mode') /\ printer_lu = Printing!Dot /\ printer.pid # Printing!CN)
    BY <1>3 DEF PrinterInv, Associated, Follows3270
  <1>4. \/ Printing!In3270(mode') /\ Printing!Wanted(printer)
        \/ r = Printing!printer_stop(printer)
        \/ /\ r = printer
           /\ printer.pid # Printing!CN => Printing!In3270(mode')
           /\ ~(~Printing!InE(mode') /\ printer_lu = Printing!Dot /\ printer.pid # Printing!CN)
    BY DEF Printing!printer_host_connect, Printing!Wanted
  <1> QED BY <1>1, <1>2, <1>3, <1>4

-----------------------------------------------------------------------------
Holding(p, late, pipe, text) == [p EXCEPT !.timeout = late, !.buf[pipe] = text]

(* The text of one pipe changes, and whether it waits.                        *)
LEMMA TextSet ==
    ASSUME NEW p, Gathered(p), p.pid # Printing!CN, NEW pipe \in Printing!Pipes,
           NEW new \in Seq(Printing!Chars), Len(new) <= PRINTER_BUF - 2,
           NEW late \in SUBSET Printing!Pipes, p.timeout \ {pipe} \subseteq late,
           new # <<>> => pipe \in late,
           NEW q, q = Holding(p, late, pipe, new)
    PROVE  Gathered(q) /\ q.pid = p.pid
  <1> DEFINE buf == [p.buf EXCEPT ![pipe] = new]
  <1>1. p \in Process /\ p.buf \in [Printing!Pipes -> Seq(Printing!Chars)]
    BY DEF Gathered, Process
  <1>2. /\ buf \in [Printing!Pipes -> Seq(Printing!Chars)]
        /\ \A x \in Printing!Pipes : buf[x] = IF x = pipe THEN new ELSE p.buf[x]
    <2> DEFINE old == p.buf
    <2>1. old \in [Printing!Pipes -> Seq(Printing!Chars)]
      BY <1>1
    <2> HIDE DEF old
    <2> QED BY <2>1 DEF old
  <1>3. q = [p EXCEPT !.timeout = late, !.buf = buf]
    BY <1>1 DEF Process, Holding
  <1> HIDE DEF buf
  <1>4. q \in Process /\ q.pid = p.pid /\ q.timeout = late /\ q.buf = buf
    BY <1>1, <1>2, <1>3 DEF Process
  <1>5. \A x \in Printing!Pipes : /\ q.buf[x] \in Seq(Printing!Chars)
                                  /\ Len(q.buf[x]) <= PRINTER_BUF - 2
                                  /\ q.buf[x] # <<>> => x \in q.timeout
    <2> TAKE x \in Printing!Pipes
    <2>1. CASE x = pipe
      BY <1>2, <1>4, <2>1
    <2>2. CASE x # pipe
      BY <1>2, <1>4, <2>2 DEF Gathered, Said
    <2> QED BY <2>1, <2>2
  <1>6. Said(q.buf, PRINTER_BUF - 2)
    BY <1>5 DEF Said
  <1>7. q.pid # Printing!CN
    BY <1>4
  <1> QED BY <1>4, <1>5, <1>6, <1>7 DEF Gathered

(* Reading a pipe.                                                            *)
LEMMA DataKeeps ==
    ASSUME BufferAssumption, PrinterInv, NEW pipe \in Printing!Pipes, Printing!printer_data(pipe)
    PROVE  PrinterInv'
  <1> DEFINE b == printer.buf[pipe]
             space == PRINTER_BUF - Len(b) - 1
             said == child.pipe[pipe]
             data == Printing!Upto(said, space)
             buf == b \o data
             rest == SubSeq(said, Len(data) + 1, Len(said))
  <1>1. /\ printer \in Process /\ b \in Seq(Printing!Chars) /\ Len(b) <= PRINTER_BUF - 2
        /\ said \in Seq(Printing!Chars) /\ Len(said) <= PRINTER_BUF
    BY DEF PrinterInv, Gathered, Process, Said
  <1>2. Len(b) \in Nat /\ Len(said) \in Nat /\ space \in Nat
    BY <1>1 DEF BufferAssumption
  <1>3. data \in Seq(Printing!Chars) /\ Len(data) <= space /\ Len(data) <= Len(said)
    <2> HIDE DEF space, said
    <2> QED BY <1>1, <1>2, CutShort
  <1>4. /\ buf \in Seq(Printing!Chars) /\ Len(buf) <= PRINTER_BUF - 1
        /\ data # <<>> => buf # <<>>
        /\ rest \in Seq(Printing!Chars) /\ Len(rest) <= Len(said)
    <2>1. Len(data) \in Nat
      BY <1>3
    <2>2. Len(buf) = Len(b) + Len(data) /\ buf \in Seq(Printing!Chars)
      <3> HIDE DEF b, data
      <3> QED BY <1>1, <1>3
    <2>3. data # <<>> => Len(data) > 0
      <3> HIDE DEF data
      <3> QED BY <1>3
    <2>4. rest \in Seq(Printing!Chars) /\ Len(rest) <= Len(said)
      <3> HIDE DEF said, data
      <3> QED BY <1>1, <1>2, <2>1
    <2> HIDE DEF b, data, buf, said, rest
    <2> QED BY <1>2, <1>3, <2>1, <2>2, <2>3, <2>4 DEF BufferAssumption, space
  <1>5. UNCHANGED <<printer_lu, mode, connected_lu, starts>>
    BY DEF Printing!printer_data
  <1> HIDE DEF b, space, data, buf, rest, said
  <1>6. CASE /\ printer' = Printing!printer_stop(printer) /\ child' = Printing!Quiet
    <2>1. Gathered(printer') /\ printer'.pid = Printing!CN
      BY <1>1, <1>6, StopLeavesNothing
    <2>2. child' \in Child /\ Said(child'.pipe, PRINTER_BUF)
      BY <1>6 DEF Printing!Quiet, Child, Said, BufferAssumption
    <2> QED BY <1>5, <2>1, <2>2 DEF PrinterInv, Associated, Follows3270
  <1>7. CASE /\ data # <<>>
             /\ child' = [child EXCEPT !.pipe[pipe] = rest]
             /\ printer' = IF Printing!Full(buf) THEN [printer EXCEPT !.buf[pipe] = <<>>]
                           ELSE [printer EXCEPT !.buf[pipe] = buf, !.timeout = @ \cup {pipe}]
    <2>1. child' \in Child /\ Said(child'.pipe, PRINTER_BUF)
      <3>1. /\ child \in Child
            /\ \A x \in Printing!Pipes : /\ child.pipe[x] \in Seq(Printing!Chars)
                                         /\ Len(child.pipe[x]) <= PRINTER_BUF
        BY DEF PrinterInv, Said
      <3>2. rest \in Seq(Printing!Chars) /\ Len(rest) <= PRINTER_BUF
        BY <1>1, <1>2, <1>4 DEF BufferAssumption
      <3>3. child' \in Child
        BY <1>7, <3>1, <3>2 DEF Child
      <3>4. \A x \in Printing!Pipes : child'.pipe[x] = IF x = pipe THEN rest ELSE child.pipe[x]
        BY <1>7, <3>1 DEF Child
      <3> QED BY <3>1, <3>2, <3>3, <3>4 DEF Said
    <2>2. PICK new, late : /\ new \in Seq(Printing!Chars) /\ Len(new) <= PRINTER_BUF - 2
                           /\ late \in SUBSET Printing!Pipes /\ printer.timeout \subseteq late
                           /\ new # <<>> => pipe \in late
                           /\ printer' = Holding(printer, late, pipe, new)
      <3>1. CASE Printing!Full(buf)
        <4>1. printer' = Holding(printer, printer.timeout, pipe, <<>>)
          BY <1>1, <1>7, <3>1 DEF Process, Holding
        <4>2. <<>> \in Seq(Printing!Chars) /\ Len(<<>>) <= PRINTER_BUF - 2
          BY DEF BufferAssumption
        <4> QED BY <1>1, <4>1, <4>2 DEF Process
      <3>2. CASE ~Printing!Full(buf)
        <4>1. Len(buf) <= PRINTER_BUF - 2
          BY <1>4, <3>2 DEF Printing!Full, BufferAssumption
        <4>2. printer' = Holding(printer, printer.timeout \cup {pipe}, pipe, buf)
          BY <1>1, <1>7, <3>2 DEF Process, Holding
        <4>4. printer.timeout \cup {pipe} \in SUBSET Printing!Pipes
          BY <1>1 DEF Process
        <4> QED BY <1>4, <4>1, <4>2, <4>4
      <3> QED BY <3>1, <3>2
    <2>3. printer.pid # Printing!CN
      <3>1. pipe \in printer.watch
        BY DEF Printing!printer_data
      <3> QED BY <3>1 DEF PrinterInv, Gathered
    <2>4. Gathered(printer') /\ printer'.pid = printer.pid
      BY <2>2, <2>3, TextSet DEF PrinterInv
    <2>6. Associated(printer)' /\ Follows3270(printer, mode)'
      BY <1>5, <2>4 DEF PrinterInv, Associated, Follows3270
    <2> QED BY <1>5, <2>1, <2>4, <2>6 DEF PrinterInv
  <1> QED BY <1>6, <1>7 DEF Printing!printer_data, b, space, data, buf, rest, said

(* A timeout shows what has been read.                                        *)
LEMMA TimeoutKeeps ==
    ASSUME BufferAssumption, PrinterInv, NEW pipe \in Printing!Pipes, Printing!printer_timeout(pipe)
    PROVE  PrinterInv'
  <1>1. /\ UNCHANGED <<printer_lu, mode, connected_lu, child, starts>>
        /\ pipe \in printer.timeout
        /\ printer' = Holding(printer, printer.timeout \ {pipe}, pipe, <<>>)
    BY DEF Printing!printer_timeout, Holding
  <1>2. printer.pid # Printing!CN
    BY <1>1 DEF PrinterInv, Gathered
  <1>3. /\ printer.timeout \ {pipe} \in SUBSET Printing!Pipes
        /\ <<>> \in Seq(Printing!Chars) /\ Len(<<>>) <= PRINTER_BUF - 2
    BY DEF PrinterInv, Gathered, Process, BufferAssumption
  <1>4. Gathered(printer') /\ printer'.pid = printer.pid
    <2> DEFINE late == printer.timeout \ {pipe}
               none == <<>>
    <2>1. /\ late \in SUBSET Printing!Pipes /\ printer.timeout \ {pipe} \subseteq late
          /\ none \in Seq(Printing!Chars) /\ Len(none) <= PRINTER_BUF - 2
          /\ none # <<>> => pipe \in late
          /\ printer' = Holding(printer, late, pipe, none)
      BY <1>1, <1>3
    <2>2. Gathered(printer)
      BY DEF PrinterInv
    <2> HIDE DEF late, none
    <2> QED BY <1>2, <2>1, <2>2, TextSet
  <1>5. Associated(printer)' /\ Follows3270(printer, mode)'
    BY <1>1, <1>4 DEF PrinterInv, Associated, Follows3270
  <1> QED BY <1>1, <1>4, <1>5 DEF PrinterInv

(* The mode changes, or the session ends.                                     *)
LEMMA FollowsKeeps ==
    ASSUME BufferAssumption, PrinterInv, Printing!Follows, mode' \in Printing!Modes,
           connected_lu' \in {Printing!CN} \cup {<<lu>> : lu \in LUs}
    PROVE  PrinterInv'
  <1>1. PICK cs \in BOOLEAN, outcome \in Printing!Outcomes :
          printer' = Printing!printer_host_connect(printer, cs, outcome)
    BY DEF Printing!Follows, Printing!Outcomes
  <1>2. Gathered(printer') /\ Associated(printer') /\ Follows3270(printer', mode')
    BY <1>1, ConnectSound
  <1>3. child' \in Child /\ Said(child'.pipe, PRINTER_BUF)
    <2>1. CASE child' = child
      BY <2>1 DEF PrinterInv
    <2>2. CASE child' = [Printing!Quiet EXCEPT !.alive = Printing!printer_running(printer')]
      <3> DEFINE runs == Printing!printer_running(printer')
      <3>1. runs \in BOOLEAN
        BY DEF Printing!printer_running
      <3>2. child' = [alive |-> runs, pipe |-> [p \in Printing!Pipes |-> <<>>]]
        BY <2>2 DEF Printing!Quiet
      <3> HIDE DEF runs
      <3>3. child' \in Child
        BY <3>1, <3>2 DEF Child
      <3>4. Said(child'.pipe, PRINTER_BUF)
        BY <3>2 DEF Said, BufferAssumption
      <3> QED BY <3>3, <3>4
    <2> QED BY <2>1, <2>2 DEF Printing!Follows
  <1>4. printer_lu' = printer_lu
    BY DEF Printing!Follows
  <1> QED BY <1>2, <1>3, <1>4 DEF PrinterInv, Associated

(* The host, the process.                                                     *)
LEMMA OutsideKeeps ==
    ASSUME BufferAssumption, PrinterInv,
           Printing!HostNamesLU \/ Printing!ChildWrites \/ Printing!ChildExits
    PROVE  PrinterInv'
  <1>1. CASE Printing!HostNamesLU
    BY <1>1 DEF Printing!HostNamesLU, PrinterInv, Associated, Follows3270
  <1>2. CASE Printing!ChildWrites
    <2>1. PICK pipe \in Printing!Pipes, c \in Printing!Chars :
            /\ Len(child.pipe["stdout"]) + Len(child.pipe["stderr"]) < PRINTER_BUF - 1
            /\ child' = [child EXCEPT !.pipe[pipe] = Append(child.pipe[pipe], c)]
      BY <1>2 DEF Printing!ChildWrites
    <2>2. /\ child \in Child
          /\ \A x \in Printing!Pipes : /\ child.pipe[x] \in Seq(Printing!Chars)
                                       /\ Len(child.pipe[x]) <= PRINTER_BUF
      BY DEF PrinterInv, Said
    <2> DEFINE new == Append(child.pipe[pipe], c)
    <2>3. new \in Seq(Printing!Chars) /\ Len(new) <= PRINTER_BUF
      <3> DEFINE out == child.pipe["stdout"]
                 err == child.pipe["stderr"]
      <3>1. out \in Seq(Printing!Chars) /\ err \in Seq(Printing!Chars) /\ pipe \in {"stdout", "stderr"}
        BY <2>2 DEF Printing!Pipes
      <3>2. child.pipe[pipe] \in Seq(Printing!Chars) /\ Len(child.pipe[pipe]) < PRINTER_BUF - 1
        <4>1. Len(out) + Len(err) < PRINTER_BUF - 1
          BY <2>1
        <4>2. Len(out) \in Nat /\ Len(err) \in Nat
          <5> HIDE DEF out, err
          <5> QED BY <3>1
        <4>3. child.pipe[pipe] = out \/ child.pipe[pipe] = err
          BY <3>1
        <4> HIDE DEF out, err
        <4> QED BY <3>1, <4>1, <4>2, <4>3 DEF BufferAssumption
      <3> DEFINE old == child.pipe[pipe]
      <3> HIDE DEF old
      <3>3. new = Append(old, c) /\ old \in Seq(Printing!Chars) /\ Len(old) < PRINTER_BUF - 1
        BY <3>2 DEF old
      <3> HIDE DEF new
      <3> QED BY <2>1, <3>3 DEF BufferAssumption
    <2> HIDE DEF new
    <2>4. /\ child' \in Child
          /\ \A x \in Printing!Pipes : child'.pipe[x] = IF x = pipe THEN new ELSE child.pipe[x]
      BY <2>1, <2>2, <2>3 DEF Child, new
    <2>5. Said(child'.pipe, PRINTER_BUF)
      BY <2>2, <2>3, <2>4 DEF Said
    <2>6. UNCHANGED <<printer_lu, mode, connected_lu, printer>>
      BY <1>2 DEF Printing!ChildWrites
    <2> QED BY <2>4, <2>5, <2>6 DEF PrinterInv, Associated, Follows3270
  <1>3. CASE Printing!ChildExits
    <2>1. child' \in Child /\ child'.pipe = child.pipe
      BY <1>3 DEF Printing!ChildExits, PrinterInv, Child
    <2>2. UNCHANGED <<printer_lu, mode, connected_lu, printer>>
      BY <1>3 DEF Printing!ChildExits
    <2> QED BY <2>1, <2>2 DEF PrinterInv, Associated, Follows3270, Said
  <1> QED BY <1>1, <1>2, <1>3

(* What is told of a process's end fits the buffer.                           *)
LEMMA LastWordsFit ==
    ASSUME BufferAssumption, NEW p \in Process
    PROVE  Len(Printing!LastWords(p)) <= PRINTER_BUF - 1
  <1> DEFINE b == p.buf["stderr"]
             line == IF b # <<>> /\ Printing!Last(b) # "nl" THEN Append(b, "nl") ELSE b
             words == line \o Printing!exitmsg
             cap == Printing!Capped(words)
             Word == Printing!Chars \cup {"exited"}
  <1>1. b \in Seq(Word)
    <2>1. b \in Seq(Printing!Chars)
      BY DEF Process, Printing!Pipes
    <2> HIDE DEF b
    <2>2. \A i \in 1 .. Len(b) : b[i] \in Word
      BY <2>1
    <2> HIDE DEF Word
    <2> QED BY <2>1, <2>2
  <1>2. line \in Seq(Word)
    <2>1. "nl" \in Word
      BY DEF Printing!Chars
    <2> HIDE DEF b, Word
    <2> QED BY <1>1, <2>1
  <1>3. words \in Seq(Word)
    <2>1. Printing!exitmsg \in Seq(Word)
      BY DEF Printing!exitmsg
    <2> HIDE DEF line, Word
    <2> QED BY <1>2, <2>1
  <1>4. cap \in Seq(Word) /\ Len(cap) <= PRINTER_BUF - 1
    <2> HIDE DEF words, Word
    <2>1. PRINTER_BUF - 1 \in Nat
      BY DEF BufferAssumption
    <2> QED BY <1>3, <2>1, CutShort DEF Printing!Capped
  <1>5. Len(Printing!Text(cap)) <= PRINTER_BUF - 1
    <2> HIDE DEF cap, Word
    <2>1. CASE Printing!Text(cap) = cap
      BY <1>4, <2>1
    <2>2. CASE cap # <<>> /\ Printing!Text(cap) = Printing!Front(cap)
      <3>1. Len(SubSeq(cap, 1, Len(cap) - 1)) = Len(cap) - 1 /\ Len(cap) \in Nat
        BY <1>4, <2>2
      <3> QED BY <1>4, <2>2, <3>1 DEF Printing!Front, BufferAssumption
    <2> QED BY <2>1, <2>2 DEF Printing!Text
  <1>6. Len(Printing!exitmsg) <= PRINTER_BUF - 1
    BY DEF Printing!exitmsg, BufferAssumption
  <1> QED BY <1>5, <1>6 DEF Printing!LastWords

(* What the invariant says of the program.                                    *)
LEMMA PrinterInvMeans ==
    ASSUME BufferAssumption, PrinterInv PROVE Printing!PrinterKept
  <1>1. printer \in Printing!Printers
    <2>1. \A x \in Printing!Pipes : printer.buf[x] \in Printing!BoundedSeq(Printing!Chars, PRINTER_BUF - 1)
      <3>1. PRINTER_BUF - 1 \in Nat
        BY DEF BufferAssumption
      <3>2. \A x \in Printing!Pipes : printer.buf[x] \in Seq(Printing!Chars) /\ Len(printer.buf[x]) <= PRINTER_BUF - 1
        BY DEF PrinterInv, Gathered, Said, BufferAssumption
      <3> QED BY <3>1, <3>2, BoundedIs
    <2>2. printer \in Process
      BY DEF PrinterInv, Gathered
    <2> QED BY <2>1, <2>2 DEF Process, Printing!Printers, Unit
  <1>2. child \in Printing!Children
    <2>1. \A x \in Printing!Pipes : child.pipe[x] \in Printing!BoundedSeq(Printing!Chars, PRINTER_BUF)
      BY BoundedIs DEF PrinterInv, Said, BufferAssumption
    <2>2. child \in Child
      BY DEF PrinterInv
    <2> QED BY <2>1, <2>2 DEF Child, Printing!Children
  <1>3. Printing!TypeOK
    BY <1>1, <1>2 DEF PrinterInv, Printing!TypeOK
  <1>4. Printing!PrintsForSession
    BY DEF PrinterInv, Follows3270, Printing!PrintsForSession, Printing!printer_running
  <1>5. Printing!NothingLeft
    BY DEF PrinterInv, Gathered, Printing!NothingLeft, Printing!printer_running
  <1>6. Printing!OutputShown
    BY LastWordsFit DEF PrinterInv, Gathered, Said, Printing!OutputShown
  <1> QED BY <1>3, <1>4, <1>5, <1>6 DEF Printing!PrinterKept

(* However the host changes its mode and the process writes, exits or fails   *)
(* to start, it prints for a 3270 session alone, what it wrote is shown, and  *)
(* it leaves no watch, timeout or text.                                       *)
THEOREM PrinterFollowsSession ==
    ASSUME BufferAssumption PROVE Printing!Spec => []Printing!PrinterKept
  <1>1. ASSUME Printing!Init PROVE PrinterInv
    <2>1. /\ printer \in Process /\ printer.pid = Printing!CN /\ printer.watch = {}
          /\ printer.timeout = {} /\ printer.buf = [p \in Printing!Pipes |-> <<>>]
      BY <1>1 DEF Printing!Init, Process
    <2>2. Gathered(printer)
      BY <2>1 DEF Gathered, Said, BufferAssumption
    <2>3. child \in Child /\ Said(child.pipe, PRINTER_BUF)
      BY <1>1 DEF Printing!Init, Printing!Quiet, Child, Said, BufferAssumption
    <2>4. /\ printer_lu \in {Printing!CN, Printing!Dot} \cup {<<lu>> : lu \in LUs}
          /\ mode \in Printing!Modes /\ connected_lu = Printing!CN
      BY <1>1 DEF Printing!Init, Printing!Modes
    <2> QED BY <2>1, <2>2, <2>3, <2>4 DEF PrinterInv, Associated, Follows3270
  <1>2. ASSUME PrinterInv, [Printing!Next]_Printing!vars PROVE PrinterInv'
    <2>1. CASE Printing!printer_output \/ Printing!printer_error
      BY <1>2, <2>1, DataKeeps DEF Printing!printer_output, Printing!printer_error, Printing!Pipes
    <2>2. CASE Printing!printer_otimeout \/ Printing!printer_etimeout
      BY <1>2, <2>2, TimeoutKeeps DEF Printing!printer_otimeout, Printing!printer_etimeout,
         Printing!Pipes
    <2>3. CASE Printing!HostMode
      <3>1. mode' \in Printing!Modes /\ connected_lu' = connected_lu /\ Printing!Follows
        BY <2>3 DEF Printing!HostMode
      <3> QED BY <1>2, <3>1, FollowsKeeps DEF PrinterInv
    <2>4. CASE Printing!HostDisconnects
      <3>1. mode' \in Printing!Modes /\ connected_lu' = Printing!CN /\ Printing!Follows
        BY <2>4 DEF Printing!HostDisconnects, Printing!Modes
      <3> QED BY <1>2, <3>1, FollowsKeeps
    <2>5. CASE Printing!HostNamesLU \/ Printing!ChildWrites \/ Printing!ChildExits
      BY <1>2, <2>5, OutsideKeeps
    <2>6. CASE UNCHANGED Printing!vars
      BY <1>2, <2>6 DEF Printing!vars, PrinterInv, Associated, Follows3270
    <2> QED BY <1>2, <2>1, <2>2, <2>3, <2>4, <2>5, <2>6 DEF Printing!Next
  <1>3. PrinterInv => Printing!PrinterKept
    BY PrinterInvMeans
  <1> QED BY <1>1, <1>2, <1>3, PTL DEF Printing!Spec

-----------------------------------------------------------------------------

(* Proxies of SOCKS: their replies are counted, and used up.                  *)
Socks == Negotiation!Socks4 \cup Negotiation!Socks5

(* The forms of the replies of SOCKS 4: eight bytes, of which one decides.    *)
LEMMA Socks4Replies ==
    ASSUME NEW type \in Negotiation!Socks4
    PROVE  /\ \A reply \in Negotiation!Grants(type) :
                reply \in Seq(Int) /\ Len(reply) = 8 /\ reply[2] = 90
           /\ \A reply \in Negotiation!Refusals(type) :
                reply \in Seq(Int) /\ Len(reply) = 8 /\ reply[2] # 90
  <1>0. type \notin Negotiation!Socks5 /\ type # "http"
    BY DEF Negotiation!Socks4, Negotiation!Socks5
  <1>1. ASSUME NEW reply, NEW status \in Int, reply = <<0, status, 0, 0, 0, 0, 0, 0>>
        PROVE  reply \in Seq(Int) /\ Len(reply) = 8 /\ reply[2] = status
    <2>1. reply \in Seq(Int)
      BY <1>1
    <2>2. Len(reply) = 8
      BY <1>1
    <2>3. reply[2] = status
      BY <1>1
    <2> QED BY <2>1, <2>2, <2>3
  <1>2. ASSUME NEW reply \in Negotiation!Grants(type)
        PROVE  reply = <<0, 90, 0, 0, 0, 0, 0, 0>>
    <2>1. Negotiation!Grants(type) = {<<0, 90, 0, 0, 0, 0, 0, 0>>}
      BY <1>0 DEF Negotiation!Grants
    <2> QED BY <1>2, <2>1
  <1>3. ASSUME NEW reply \in Negotiation!Refusals(type)
        PROVE  \E status \in {91, 92, 93, 7} : reply = <<0, status, 0, 0, 0, 0, 0, 0>>
    <2>1. Negotiation!Refusals(type) = {<<0, s, 0, 0, 0, 0, 0, 0>> : s \in {91, 92, 93, 7}}
      BY <1>0 DEF Negotiation!Refusals
    <2> QED BY <1>3, <2>1
  <1>4. ASSUME NEW reply \in Negotiation!Grants(type)
        PROVE  reply \in Seq(Int) /\ Len(reply) = 8 /\ reply[2] = 90
    BY <1>1, <1>2, <1>4
  <1>5. ASSUME NEW reply \in Negotiation!Refusals(type)
        PROVE  reply \in Seq(Int) /\ Len(reply) = 8 /\ reply[2] # 90
    BY <1>1, <1>3, <1>5
  <1> QED BY <1>4, <1>5

(* ... and of SOCKS 5: the fourth byte tells how long the address is.         *)
LEMMA Socks5Replies ==
    ASSUME NEW type \in Negotiation!Socks5
    PROVE  /\ \A reply \in Negotiation!Grants(type) :
                /\ reply \in Seq(Int) /\ Len(reply) \in 7 .. 22
                /\ reply[1] = 5 /\ reply[2] = 0
                /\ \/ reply[4] = 1 /\ Len(reply) = 10
                   \/ reply[4] = 3 /\ Len(reply) = 7 + reply[5] /\ reply[5] \in 0 .. 2
                   \/ reply[4] = 4 /\ Len(reply) = 22
           /\ \A reply \in Negotiation!Refusals(type) :
                /\ reply \in Seq(Int) /\ Len(reply) \in 4 .. 10
                /\ reply[1] # 5 \/ reply[2] # 0 \/ reply[4] \notin {1, 3, 4}
  <1>1. type \notin Negotiation!Socks4 /\ type # "http"
    BY DEF Negotiation!Socks4, Negotiation!Socks5
  <1>2. ASSUME NEW reply \in Negotiation!Grants(type)
        PROVE  /\ reply \in Seq(Int) /\ Len(reply) \in 7 .. 22
               /\ reply[1] = 5 /\ reply[2] = 0
               /\ \/ reply[4] = 1 /\ Len(reply) = 10
                  \/ reply[4] = 3 /\ Len(reply) = 7 + reply[5] /\ reply[5] \in 0 .. 2
                  \/ reply[4] = 4 /\ Len(reply) = 22
    <2> DEFINE start == <<5, 0, 0, 4>>
               rest  == [i \in 1 .. 18 |-> 0]
    <2>1. reply \in {<<5, 0, 0, 1, 0, 0, 0, 0, 0, 0>>, <<5, 0, 0, 3, 2, 0, 0, 0, 0>>,
                     <<5, 0, 0, 3, 0, 0, 0>>, start \o rest}
      <3>1. Negotiation!Grants(type) =
              {<<5, 0, 0, 1, 0, 0, 0, 0, 0, 0>>, <<5, 0, 0, 3, 2, 0, 0, 0, 0>>,
               <<5, 0, 0, 3, 0, 0, 0>>, start \o rest}
        BY <1>1 DEF Negotiation!Grants
      <3> HIDE DEF start, rest
      <3> QED BY <1>2, <3>1
    <2>2. CASE reply = <<5, 0, 0, 1, 0, 0, 0, 0, 0, 0>>
      <3>1. reply \in Seq(Int)
        BY <2>2
      <3>2. Len(reply) = 10
        BY <2>2
      <3>3. reply[1] = 5 /\ reply[2] = 0 /\ reply[4] = 1
        BY <2>2
      <3> QED BY <3>1, <3>2, <3>3
    <2>3. CASE reply = <<5, 0, 0, 3, 2, 0, 0, 0, 0>>
      <3>1. reply \in Seq(Int)
        BY <2>3
      <3>2. Len(reply) = 9
        BY <2>3
      <3>3. reply[1] = 5 /\ reply[2] = 0 /\ reply[4] = 3 /\ reply[5] = 2
        BY <2>3
      <3> QED BY <3>1, <3>2, <3>3
    <2>4. CASE reply = <<5, 0, 0, 3, 0, 0, 0>>
      <3>1. reply \in Seq(Int)
        BY <2>4
      <3>2. Len(reply) = 7
        BY <2>4
      <3>3. reply[1] = 5 /\ reply[2] = 0 /\ reply[4] = 3 /\ reply[5] = 0
        BY <2>4
      <3> QED BY <3>1, <3>2, <3>3
    <2>5. CASE reply = start \o rest
      <3>1. start \in Seq(Int) /\ Len(start) = 4 /\ start[1] = 5 /\ start[2] = 0 /\ start[4] = 4
        OBVIOUS
      <3>2. rest \in Seq(Int) /\ Len(rest) = 18
        OBVIOUS
      <3> HIDE DEF start, rest
      <3>3. /\ start \o rest \in Seq(Int) /\ Len(start \o rest) = Len(start) + Len(rest)
            /\ \A i \in 1 .. Len(start) + Len(rest) :
                 (start \o rest)[i] = IF i <= Len(start) THEN start[i] ELSE rest[i - Len(start)]
        BY ONLY <3>1, <3>2, ConcatProperties
      <3>4. /\ reply \in Seq(Int) /\ Len(reply) = Len(start) + Len(rest)
            /\ \A i \in 1 .. Len(start) + Len(rest) :
                 reply[i] = IF i <= Len(start) THEN start[i] ELSE rest[i - Len(start)]
        BY ONLY <2>5, <3>3, Zenon
      <3>5. reply \in Seq(Int) /\ Len(reply) = 22 /\ reply[1] = 5 /\ reply[2] = 0 /\ reply[4] = 4
        BY ONLY <3>1, <3>2, <3>4
      <3> QED BY ONLY <3>5
    <2> QED BY <2>1, <2>2, <2>3, <2>4, <2>5
  <1>3. ASSUME NEW reply \in Negotiation!Refusals(type)
        PROVE  /\ reply \in Seq(Int) /\ Len(reply) \in 4 .. 10
               /\ reply[1] # 5 \/ reply[2] # 0 \/ reply[4] \notin {1, 3, 4}
    <2>1. reply \in {<<4, 0, 0, 1, 0, 0, 0, 0, 0, 0>>, <<5, 1, 0, 1, 0, 0, 0, 0, 0, 0>>, <<5, 0, 0, 7>>}
      <3>1. Negotiation!Refusals(type) =
              {<<4, 0, 0, 1, 0, 0, 0, 0, 0, 0>>, <<5, 1, 0, 1, 0, 0, 0, 0, 0, 0>>, <<5, 0, 0, 7>>}
        BY <1>1 DEF Negotiation!Refusals
      <3> QED BY <1>3, <3>1
    <2>2. CASE reply = <<4, 0, 0, 1, 0, 0, 0, 0, 0, 0>>
      <3>1. reply \in Seq(Int)
        BY <2>2
      <3>2. Len(reply) = 10
        BY <2>2
      <3>3. reply[1] = 4
        BY <2>2
      <3> QED BY <3>1, <3>2, <3>3
    <2>3. CASE reply = <<5, 1, 0, 1, 0, 0, 0, 0, 0, 0>>
      <3>1. reply \in Seq(Int)
        BY <2>3
      <3>2. Len(reply) = 10
        BY <2>3
      <3>3. reply[2] = 1
        BY <2>3
      <3> QED BY <3>1, <3>2, <3>3
    <2>4. CASE reply = <<5, 0, 0, 7>>
      <3>1. reply \in Seq(Int)
        BY <2>4
      <3>2. Len(reply) = 4
        BY <2>4
      <3>3. reply[4] = 7
        BY <2>4
      <3> QED BY <3>1, <3>2, <3>3
    <2> QED BY <2>1, <2>2, <2>3, <2>4
  <1> QED BY <1>2, <1>3

(* The replies of the other types are short.                                  *)
LEMMA OtherReplies ==
    ASSUME NEW type \in Negotiation!Types \ Socks,
           NEW reply \in Negotiation!Grants(type) \cup Negotiation!Refusals(type)
    PROVE  reply \in Seq(Int) /\ Len(reply) <= 8
  <1> DEFINE cr == Negotiation!CR  lf == Negotiation!LF  space == Negotiation!Space
             two == Negotiation!Two  four == Negotiation!Four  http == Negotiation!HTTP
  <1>1. type \notin Negotiation!Socks4 /\ type \notin Negotiation!Socks5
    BY DEF Socks
  <1>2. cr \in Int /\ lf \in Int /\ space \in Int /\ two \in Int /\ four \in Int /\ http \in Int
    BY DEF Negotiation!HTTP, Negotiation!Space, Negotiation!Two, Negotiation!Four,
       Negotiation!CR, Negotiation!LF
  <1>3. reply \in {<<>>, <<http, space, four, cr, lf>>, <<http, two, lf>>, <<four, space, two, lf>>,
                   <<http, space, two, cr, lf>>, <<http, space, two, four, four, four, cr, lf>>}
    <2>1. CASE type = "http"
      <3>1. Negotiation!Grants(type) =
              {<<http, space, two, cr, lf>>, <<http, space, two, four, four, four, cr, lf>>}
        BY <1>1, <2>1 DEF Negotiation!Grants
      <3>2. Negotiation!Refusals(type) =
              {<<http, space, four, cr, lf>>, <<http, two, lf>>, <<four, space, two, lf>>}
        BY <1>1, <2>1 DEF Negotiation!Refusals
      <3> QED BY <3>1, <3>2
    <2>2. CASE type # "http"
      <3>1. Negotiation!Grants(type) = {<<>>} /\ Negotiation!Refusals(type) = {<<>>}
        BY <1>1, <2>2 DEF Negotiation!Grants, Negotiation!Refusals
      <3> QED BY <3>1
    <2> QED BY <2>1, <2>2
  <1> HIDE DEF cr, lf, space, two, four, http
  <1>4. ASSUME NEW s, s \in {<<>>, <<http, space, four, cr, lf>>, <<http, two, lf>>,
                             <<four, space, two, lf>>, <<http, space, two, cr, lf>>,
                             <<http, space, two, four, four, four, cr, lf>>}
        PROVE  s \in Seq(Int) /\ Len(s) <= 8
    <2>1. CASE s = <<>>
      BY <2>1
    <2>2. CASE s = <<http, space, four, cr, lf>>
      BY <1>2, <2>2
    <2>3. CASE s = <<http, two, lf>>
      BY <1>2, <2>3
    <2>4. CASE s = <<four, space, two, lf>>
      BY <1>2, <2>4
    <2>5. CASE s = <<http, space, two, cr, lf>>
      BY <1>2, <2>5
    <2>6. CASE s = <<http, space, two, four, four, four, cr, lf>>
      BY <1>2, <2>6
    <2> QED BY <1>4, <2>1, <2>2, <2>3, <2>4, <2>5, <2>6
  <1> QED BY <1>3, <1>4

-----------------------------------------------------------------------------
(* The resource. *)

(* Every set of natural numbers that is not empty has a least element.        *)
LEMMA Least ==
    ASSUME NEW T, T \subseteq Nat, T # {}
    PROVE  \E n \in T : \A m \in T : n <= m
  <1> DEFINE R == OpToRel(<, Nat)
  <1>1. IsWellFoundedOn(R, Nat)
    BY NatLessThanWellFounded
  <1>2. PICK n \in T : \A m \in T : ~(<<m, n>> \in R)
    BY <1>1, WFMin
  <1>3. \A m \in T : ~(m < n)
    BY <1>2 DEF OpToRel
  <1> QED BY <1>3

(* The first of some tokens in a text.                                        *)
LEMMA FirstPlace ==
    ASSUME NEW S, NEW text \in Seq(S), NEW token
    PROVE  \/ Negotiation!Place(token, text) = 0 /\ \A j \in 1 .. Len(text) : text[j] # token
           \/ /\ Negotiation!Place(token, text) \in 1 .. Len(text)
              /\ text[Negotiation!Place(token, text)] = token
              /\ \A j \in 1 .. Len(text) : text[j] = token => Negotiation!Place(token, text) <= j
  <1> DEFINE found == {i \in 1 .. Len(text) : text[i] = token}
  <1>1. Negotiation!Place(token, text) = IF found # {} THEN Negotiation!Min(found) ELSE 0
    BY DEF Negotiation!Place, Negotiation!SelectInSeq
  <1>2. CASE found = {}
    BY <1>1, <1>2
  <1>3. CASE found # {}
    <2>1. \E i \in found : \A j \in found : i <= j
      <3>1. found \subseteq Nat
        OBVIOUS
      <3> HIDE DEF found
      <3> QED BY <1>3, <3>1, Least
    <2>2. Negotiation!Min(found) \in found /\ \A j \in found : Negotiation!Min(found) <= j
      BY <2>1 DEF Negotiation!Min
    <2> QED BY <1>1, <1>3, <2>2
  <1> QED BY <1>2, <1>3

(* A text that is taken has a host, unless it is empty.                       *)
LEMMA HostParsed ==
    ASSUME NEW text \in Seq(STRING), NEW r, r = Negotiation!parse_host_port(text), r.ok
    PROVE  text # <<>> => r.host # Negotiation!CN
  <1> DEFINE rbrack == Negotiation!Place("]", text)
             colon  == Negotiation!Place(":", text)
  <1>1. /\ rbrack \in 0 .. Len(text) /\ (rbrack # 0 => text[rbrack] = "]")
        /\ colon \in 0 .. Len(text)
    BY FirstPlace
  <1>2. SUFFICES ASSUME text # <<>> PROVE r.host # <<>>
    BY DEF Negotiation!CN
  <1>3. CASE text[1] = "["
    <2>1. rbrack \notin {0, 2} /\ r.host = SubSeq(text, 2, rbrack - 1)
      BY <1>2, <1>3 DEF Negotiation!parse_host_port, Negotiation!Parsed, Negotiation!Unparsed
    <2>2. rbrack > 2
      BY <1>1, <1>3, <2>1
    <2> HIDE DEF rbrack
    <2> DEFINE host == SubSeq(text, 2, rbrack - 1)
    <2>3. Len(host) = rbrack - 2 /\ rbrack - 2 > 0
      BY <1>1, <2>2
    <2> HIDE DEF host
    <2>4. host # <<>>
      BY <2>3
    <2> QED BY <2>1, <2>4 DEF host
  <1>4. CASE text[1] # "["
    <2>1. colon # 1 /\ r.host = IF colon = 0 THEN text ELSE SubSeq(text, 1, colon - 1)
      BY <1>2, <1>4 DEF Negotiation!parse_host_port, Negotiation!Parsed, Negotiation!Unparsed
    <2> HIDE DEF colon
    <2>2. CASE colon = 0
      BY <1>2, <2>1, <2>2
    <2>3. CASE colon > 1
      <3>1. Len(SubSeq(text, 1, colon - 1)) = colon - 1
        BY <1>1, <2>3
      <3> QED BY <1>1, <2>1, <2>3, <3>1
    <2>4. colon = 0 \/ colon > 1
      <3>1. Len(text) \in Nat
        OBVIOUS
      <3> QED BY <1>1, <2>1, <3>1
    <2> QED BY <2>2, <2>3, <2>4
  <1> QED BY <1>3, <1>4

(* What is found of a setting.                                                *)
LEMMA SettingRead ==
    ASSUME spec \in Seq(STRING), NEW r, r = Negotiation!proxy_setup
    PROVE  /\ r.type \in Negotiation!Types \cup {"invalid"}
           /\ r.type \in Negotiation!Types =>
                r.type = spec[1] /\ (Len(spec) > 2 => r.host # Negotiation!CN)
  <1> DEFINE text   == SubSeq(spec, 3, Len(spec))
             parsed == Negotiation!parse_host_port(text)
  <1>1. CASE r = Negotiation!Invalid
    BY <1>1 DEF Negotiation!Invalid, Negotiation!Types
  <1>2. CASE r # Negotiation!Invalid
    <2>1. /\ Len(spec) >= 2 /\ spec[1] \in Negotiation!Types /\ parsed.ok
          /\ r.type = spec[1] /\ r.host = parsed.host
      <3> HIDE DEF parsed
      <3>1. r = IF \/ Len(spec) < 2 \/ spec[2] # ":" \/ spec[1] \notin Negotiation!Types \/ ~parsed.ok
                   \/ spec[1] = "telnet" /\ parsed.port = Negotiation!CN
                THEN Negotiation!Invalid
                ELSE [type |-> spec[1], host |-> parsed.host,
                      port |-> IF parsed.port = Negotiation!CN THEN Negotiation!Default(spec[1]) ELSE parsed.port]
        BY DEF parsed, Negotiation!proxy_setup
      <3> QED BY <1>2, <3>1
    <2>2. text \in Seq(STRING) /\ (Len(spec) > 2 => text # <<>>)
      <3>1. text \in Seq(STRING)
        OBVIOUS
      <3>2. Len(spec) > 2 => Len(text) = Len(spec) - 2
        OBVIOUS
      <3> HIDE DEF text
      <3>3. Len(spec) \in Nat
        OBVIOUS
      <3> QED BY <3>1, <3>2, <3>3
    <2>3. text # <<>> => parsed.host # Negotiation!CN
      <3> HIDE DEF text
      <3> QED BY <2>1, <2>2, HostParsed
    <2> QED BY <2>1, <2>2, <2>3
  <1> QED BY <1>1, <1>2

(* Texts put together, and parts of them, symbol by symbol.                   *)
LEMMA JoinIs ==
    ASSUME NEW S, NEW a \in Seq(S), NEW b \in Seq(S), NEW c \in Seq(S),
           Len(c) = Len(a) + Len(b),
           \A i \in 1 .. Len(a) : c[i] = a[i],
           \A i \in 1 .. Len(b) : c[Len(a) + i] = b[i]
    PROVE  a \o b = c
  <1> DEFINE all == a \o b
  <1>1. /\ all \in Seq(S) /\ Len(all) = Len(a) + Len(b)
        /\ \A i \in 1 .. Len(a) + Len(b) : all[i] = IF i <= Len(a) THEN a[i] ELSE b[i - Len(a)]
    BY ConcatProperties
  <1> HIDE DEF all
  <1>2. \A i \in 1 .. Len(all) : all[i] = c[i]
    <2> TAKE i \in 1 .. Len(all)
    <2>1. CASE i <= Len(a)
      BY <1>1, <2>1
    <2>2. CASE i > Len(a)
      <3>1. i - Len(a) \in 1 .. Len(b) /\ Len(a) + (i - Len(a)) = i
        BY <1>1, <2>2
      <3> QED BY <1>1, <2>2, <3>1
    <2> QED BY <2>1, <2>2
  <1>3. all = c
    BY <1>1, <1>2, SeqEqual
  <1> QED BY <1>3 DEF all

(* A part of a sequence, place by place.                                      *)
LEMMA PartIs ==
    ASSUME NEW S, NEW t \in Seq(S), NEW c \in Seq(S),
           NEW m \in 1 .. Len(t), NEW n \in 1 .. Len(t), Len(c) = n - m + 1, m <= n,
           \A i \in 1 .. Len(c) : c[i] = t[m + i - 1]
    PROVE  SubSeq(t, m, n) = c
  <1> DEFINE part == SubSeq(t, m, n)
  <1>1. /\ part \in Seq(S) /\ Len(part) = n - m + 1
        /\ \A i \in 1 .. n - m + 1 : part[i] = t[m + i - 1]
    OBVIOUS
  <1> HIDE DEF part
  <1>2. part = c
    BY <1>1, SeqEqual
  <1> QED BY <1>2 DEF part


(* One symbol.                                                                *)
LEMMA Symbol ==
    ASSUME NEW S, NEW x \in S, NEW t, t = <<x>>
    PROVE  t \in Seq(S) /\ Len(t) = 1 /\ t[1] = x
  <1>1. t \in Seq(S)
    <2>1. t \in [1 .. 1 -> S]
      OBVIOUS
    <2> QED BY <2>1, SeqDef
  <1>2. Len(t) = 1
    OBVIOUS
  <1>3. t[1] = x
    OBVIOUS
  <1> QED BY <1>1, <1>2, <1>3

(* The port behind what is before it.                                         *)
LEMMA PortRead ==
    ASSUME NEW S, ":" \in S, NEW front \in Seq(S), NEW p \in Seq(S), NEW text,
           text = front \o (IF p = Negotiation!CN THEN <<>> ELSE <<":">> \o p)
    PROVE  /\ text \in Seq(S) /\ Len(text) >= Len(front)
           /\ \A i \in 1 .. Len(front) : text[i] = front[i]
           /\ p = Negotiation!CN => text = front
           /\ p # Negotiation!CN =>
                /\ Len(text) > Len(front) /\ text[Len(front) + 1] = ":"
                /\ SubSeq(text, Len(front) + 2, Len(text)) = p
  <1>1. CASE p = Negotiation!CN
    <2>1. text = front
      BY <1>1, ConcatEmptySeq
    <2> QED BY <1>1, <2>1
  <1>2. CASE p # Negotiation!CN
    <2> DEFINE mark == <<":">>
               rest == mark \o p
    <2>0. mark = <<":">> /\ ":" \in S
      BY Zenon DEF mark
    <2>1. mark \in Seq(S) /\ Len(mark) = 1 /\ mark[1] = ":"
      <3> HIDE DEF mark
      <3> QED BY ONLY <2>0, Symbol
    <2>2. text = front \o rest
      BY <1>2
    <2> HIDE DEF mark
    <2>3. /\ rest \in Seq(S) /\ Len(rest) = 1 + Len(p) /\ rest[1] = ":"
          /\ \A i \in 1 .. Len(p) : rest[i + 1] = p[i]
      <3>1. /\ rest \in Seq(S) /\ Len(rest) = Len(mark) + Len(p)
            /\ \A i \in 1 .. Len(mark) + Len(p) :
                 rest[i] = IF i <= Len(mark) THEN mark[i] ELSE p[i - Len(mark)]
        BY ONLY <2>1, ConcatProperties
      <3> HIDE DEF rest
      <3>2. ASSUME NEW i \in 1 .. Len(p) PROVE rest[i + 1] = p[i]
        <4>1. i + 1 \in 1 .. Len(mark) + Len(p) /\ ~(i + 1 <= Len(mark)) /\ (i + 1) - Len(mark) = i
          BY <2>1
        <4> QED BY <3>1, <4>1
      <3>3. rest[1] = ":"
        BY <2>1, <3>1
      <3> QED BY <2>1, <3>1, <3>2, <3>3
    <2> HIDE DEF rest
    <2>4. /\ text \in Seq(S) /\ Len(text) = Len(front) + Len(rest)
          /\ \A i \in 1 .. Len(front) + Len(rest) :
               text[i] = IF i <= Len(front) THEN front[i] ELSE rest[i - Len(front)]
      <3> DEFINE all == front \o rest
      <3>1. /\ all \in Seq(S) /\ Len(all) = Len(front) + Len(rest)
            /\ \A i \in 1 .. Len(front) + Len(rest) :
                 all[i] = IF i <= Len(front) THEN front[i] ELSE rest[i - Len(front)]
        <4>1. front \in Seq(S) /\ rest \in Seq(S)
          BY <2>3
        <4> QED BY ONLY <4>1, ConcatProperties
      <3> HIDE DEF all
      <3> QED BY <2>2, <3>1 DEF all
    <2>5. /\ Len(front) \in Nat /\ Len(p) \in Nat \ {0} /\ Len(text) = Len(front) + 1 + Len(p)
      <3>1. Len(p) # 0
        BY <1>2, EmptySeq DEF Negotiation!CN
      <3> QED BY <2>3, <2>4, <3>1
    <2>6. \A i \in 1 .. Len(front) : text[i] = front[i]
      BY <2>3, <2>4
    <2>7. text[Len(front) + 1] = ":"
      <3>1. Len(front) + 1 \in 1 .. Len(front) + Len(rest)
        BY <2>3, <2>5
      <3>2. ~(Len(front) + 1 <= Len(front)) /\ (Len(front) + 1) - Len(front) = 1
        BY <2>5
      <3> QED BY <2>3, <2>4, <3>1, <3>2
    <2>8. SubSeq(text, Len(front) + 2, Len(text)) = p
      <3>1. ASSUME NEW i \in 1 .. Len(p)
            PROVE  p[i] = text[(Len(front) + 2) + i - 1]
        <4>1. /\ (Len(front) + 2) + i - 1 \in 1 .. Len(front) + Len(rest)
              /\ ~((Len(front) + 2) + i - 1 <= Len(front))
              /\ ((Len(front) + 2) + i - 1) - Len(front) = i + 1
          BY <2>3, <2>5
        <4> QED BY <2>3, <2>4, <4>1
      <3>2. Len(front) + 2 \in 1 .. Len(text) /\ Len(text) \in 1 .. Len(text)
            /\ Len(p) = Len(text) - (Len(front) + 2) + 1 /\ Len(front) + 2 <= Len(text)
        BY <2>5
      <3> QED BY <2>4, <3>1, <3>2, PartIs
    <2> QED BY <1>2, <2>4, <2>5, <2>6, <2>7, <2>8
  <1> QED BY <1>1, <1>2

(* What is written is read, for every host that can be written.               *)
LEMMA WrittenRead ==
    ASSUME NEW S, {":", "[", "]"} \subseteq S,
           NEW host \in Seq(S), host # <<>>, \A i \in 1 .. Len(host) : host[i] # "]",
           ":" \in Negotiation!Range(host) \/ host[1] # "[",
           NEW p \in Seq(S)
    PROVE  Negotiation!parse_host_port(Negotiation!Written(host, p)) = Negotiation!Parsed(host, p)
  <1> DEFINE colons == ":" \in Negotiation!Range(host)
             front  == IF colons THEN <<"[">> \o host \o <<"]">> ELSE host
             text   == Negotiation!Written(host, p)
             rbrack == Negotiation!Place("]", text)
             colon  == Negotiation!Place(":", text)
  <1>1. text = front \o (IF p = Negotiation!CN THEN <<>> ELSE <<":">> \o p)
    BY DEF Negotiation!Written
  <1>2. Len(host) \in Nat \ {0}
    BY EmptySeq
  <1>3. colons <=> \E i \in 1 .. Len(host) : host[i] = ":"
    BY DEF Negotiation!Range
  <1>4. CASE ~colons
    <2>1. front = host
      BY <1>4
    <2> HIDE DEF front, text, colons
    <2>2. /\ text \in Seq(S) /\ Len(text) >= Len(host)
          /\ \A i \in 1 .. Len(host) : text[i] = host[i]
          /\ p = Negotiation!CN => text = host
          /\ p # Negotiation!CN =>
               /\ Len(text) > Len(host) /\ text[Len(host) + 1] = ":"
               /\ SubSeq(text, Len(host) + 2, Len(text)) = p
      BY <1>1, <2>1, PortRead
    <2>3. /\ \/ colon = 0 /\ \A j \in 1 .. Len(text) : text[j] # ":"
             \/ /\ colon \in 1 .. Len(text) /\ text[colon] = ":"
                /\ \A j \in 1 .. Len(text) : text[j] = ":" => colon <= j
      BY <2>2, FirstPlace
    <2> HIDE DEF colon
    <2>4. text # <<>> /\ text[1] # "["
      <3>1. text # <<>>
        BY <1>2, <2>2
      <3>2. text[1] = host[1]
        BY <1>2, <2>2
      <3> QED BY <1>4, <3>1, <3>2 DEF colons
    <2>5. CASE p = Negotiation!CN
      <3>1. colon = 0
        BY <1>3, <1>4, <2>2, <2>3, <2>5
      <3>2. Negotiation!parse_host_port(text) = Negotiation!Parsed(text, Negotiation!CN)
        BY <2>4, <3>1 DEF colon, Negotiation!parse_host_port, Negotiation!After
      <3> QED BY <2>2, <2>5, <3>2, Zenon DEF text
    <2>6. CASE p # Negotiation!CN
      <3>1. colon = Len(host) + 1
        <4>1. Len(host) + 1 \in 1 .. Len(text)
          BY <1>2, <2>2, <2>6
        <4>2. colon \in 1 .. Len(host) + 1 /\ text[colon] = ":"
          BY <1>2, <2>2, <2>3, <2>6, <4>1
        <4>3. colon \notin 1 .. Len(host)
          BY <1>3, <1>4, <2>2, <4>2
        <4> QED BY <1>2, <4>2, <4>3
      <3>2. SubSeq(text, 1, Len(host)) = host
        <4>1. 1 \in 1 .. Len(text) /\ Len(host) \in 1 .. Len(text) /\ Len(host) = Len(host) - 1 + 1
          BY <1>2, <2>2
        <4>2. \A i \in 1 .. Len(host) : host[i] = text[1 + i - 1]
          BY <1>2, <2>2
        <4> QED BY <1>2, <2>2, <4>1, <4>2, PartIs
      <3>3. colon # 1 /\ colon # 0 /\ colon - 1 = Len(host) /\ colon + 1 = Len(host) + 2
        BY <1>2, <3>1
      <3>4. Negotiation!parse_host_port(text) =
              Negotiation!Parsed(SubSeq(text, 1, colon - 1), SubSeq(text, colon + 1, Len(text)))
        BY <2>4, <3>3 DEF colon, Negotiation!parse_host_port, Negotiation!After
      <3>5. SubSeq(text, 1, colon - 1) = host /\ SubSeq(text, colon + 1, Len(text)) = p
        BY <2>2, <2>6, <3>2, <3>3
      <3> QED BY <3>4, <3>5, Zenon DEF text
    <2> QED BY <2>5, <2>6 DEF text
  <1>5. CASE colons
    <2> DEFINE left  == <<"[">>
               right == <<"]">>
               mid   == left \o host
               all   == mid \o right
    <2>1. /\ left \in Seq(S) /\ Len(left) = 1 /\ left[1] = "["
          /\ right \in Seq(S) /\ Len(right) = 1 /\ right[1] = "]"
      <3>1. left = <<"[">> /\ right = <<"]">> /\ "[" \in S /\ "]" \in S
        BY Zenon DEF left, right
      <3> HIDE DEF left, right
      <3> QED BY ONLY <3>1, Symbol
    <2>2. front = all
      BY <1>5
    <2> HIDE DEF left, right
    <2>3. /\ mid \in Seq(S) /\ Len(mid) = 1 + Len(host) /\ mid[1] = "["
          /\ \A i \in 1 .. Len(host) : mid[i + 1] = host[i]
      <3>1. left \in Seq(S) /\ host \in Seq(S)
        BY <2>1
      <3>2. /\ mid \in Seq(S) /\ Len(mid) = Len(left) + Len(host)
            /\ \A i \in 1 .. Len(left) + Len(host) :
                 mid[i] = IF i <= Len(left) THEN left[i] ELSE host[i - Len(left)]
        BY ONLY <3>1, ConcatProperties
      <3> HIDE DEF mid
      <3>3. ASSUME NEW i \in 1 .. Len(host) PROVE mid[i + 1] = host[i]
        <4>1. i + 1 \in 1 .. Len(left) + Len(host) /\ ~(i + 1 <= Len(left)) /\ (i + 1) - Len(left) = i
          BY <2>1
        <4> QED BY <3>2, <4>1
      <3>4. mid[1] = "["
        BY <1>2, <2>1, <3>2
      <3> QED BY <2>1, <3>2, <3>3, <3>4
    <2> HIDE DEF mid
    <2>4. /\ all \in Seq(S) /\ Len(all) = Len(host) + 2 /\ all[1] = "[" /\ all[Len(host) + 2] = "]"
          /\ \A i \in 1 .. Len(host) : all[i + 1] = host[i]
      <3>1. mid \in Seq(S) /\ right \in Seq(S)
        BY <2>1, <2>3
      <3>2. /\ all \in Seq(S) /\ Len(all) = Len(mid) + Len(right)
            /\ \A i \in 1 .. Len(mid) + Len(right) :
                 all[i] = IF i <= Len(mid) THEN mid[i] ELSE right[i - Len(mid)]
        BY ONLY <3>1, ConcatProperties
      <3> HIDE DEF all
      <3>3. Len(mid) = Len(host) + 1 /\ Len(right) = 1
        BY <1>2, <2>1, <2>3
      <3>4. ASSUME NEW i \in 1 .. Len(host) PROVE all[i + 1] = host[i]
        <4>1. i + 1 \in 1 .. Len(mid) + Len(right) /\ i + 1 <= Len(mid)
          BY <1>2, <3>3
        <4> QED BY <2>3, <3>2, <4>1
      <3>5. all[1] = "["
        BY <1>2, <2>3, <3>2, <3>3
      <3>6. all[Len(host) + 2] = "]"
        <4>1. /\ Len(host) + 2 \in 1 .. Len(mid) + Len(right) /\ ~(Len(host) + 2 <= Len(mid))
              /\ (Len(host) + 2) - Len(mid) = 1
          BY <1>2, <3>3
        <4> QED BY <2>1, <3>2, <4>1
      <3> QED BY <1>2, <3>2, <3>3, <3>4, <3>5, <3>6
    <2> HIDE DEF all, front, text, colons
    <2>5. /\ text \in Seq(S) /\ Len(text) >= Len(all)
          /\ \A i \in 1 .. Len(all) : text[i] = all[i]
          /\ p = Negotiation!CN => text = all
          /\ p # Negotiation!CN =>
               /\ Len(text) > Len(all) /\ text[Len(all) + 1] = ":"
               /\ SubSeq(text, Len(all) + 2, Len(text)) = p
      BY <1>1, <2>2, <2>4, PortRead
    <2>6. /\ \/ rbrack = 0 /\ \A j \in 1 .. Len(text) : text[j] # "]"
             \/ /\ rbrack \in 1 .. Len(text) /\ text[rbrack] = "]"
                /\ \A j \in 1 .. Len(text) : text[j] = "]" => rbrack <= j
      BY <2>5, FirstPlace
    <2> HIDE DEF rbrack
    <2>7. text # <<>> /\ text[1] = "["
      BY <1>2, <2>4, <2>5
    <2>8. rbrack = Len(host) + 2
      <3>1. Len(host) + 2 \in 1 .. Len(text) /\ text[Len(host) + 2] = "]"
        BY <1>2, <2>4, <2>5
      <3>2. rbrack \in 1 .. Len(host) + 2 /\ text[rbrack] = "]"
        BY <1>2, <2>6, <3>1
      <3>3. ASSUME rbrack \in 2 .. Len(host) + 1 PROVE FALSE
        <4>1. rbrack - 1 \in 1 .. Len(host) /\ (rbrack - 1) + 1 = rbrack
          BY <1>2, <3>3
        <4>2. all[rbrack] = host[rbrack - 1]
          BY <2>4, <4>1
        <4>3. text[rbrack] = all[rbrack]
          BY <1>2, <2>4, <2>5, <3>3
        <4> QED BY <3>2, <4>1, <4>2, <4>3
      <3>4. rbrack # 1
        BY <2>7, <3>2
      <3> QED BY <1>2, <3>2, <3>3, <3>4
    <2>9. SubSeq(text, 2, rbrack - 1) = host
      <3>1. /\ 2 \in 1 .. Len(text) /\ rbrack - 1 \in 1 .. Len(text)
            /\ Len(host) = (rbrack - 1) - 2 + 1 /\ 2 <= rbrack - 1
        BY <1>2, <2>4, <2>5, <2>8
      <3>2. ASSUME NEW i \in 1 .. Len(host) PROVE host[i] = text[2 + i - 1]
        <4>1. 2 + i - 1 = i + 1 /\ i + 1 \in 1 .. Len(all)
          BY <1>2, <2>4
        <4> QED BY <2>4, <2>5, <4>1
      <3> QED BY <2>5, <3>1, <3>2, PartIs
    <2>10. CASE p = Negotiation!CN
      <3>1. rbrack \notin {0, 2} /\ ~(rbrack < Len(text))
        BY <1>2, <2>4, <2>5, <2>8, <2>10
      <3>2. Negotiation!parse_host_port(text) =
              Negotiation!Parsed(SubSeq(text, 2, rbrack - 1), Negotiation!CN)
        BY <2>7, <3>1 DEF rbrack, Negotiation!parse_host_port, Negotiation!After
      <3> QED BY <2>9, <2>10, <3>2, Zenon DEF text
    <2>11. CASE p # Negotiation!CN
      <3>1. /\ rbrack \notin {0, 2} /\ rbrack < Len(text) /\ text[rbrack + 1] = ":"
            /\ rbrack + 1 # 0 /\ (rbrack + 1) + 1 = Len(all) + 2
        BY <1>2, <2>4, <2>5, <2>8, <2>11
      <3>2. Negotiation!parse_host_port(text) =
              Negotiation!Parsed(SubSeq(text, 2, rbrack - 1), SubSeq(text, (rbrack + 1) + 1, Len(text)))
        BY <2>7, <3>1 DEF rbrack, Negotiation!parse_host_port, Negotiation!After
      <3>3. SubSeq(text, (rbrack + 1) + 1, Len(text)) = p
        BY <2>5, <2>11, <3>1
      <3> QED BY <2>9, <3>2, <3>3, Zenon DEF text
    <2> QED BY <2>10, <2>11 DEF text
  <1> QED BY <1>4, <1>5

(* So it is for the forms the model looks at.                                 *)
LEMMA SettingsRead == Negotiation!SpecsRead
  <1> DEFINE S == {"h", "p", ":", "[", "]"}
  <1>1. {":", "[", "]"} \subseteq S
    OBVIOUS
  <1>2. ASSUME NEW host, host = <<"h">>
        PROVE  /\ host \in Seq(S) /\ host # <<>> /\ host[1] # "["
               /\ \A i \in 1 .. Len(host) : host[i] # "]"
    <2>1. host \in Seq(S) /\ Len(host) = 1 /\ host[1] = "h"
      <3>1. "h" \in S
        OBVIOUS
      <3> HIDE DEF S
      <3> QED BY ONLY <1>2, <3>1, Symbol
    <2> HIDE DEF S
    <2> QED BY <2>1
  <1>3. ASSUME NEW host, host = <<"h", ":", ":", "h">>
        PROVE  /\ host \in Seq(S) /\ host # <<>> /\ ":" \in Negotiation!Range(host)
               /\ \A i \in 1 .. Len(host) : host[i] # "]"
    <2>1. host \in [1 .. 4 -> S]
      BY <1>3
    <2>2. Len(host) = 4
      BY <1>3
    <2>3. \A i \in 1 .. Len(host) : host[i] # "]"
      <3>1. host[1] = "h" /\ host[2] = ":" /\ host[3] = ":" /\ host[4] = "h"
        BY <1>3
      <3>2. \A i \in 1 .. 4 : i = 1 \/ i = 2 \/ i = 3 \/ i = 4
        OBVIOUS
      <3> QED BY <2>2, <3>1, <3>2
    <2>4. host[2] = ":"
      BY <1>3
    <2>5. host \in Seq(S)
      <3> HIDE DEF S
      <3> QED BY ONLY <2>1, SeqDef
    <2>6. ":" \in Negotiation!Range(host)
      BY <2>1, <2>4 DEF Negotiation!Range
    <2>7. host # <<>>
      BY <2>1, <2>2
    <2> HIDE DEF S
    <2> QED BY ONLY <2>3, <2>5, <2>6, <2>7
  <1>4. ASSUME NEW p \in {Negotiation!CN, <<"p">>}
        PROVE  p \in Seq(S)
    <2>1. "p" \in S
      OBVIOUS
    <2> HIDE DEF S
    <2>2. CASE p = <<"p">>
      BY ONLY <2>1, <2>2, Symbol
    <2>3. CASE p = <<>>
      BY <2>3
    <2> QED BY <1>4, <2>2, <2>3 DEF Negotiation!CN
  <1> HIDE DEF S
  <1>5. ASSUME NEW host \in {<<"h">>, <<"h", ":", ":", "h">>}, NEW p \in {Negotiation!CN, <<"p">>}
        PROVE  Negotiation!parse_host_port(Negotiation!Written(host, p)) = Negotiation!Parsed(host, p)
    <2>1. p \in Seq(S)
      BY <1>4
    <2>2. CASE host = <<"h">>
      <3>1. /\ host \in Seq(S) /\ host # <<>> /\ host[1] # "["
            /\ \A i \in 1 .. Len(host) : host[i] # "]"
        BY <1>2, <2>2
      <3> QED BY ONLY <1>1, <2>1, <3>1, WrittenRead
    <2>3. CASE host = <<"h", ":", ":", "h">>
      <3>1. /\ host \in Seq(S) /\ host # <<>> /\ ":" \in Negotiation!Range(host)
            /\ \A i \in 1 .. Len(host) : host[i] # "]"
        BY <1>3, <2>3
      <3> QED BY ONLY <1>1, <2>1, <3>1, WrittenRead
    <2> QED BY <2>2, <2>3
  <1> QED BY <1>5 DEF Negotiation!SpecsRead


-----------------------------------------------------------------------------
(* The answer on its way. *)

(* The rest of this reply, after what was read, and the host's data after it: *)
(* all of it, or as much as came before the end.                              *)
Coming(reply) ==
    /\ reply \in IF granted THEN Negotiation!Grants(proxy_type) ELSE Negotiation!Refusals(proxy_type)
    /\ reply \in Seq(Int) /\ Len(rbuf) < Len(reply)
    /\ \A i \in 1 .. Len(rbuf) : rbuf[i] = reply[i]
    /\ \A i \in 1 .. Len(stream) :
         stream[i] = IF Len(rbuf) + i <= Len(reply) THEN reply[Len(rbuf) + i] ELSE Negotiation!Host
    /\ \/ granted /\ Len(stream) = Len(reply) - Len(rbuf) + 1
       \/ ~granted /\ Len(stream) = Len(reply) - Len(rbuf)
       \/ closed /\ Len(stream) < Len(reply) - Len(rbuf)

(* What SOCKS 5 has read of it, and how much it still expects.                *)
Counted(reply) ==
    /\ Len(rbuf) >= 1 => rbuf[1] = 5
    /\ Len(rbuf) >= 2 => rbuf[2] = 0
    /\ Len(rbuf) >= 4 => rbuf[4] \in {1, 3, 4}
    /\ n2read = IF Len(rbuf) < 4 THEN 0
                ELSE IF Len(rbuf) = 4 /\ rbuf[4] = 3 THEN -1 ELSE Len(reply) - Len(rbuf)

(* While a proxy answers it is of a type that does.                           *)
MethodRead ==
    phase = "method" =>
      /\ proxy_type \in Negotiation!Socks5 /\ n2read = 0
      /\ Len(rbuf) <= 1 /\ Len(rbuf) + Len(stream) <= 2

ReplyRead ==
    phase = "reply" =>
      \/ proxy_type \in Negotiation!Socks4 /\ n2read = 0 /\ \E reply : Coming(reply)
      \/ proxy_type \in Negotiation!Socks5 /\ \E reply : Coming(reply) /\ Counted(reply)
      \/ proxy_type = "http" /\ n2read = 0 /\ Len(rbuf) + Len(stream) <= 9

Bytes == rbuf \in Seq(Int) /\ stream \in Seq(Int) /\ Len(rbuf) <= 21

(* The type is found on the first connection, which asks for its own port.    *)
SetUp ==
    /\ spec \in Specs /\ calls \in Nat
    /\ calls = 0 => proxy_type = "unset"
    /\ calls = 1 /\ phase \in {"method", "reply", "established"} =>
         current_port = port /\ (phase # "method" => request = port)

ProxyInv ==
    /\ Negotiation!TypeOK /\ Negotiation!Established /\ Negotiation!Used
    /\ MethodRead /\ ReplyRead /\ Bytes /\ SetUp

(* A byte is taken from what has come.                                        *)
LEMMA ByteTaken ==
    ASSUME NEW s \in Seq(Int), s # <<>>
    PROVE  /\ Head(s) \in Int /\ Head(s) = s[1]
           /\ Tail(s) \in Seq(Int) /\ Len(Tail(s)) = Len(s) - 1 /\ Len(s) >= 1
           /\ \A i \in 1 .. Len(s) - 1 : Tail(s)[i] = s[i + 1]
  BY HeadTailProperties

(* ... and put behind those read.                                             *)
LEMMA ByteKept ==
    ASSUME NEW s \in Seq(Int), NEW x \in Int
    PROVE  /\ Append(s, x) \in Seq(Int) /\ Len(Append(s, x)) = Len(s) + 1
           /\ \A i \in 1 .. Len(s) : Append(s, x)[i] = s[i]
           /\ Append(s, x)[Len(s) + 1] = x
  OBVIOUS

(* The next byte is the reply's.                                              *)
LEMMA NextByte ==
    ASSUME Bytes, NEW reply, Coming(reply), stream # <<>>
    PROVE  /\ Head(stream) = reply[Len(rbuf) + 1]
           /\ Len(rbuf) + 1 = Len(reply) =>
                /\ granted => Tail(stream) = Negotiation!HostData
                /\ \A i \in 1 .. Len(reply) : Append(rbuf, Head(stream))[i] = reply[i]
  <1>1. /\ Head(stream) \in Int /\ Head(stream) = stream[1]
        /\ Tail(stream) \in Seq(Int) /\ Len(Tail(stream)) = Len(stream) - 1 /\ Len(stream) >= 1
        /\ \A i \in 1 .. Len(stream) - 1 : Tail(stream)[i] = stream[i + 1]
    BY ByteTaken DEF Bytes
  <1>2. Head(stream) = reply[Len(rbuf) + 1]
    BY <1>1 DEF Coming, Bytes
  <1>3. ASSUME Len(rbuf) + 1 = Len(reply), granted
        PROVE  Tail(stream) = Negotiation!HostData
    <2> DEFINE rest == Tail(stream)
    <2>1. Len(stream) = 2
      BY <1>1, <1>3 DEF Coming, Bytes
    <2>2. stream[2] = Negotiation!Host
      BY <1>3, <2>1 DEF Coming, Bytes
    <2>3. rest \in Seq(Int) /\ Len(rest) = 1 /\ rest[1] = Negotiation!Host
      BY <1>1, <2>1, <2>2
    <2> HIDE DEF rest
    <2>4. rest = <<rest[1]>>
      BY <2>3
    <2> QED BY <2>3, <2>4 DEF rest, Negotiation!HostData
  <1>4. ASSUME Len(rbuf) + 1 = Len(reply)
        PROVE  \A i \in 1 .. Len(reply) : Append(rbuf, Head(stream))[i] = reply[i]
    BY <1>1, <1>2, <1>4, ByteKept DEF Coming, Bytes
  <1> QED BY <1>2, <1>3, <1>4

(* After it the rest is coming.                                               *)
LEMMA ComingOn ==
    ASSUME Bytes, NEW reply, Coming(reply), stream # <<>>, stream' = Tail(stream),
           rbuf' = Append(rbuf, Head(stream)), UNCHANGED <<proxy_type, granted, closed>>,
           Len(rbuf) + 1 < Len(reply)
    PROVE  Coming(reply)'
  <1>1. /\ Head(stream) \in Int
        /\ stream' \in Seq(Int) /\ Len(stream') = Len(stream) - 1 /\ Len(stream) >= 1
        /\ \A i \in 1 .. Len(stream) - 1 : stream'[i] = stream[i + 1]
    BY ByteTaken DEF Bytes
  <1>2. /\ rbuf' \in Seq(Int) /\ Len(rbuf') = Len(rbuf) + 1
        /\ \A i \in 1 .. Len(rbuf) : rbuf'[i] = rbuf[i]
        /\ rbuf'[Len(rbuf) + 1] = reply[Len(rbuf) + 1]
    BY <1>1, ByteKept, NextByte DEF Bytes
  <1>3. \A i \in 1 .. Len(rbuf') : rbuf'[i] = reply[i]
    BY <1>2 DEF Coming, Bytes
  <1>4. \A i \in 1 .. Len(stream') :
          stream'[i] = IF Len(rbuf') + i <= Len(reply) THEN reply[Len(rbuf') + i] ELSE Negotiation!Host
    <2> TAKE i \in 1 .. Len(stream')
    <2>1. stream'[i] = stream[i + 1] /\ i + 1 \in 1 .. Len(stream)
      BY <1>1
    <2>2. stream[i + 1] = IF Len(rbuf) + (i + 1) <= Len(reply) THEN reply[Len(rbuf) + (i + 1)]
                          ELSE Negotiation!Host
      BY <2>1 DEF Coming
    <2>3. Len(rbuf) + (i + 1) = Len(rbuf') + i
      BY <1>2 DEF Bytes
    <2> QED BY <2>1, <2>2, <2>3
  <1>5. reply \in IF granted' THEN Negotiation!Grants(proxy_type') ELSE Negotiation!Refusals(proxy_type')
    BY DEF Coming
  <1>6. \/ granted' /\ Len(stream') = Len(reply) - Len(rbuf') + 1
        \/ ~granted' /\ Len(stream') = Len(reply) - Len(rbuf')
        \/ closed' /\ Len(stream') < Len(reply) - Len(rbuf')
    <2>1. Len(stream') = Len(stream) - 1 /\ Len(rbuf') = Len(rbuf) + 1
      BY <1>1, <1>2
    <2>2. Len(stream) \in Nat /\ Len(rbuf) \in Nat /\ Len(reply) \in Nat
      BY DEF Coming, Bytes
    <2>3. CASE granted /\ Len(stream) = Len(reply) - Len(rbuf) + 1
      <3>1. Len(stream') = Len(reply) - Len(rbuf') + 1
        <4>1. Len(stream) = Len(reply) - Len(rbuf) + 1
          BY <2>3
        <4> QED BY ONLY <2>1, <2>2, <4>1
      <3> QED BY <2>3, <3>1
    <2>4. CASE ~granted /\ Len(stream) = Len(reply) - Len(rbuf)
      <3>1. Len(stream') = Len(reply) - Len(rbuf')
        BY <2>1, <2>2, <2>4
      <3> QED BY <2>4, <3>1
    <2>5. CASE closed /\ Len(stream) < Len(reply) - Len(rbuf)
      <3>1. Len(stream') < Len(reply) - Len(rbuf')
        BY <2>1, <2>2, <2>5
      <3> QED BY <2>5, <3>1
    <2> QED BY <2>3, <2>4, <2>5 DEF Coming
  <1> QED BY <1>2, <1>3, <1>4, <1>5, <1>6 DEF Coming, Bytes

(* What a proxy answers a request with, as far as the connection lasts.       *)
LEMMA AnswerIs ==
    ASSUME NEW type, NEW before, before = <<>>, Negotiation!Answered(type, before),
           \A reply \in Negotiation!Grants(type) \cup Negotiation!Refusals(type) : reply \in Seq(Int)
    PROVE  /\ granted' \in BOOLEAN /\ closed' \in BOOLEAN /\ stream' \in Seq(Int)
           /\ \E reply \in IF granted' THEN Negotiation!Grants(type) ELSE Negotiation!Refusals(type) :
                /\ \A i \in 1 .. Len(stream') :
                     stream'[i] = IF i <= Len(reply) THEN reply[i] ELSE Negotiation!Host
                /\ \/ granted' /\ Len(stream') = Len(reply) + 1
                   \/ ~granted' /\ Len(stream') = Len(reply)
                   \/ closed' /\ Len(stream') < Len(reply)
  <1>0. PICK yes \in BOOLEAN :
          \E reply \in IF yes THEN Negotiation!Grants(type) ELSE Negotiation!Refusals(type) :
            /\ granted' = yes
            /\ \/ /\ stream' = before \o reply \o (IF yes THEN Negotiation!HostData ELSE <<>>)
                  /\ closed' \in {FALSE, ~yes}
               \/ /\ closed' = TRUE
                  /\ \E n \in 0 .. Len(reply) - 1 : stream' = before \o SubSeq(reply, 1, n)
    BY DEF Negotiation!Answered
  <1>1. PICK reply \in IF yes THEN Negotiation!Grants(type) ELSE Negotiation!Refusals(type) :
          /\ granted' = yes
          /\ \/ /\ stream' = before \o reply \o (IF yes THEN Negotiation!HostData ELSE <<>>)
                /\ closed' \in {FALSE, ~yes}
             \/ /\ closed' = TRUE
                /\ \E n \in 0 .. Len(reply) - 1 : stream' = before \o SubSeq(reply, 1, n)
    BY <1>0
  <1>2. reply \in Seq(Int)
    BY <1>1
  <1>3. before \o reply = reply
    BY <1>2, ConcatEmptySeq
  <1>4. CASE /\ stream' = before \o reply \o (IF yes THEN Negotiation!HostData ELSE <<>>)
             /\ closed' \in {FALSE, ~yes}
    <2>1. CASE yes
      <3> DEFINE all == reply \o Negotiation!HostData
      <3>1. stream' = all
        BY <1>3, <1>4, <2>1
      <3>2. /\ Negotiation!HostData \in Seq(Int) /\ Len(Negotiation!HostData) = 1
            /\ Negotiation!HostData[1] = Negotiation!Host
        BY DEF Negotiation!HostData, Negotiation!Host
      <3>3. /\ all \in Seq(Int) /\ Len(all) = Len(reply) + 1
            /\ \A i \in 1 .. Len(reply) + 1 :
                 all[i] = IF i <= Len(reply) THEN reply[i] ELSE Negotiation!Host
        <4>1. /\ all \in Seq(Int) /\ Len(all) = Len(reply) + Len(Negotiation!HostData)
              /\ \A i \in 1 .. Len(reply) + Len(Negotiation!HostData) :
                   all[i] = IF i <= Len(reply) THEN reply[i] ELSE Negotiation!HostData[i - Len(reply)]
          BY ONLY <1>2, <3>2, ConcatProperties
        <4> HIDE DEF all
        <4>2. \A i \in 1 .. Len(reply) + 1 : i > Len(reply) => i - Len(reply) = 1
          BY ONLY <1>2
        <4> QED BY ONLY <1>2, <3>2, <4>1, <4>2
      <3> HIDE DEF all
      <3>4. granted' = TRUE /\ closed' = FALSE
        BY <1>1, <1>4, <2>1
      <3> QED BY <1>1, <2>1, <3>1, <3>3, <3>4
    <2>2. CASE ~yes
      <3>1. stream' = reply
        BY <1>2, <1>3, <1>4, <2>2, ConcatEmptySeq
      <3>2. granted' = FALSE /\ closed' \in BOOLEAN
        BY <1>1, <1>4, <2>2
      <3> QED BY <1>1, <1>2, <2>2, <3>1, <3>2
    <2> QED BY <2>1, <2>2
  <1>5. CASE /\ closed' = TRUE
             /\ \E n \in 0 .. Len(reply) - 1 : stream' = before \o SubSeq(reply, 1, n)
    <2>1. PICK n \in 0 .. Len(reply) - 1 : stream' = before \o SubSeq(reply, 1, n)
      BY <1>5
    <2> DEFINE part == SubSeq(reply, 1, n)
    <2>2. /\ part \in Seq(Int) /\ Len(part) = n
          /\ \A i \in 1 .. n : part[i] = reply[i]
      BY <1>2
    <2> HIDE DEF part
    <2>3. stream' = part
      BY <2>1, <2>2, ConcatEmptySeq DEF part
    <2>4. granted' \in BOOLEAN
      BY <1>1
    <2>5. Len(stream') < Len(reply) /\ \A i \in 1 .. Len(stream') : i <= Len(reply)
      BY <1>2, <2>2, <2>3
    <2> QED BY <1>1, <1>5, <2>2, <2>3, <2>4, <2>5
  <1> QED BY <1>1, <1>4, <1>5

(* ... which is all to come, where it is of a kind that is counted.           *)
LEMMA SocksAnswered ==
    ASSUME NEW type \in Socks, NEW before, before = <<>>, Negotiation!Answered(type, before),
           rbuf' = <<>>, proxy_type' = type
    PROVE  /\ granted' \in BOOLEAN /\ closed' \in BOOLEAN /\ stream' \in Seq(Int)
           /\ \E reply : Coming(reply)' /\ Len(reply) >= 4
  <1>1. \A reply \in Negotiation!Grants(type) \cup Negotiation!Refusals(type) :
          reply \in Seq(Int) /\ Len(reply) >= 4
    <2>1. CASE type \in Negotiation!Socks4
      <3>1. \A reply \in Negotiation!Grants(type) : reply \in Seq(Int) /\ Len(reply) = 8
        BY <2>1, Socks4Replies
      <3>2. \A reply \in Negotiation!Refusals(type) : reply \in Seq(Int) /\ Len(reply) = 8
        BY <2>1, Socks4Replies
      <3>3. ASSUME NEW reply \in Negotiation!Grants(type) \cup Negotiation!Refusals(type)
            PROVE  reply \in Seq(Int) /\ Len(reply) >= 4
        <4>1. reply \in Seq(Int) /\ Len(reply) = 8
          BY <3>1, <3>2
        <4> QED BY ONLY <4>1
      <3> QED BY <3>3
    <2>2. CASE type \in Negotiation!Socks5
      BY <2>2, Socks5Replies
    <2> QED BY <2>1, <2>2 DEF Socks
  <1>2. /\ granted' \in BOOLEAN /\ closed' \in BOOLEAN /\ stream' \in Seq(Int)
        /\ \E reply \in IF granted' THEN Negotiation!Grants(type) ELSE Negotiation!Refusals(type) :
             /\ \A i \in 1 .. Len(stream') :
                  stream'[i] = IF i <= Len(reply) THEN reply[i] ELSE Negotiation!Host
             /\ \/ granted' /\ Len(stream') = Len(reply) + 1
                \/ ~granted' /\ Len(stream') = Len(reply)
                \/ closed' /\ Len(stream') < Len(reply)
    BY <1>1, AnswerIs
  <1>3. PICK reply \in IF granted' THEN Negotiation!Grants(type) ELSE Negotiation!Refusals(type) :
          /\ \A i \in 1 .. Len(stream') :
               stream'[i] = IF i <= Len(reply) THEN reply[i] ELSE Negotiation!Host
          /\ \/ granted' /\ Len(stream') = Len(reply) + 1
             \/ ~granted' /\ Len(stream') = Len(reply)
             \/ closed' /\ Len(stream') < Len(reply)
    BY <1>2
  <1>4. reply \in Seq(Int) /\ Len(reply) >= 4
    BY <1>1, <1>3
  <1>5. rbuf' = <<>> /\ Len(rbuf') = 0
    OBVIOUS
  <1>6. Len(stream') \in Nat /\ Len(reply) \in Nat
    BY <1>2, <1>4
  <1>7. \A i \in 1 .. Len(stream') :
          stream'[i] = IF Len(rbuf') + i <= Len(reply) THEN reply[Len(rbuf') + i] ELSE Negotiation!Host
    BY <1>3, <1>5, <1>6
  <1>8. \/ granted' /\ Len(stream') = Len(reply) - Len(rbuf') + 1
        \/ ~granted' /\ Len(stream') = Len(reply) - Len(rbuf')
        \/ closed' /\ Len(stream') < Len(reply) - Len(rbuf')
    <2>1. Len(reply) - Len(rbuf') = Len(reply)
      BY <1>5, <1>6
    <2> QED BY <1>3, <2>1
  <1>9. Coming(reply)'
    BY <1>3, <1>4, <1>5, <1>7, <1>8 DEF Coming
  <1> QED BY <1>2, <1>4, <1>9

(* ... and short, where it is not.                                            *)
LEMMA OtherAnswered ==
    ASSUME NEW type \in Negotiation!Types \ Socks, NEW before, before = <<>>,
           Negotiation!Answered(type, before)
    PROVE  /\ granted' \in BOOLEAN /\ closed' \in BOOLEAN
           /\ stream' \in Seq(Int) /\ Len(stream') <= 9
  <1>1. \A reply \in Negotiation!Grants(type) \cup Negotiation!Refusals(type) :
          reply \in Seq(Int) /\ Len(reply) <= 8
    BY OtherReplies
  <1>2. /\ granted' \in BOOLEAN /\ closed' \in BOOLEAN /\ stream' \in Seq(Int)
        /\ \E reply \in IF granted' THEN Negotiation!Grants(type) ELSE Negotiation!Refusals(type) :
             \/ granted' /\ Len(stream') = Len(reply) + 1
             \/ ~granted' /\ Len(stream') = Len(reply)
             \/ closed' /\ Len(stream') < Len(reply)
    BY <1>1, AnswerIs
  <1>3. PICK reply \in IF granted' THEN Negotiation!Grants(type) ELSE Negotiation!Refusals(type) :
          \/ granted' /\ Len(stream') = Len(reply) + 1
          \/ ~granted' /\ Len(stream') = Len(reply)
          \/ closed' /\ Len(stream') < Len(reply)
    BY <1>2
  <1>4. \/ Len(stream') = Len(reply) + 1
        \/ Len(stream') = Len(reply)
        \/ Len(stream') < Len(reply)
    BY <1>3
  <1>5. Len(reply) \in Nat /\ Len(reply) <= 8 /\ Len(stream') \in Nat
    BY <1>1, <1>2, <1>3
  <1>6. Len(stream') <= 9
    BY ONLY <1>4, <1>5
  <1> QED BY <1>2, <1>6

(* The request is sent, and answered, or not.                                 *)
LEMMA SentAnswered ==
    ASSUME NEW type \in Negotiation!Types, NEW before, before = <<>>, NEW next,
           Negotiation!Sent(type, before, next), rbuf' = <<>>, proxy_type' = type
    PROVE  \/ phase' = "failed" /\ UNCHANGED <<request, stream, closed, granted>>
           \/ /\ phase' = next /\ request' = current_port'
              /\ granted' \in BOOLEAN /\ closed' \in BOOLEAN /\ stream' \in Seq(Int)
              /\ type \in Socks => \E reply : Coming(reply)' /\ Len(reply) >= 4
              /\ type \notin Socks => Len(stream') <= 9
  <1>1. CASE phase' = "failed" /\ UNCHANGED <<request, stream, closed, granted>>
    BY <1>1
  <1>2. CASE Negotiation!Answered(type, before) /\ request' = current_port' /\ phase' = next
    <2>1. CASE type \in Socks
      <3>1. /\ granted' \in BOOLEAN /\ closed' \in BOOLEAN /\ stream' \in Seq(Int)
            /\ \E reply : Coming(reply)' /\ Len(reply) >= 4
        BY <1>2, <2>1, SocksAnswered
      <3> QED BY <1>2, <2>1, <3>1
    <2>2. CASE type \notin Socks
      <3>1. /\ granted' \in BOOLEAN /\ closed' \in BOOLEAN
            /\ stream' \in Seq(Int) /\ Len(stream') <= 9
        BY <1>2, <2>2, OtherAnswered
      <3> QED BY <1>2, <2>2, <3>1
    <2> QED BY <2>1, <2>2
  <1> QED BY <1>1, <1>2 DEF Negotiation!Sent

(* Nothing of the answer is read at first.                                    *)
LEMMA ReplyBegins ==
    ASSUME proxy_type' \in Socks \cup {"http"}, rbuf' = <<>>, n2read' = 0, stream' \in Seq(Int),
           proxy_type' \in Socks => \E reply : Coming(reply)' /\ Len(reply) >= 4,
           proxy_type' \notin Socks => Len(stream') <= 9
    PROVE  ReplyRead'
  <1>1. Len(rbuf') = 0
    OBVIOUS
  <1>2. CASE proxy_type' \in Negotiation!Socks4
    BY <1>2 DEF ReplyRead, Socks
  <1>3. CASE proxy_type' \in Negotiation!Socks5
    <2>1. PICK reply : Coming(reply)'
      BY <1>3 DEF Socks
    <2>2. Counted(reply)'
      BY <1>1 DEF Counted
    <2> QED BY <1>3, <2>1, <2>2 DEF ReplyRead
  <1>4. CASE proxy_type' = "http" /\ proxy_type' \notin Socks
    <2>1. Len(rbuf') + Len(stream') <= 9
      BY <1>1, <1>4
    <2> QED BY <1>4, <2>1 DEF ReplyRead
  <1> QED BY <1>2, <1>3, <1>4 DEF Socks

-----------------------------------------------------------------------------
(* The steps. *)

(* What every connection leaves of the resource.                              *)
LEMMA SettingKept ==
    ASSUME ServicesAssumption, ProxyInv, Negotiation!net_connect
    PROVE  /\ spec' = spec /\ rbuf' = <<>> /\ n2read' = 0 /\ calls' = calls + 1
           /\ proxy_type' \in Negotiation!Types \cup {"unset", "invalid"}
           /\ current_port' \in Ports \cup {"unset"}
           /\ proxy_type' \in Negotiation!Types /\ spec # Negotiation!CN =>
                proxy_type' = spec[1] /\ (Len(spec) > 2 => proxy_host' # Negotiation!CN)
           /\ proxy_type' \in Negotiation!Types /\ calls = 0 /\ phase' # "failed" => current_port' = port'
           /\ \/ Negotiation!Fails
              \/ proxy_type' \in Negotiation!Types /\ Negotiation!Negotiates(proxy_type')
              \/ /\ proxy_type' \notin Negotiation!Types /\ ~Negotiation!FirstTime
                 /\ phase' = "direct" /\ granted' = TRUE /\ stream' = Negotiation!HostData
                 /\ closed' = FALSE
  <1> DEFINE setup == IF Negotiation!FirstTime THEN Negotiation!proxy_setup
                      ELSE [type |-> proxy_type, host |-> proxy_host, port |-> proxy_portname]
  <1>1. PICK asked \in Ports :
          /\ port' = asked
          /\ proxy_type' = setup.type /\ proxy_host' = setup.host
          /\ current_port' = IF Negotiation!FirstTime /\ setup.type \in Negotiation!Types /\ asked # "none" THEN asked
                             ELSE IF ~Negotiation!FirstTime /\ setup.type \notin Negotiation!Types THEN asked
                             ELSE current_port
          /\ IF Negotiation!FirstTime /\ (setup.type \notin Negotiation!Types \/ asked = "none") THEN Negotiation!Fails
             ELSE IF setup.type \in Negotiation!Types THEN Negotiation!Negotiates(setup.type) \/ Negotiation!Fails
             ELSE /\ phase' = "direct" /\ granted' = TRUE /\ stream' = Negotiation!HostData
                  /\ closed' = FALSE /\ request' = asked
    BY DEF Negotiation!net_connect
  <1>2. spec' = spec /\ rbuf' = <<>> /\ n2read' = 0 /\ calls' = calls + 1
    BY DEF Negotiation!net_connect
  <1>3. spec \in Seq(STRING)
    BY DEF ServicesAssumption, SpecsAssumption, ProxyInv, SetUp
  <1>4. /\ proxy_type' \in Negotiation!Types \cup {"unset", "invalid"}
        /\ proxy_type' \in Negotiation!Types /\ spec # Negotiation!CN =>
             proxy_type' = spec[1] /\ (Len(spec) > 2 => proxy_host' # Negotiation!CN)
    <2>1. CASE Negotiation!FirstTime
      <3>1. setup = Negotiation!proxy_setup
        BY <2>1
      <3> HIDE DEF setup
      <3>2. /\ setup.type \in Negotiation!Types \cup {"invalid"}
            /\ setup.type \in Negotiation!Types =>
                 setup.type = spec[1] /\ (Len(spec) > 2 => setup.host # Negotiation!CN)
        BY <1>3, <3>1, SettingRead
      <3> QED BY <1>1, <3>2
    <2>2. CASE ~Negotiation!FirstTime
      <3>1. proxy_type' = proxy_type /\ proxy_host' = proxy_host
        BY <1>1, <2>2
      <3> QED BY <3>1 DEF ProxyInv, Negotiation!TypeOK, Negotiation!Used
    <2> QED BY <2>1, <2>2
  <1>5. proxy_type' \in Negotiation!Types /\ calls = 0 /\ phase' # "failed" => current_port' = port'
    <2> SUFFICES ASSUME proxy_type' \in Negotiation!Types, calls = 0, phase' # "failed"
                 PROVE  current_port' = port'
      OBVIOUS
    <2>1. Negotiation!FirstTime
      <3>1. ~Negotiation!FirstTime => proxy_type' = proxy_type
        BY <1>1
      <3>2. proxy_type = "unset"
        BY DEF ProxyInv, SetUp
      <3> QED BY <3>1, <3>2 DEF Negotiation!Types
    <2> HIDE DEF setup
    <2>2. asked # "none"
      BY <1>1, <2>1 DEF Negotiation!Fails
    <2> QED BY <1>1, <2>1, <2>2
  <1> HIDE DEF setup
  <1>6. current_port' \in Ports \cup {"unset"}
    BY <1>1 DEF ProxyInv, Negotiation!TypeOK
  <1>7. \/ Negotiation!Fails
        \/ proxy_type' \in Negotiation!Types /\ Negotiation!Negotiates(proxy_type')
        \/ /\ proxy_type' \notin Negotiation!Types /\ ~Negotiation!FirstTime
           /\ phase' = "direct" /\ granted' = TRUE /\ stream' = Negotiation!HostData
           /\ closed' = FALSE
    <2>1. CASE Negotiation!FirstTime /\ (setup.type \notin Negotiation!Types \/ asked = "none")
      BY <1>1, <2>1
    <2>2. CASE /\ ~(Negotiation!FirstTime /\ (setup.type \notin Negotiation!Types \/ asked = "none"))
               /\ setup.type \in Negotiation!Types
      <3>1. Negotiation!Negotiates(setup.type) \/ Negotiation!Fails
        BY <1>1, <2>2
      <3>2. Negotiation!Negotiates(setup.type) => Negotiation!Negotiates(proxy_type')
        BY <1>1 DEF Negotiation!Negotiates
      <3> QED BY <1>1, <2>2, <3>1, <3>2
    <2>3. CASE /\ ~(Negotiation!FirstTime /\ (setup.type \notin Negotiation!Types \/ asked = "none"))
               /\ setup.type \notin Negotiation!Types
      BY <1>1, <2>3
    <2> QED BY <2>1, <2>2, <2>3
  <1> QED BY <1>2, <1>4, <1>5, <1>6, <1>7

(* A connection that fails at once.                                           *)
LEMMA ProxyUnasked ==
    ASSUME ServicesAssumption, ProxyInv, Negotiation!net_connect, Negotiation!Fails
    PROVE  ProxyInv'
  <1> USE SettingKept DEF Negotiation!Fails
  <1>1. Len(rbuf') = 0 /\ calls' \in Nat /\ calls' # 0
    BY DEF ProxyInv, SetUp
  <1>2. Negotiation!TypeOK'
    BY <1>1 DEF ProxyInv, Negotiation!TypeOK
  <1>3. Negotiation!Established' /\ Negotiation!Used'
    BY DEF ProxyInv, Negotiation!Established, Negotiation!Used
  <1>4. MethodRead' /\ ReplyRead'
    BY DEF MethodRead, ReplyRead
  <1>5. Bytes'
    BY <1>1 DEF ProxyInv, Bytes
  <1>6. SetUp'
    BY <1>1 DEF ProxyInv, SetUp
  <1> QED BY <1>2, <1>3, <1>4, <1>5, <1>6 DEF ProxyInv

(* What holds of a connection that is made.                                   *)
LEMMA ConnectBegins ==
    ASSUME ServicesAssumption, ProxyInv, Negotiation!net_connect,
           phase' \in {"method", "reply", "established", "direct"},
           granted' \in BOOLEAN, closed' \in BOOLEAN, stream' \in Seq(Int),
           Negotiation!Established', MethodRead', ReplyRead',
           phase' = "direct" => proxy_type' \notin Negotiation!Types /\ ~Negotiation!FirstTime,
           phase' # "direct" => proxy_type' \in Negotiation!Types,
           phase' \in {"reply", "established"} => request' = current_port'
    PROVE  ProxyInv'
  <1> USE SettingKept
  <1>1. Len(rbuf') = 0 /\ calls \in Nat /\ calls' \in Nat /\ calls' # 0 /\ (calls' = 1 => calls = 0)
    <2>1. calls \in Nat /\ calls' = calls + 1 /\ rbuf' = <<>>
      BY DEF ProxyInv, SetUp
    <2> QED BY ONLY <2>1
  <1>2. Negotiation!TypeOK'
    <2>1. n2read' \in -1 .. 257 /\ Len(rbuf') <= 22
      BY <1>1
    <2> QED BY <2>1 DEF Negotiation!TypeOK
  <1>3. phase' \in {"method", "reply", "established"} /\ calls' = 1 =>
          current_port' = port' /\ (phase' # "method" => request' = port')
    BY <1>1
  <1>4. Negotiation!Used'
    <2>1. phase' = "direct" => spec' = Negotiation!CN \/ (proxy_type' = "invalid" /\ calls' > 1)
      <3> SUFFICES ASSUME phase' = "direct", spec # Negotiation!CN
                   PROVE  proxy_type' = "invalid" /\ calls' > 1
        OBVIOUS
      <3>1. proxy_type # "unset"
        BY DEF Negotiation!FirstTime
      <3>2. calls # 0
        BY <3>1 DEF ProxyInv, SetUp
      <3>3. proxy_type' = proxy_type
        BY <3>1 DEF Negotiation!net_connect, Negotiation!FirstTime
      <3>4. calls' > 1
        BY <1>1, <3>2
      <3> QED BY <3>1, <3>3, <3>4
    <2> QED BY <1>3, <2>1 DEF Negotiation!Used
  <1>5. Bytes'
    BY <1>1 DEF Bytes
  <1>6. SetUp'
    BY <1>1, <1>3 DEF ProxyInv, SetUp
  <1> QED BY <1>2, <1>4, <1>5, <1>6 DEF ProxyInv

(* A new connection, however it goes.                                         *)
LEMMA ConnectKeeps ==
    ASSUME ServicesAssumption, ProxyInv, Negotiation!net_connect
    PROVE  ProxyInv'
  <1>1. CASE Negotiation!Fails
    BY <1>1, ProxyUnasked
  <1>2. CASE /\ proxy_type' \notin Negotiation!Types /\ ~Negotiation!FirstTime
             /\ phase' = "direct" /\ granted' = TRUE /\ stream' = Negotiation!HostData
             /\ closed' = FALSE
    <2>1. stream' \in Seq(Int)
      BY <1>2 DEF Negotiation!HostData, Negotiation!Host
    <2>2. Negotiation!Established' /\ MethodRead' /\ ReplyRead'
      BY <1>2 DEF Negotiation!Established, MethodRead, ReplyRead
    <2> QED BY <1>2, <2>1, <2>2, ConnectBegins
  <1>3. CASE ~Negotiation!Fails /\ proxy_type' \in Negotiation!Types /\ Negotiation!Asked(proxy_type')
    <2> DEFINE type == proxy_type'
    <2>0. rbuf' = <<>> /\ n2read' = 0 /\ Len(rbuf') = 0
      BY SettingKept
    <2>1. CASE type \in Negotiation!Socks4 \cup {"http"}
      <3>1. Negotiation!Sent(type, <<>>, "reply")
        BY <1>3, <2>1 DEF Negotiation!Asked, Negotiation!Socks4, Negotiation!Socks5
      <3>2. /\ phase' = "reply" /\ request' = current_port'
            /\ granted' \in BOOLEAN /\ closed' \in BOOLEAN /\ stream' \in Seq(Int)
            /\ type \in Socks => \E reply : Coming(reply)' /\ Len(reply) >= 4
            /\ type \notin Socks => Len(stream') <= 9
        BY <1>3, <2>0, <3>1, SentAnswered DEF Negotiation!Fails
      <3>3. ReplyRead'
        BY <2>0, <2>1, <3>2, ReplyBegins DEF Socks
      <3>4. Negotiation!Established' /\ MethodRead'
        BY <3>2 DEF Negotiation!Established, MethodRead
      <3> QED BY <1>3, <3>2, <3>3, <3>4, ConnectBegins
    <2>2. CASE type \in Negotiation!Socks5
      <3>1. PICK method \in {<<5, 0>>, <<5, 255>>, <<5, 1>>, <<4, 0>>, <<5>>} :
              /\ stream' = method /\ closed' = (Len(method) < 2) /\ granted' = FALSE
              /\ phase' = "method"
        BY <1>3, <2>2 DEF Negotiation!Asked, Negotiation!Socks4, Negotiation!Socks5,
           Negotiation!Fails
      <3>2. method \in Seq(Int) /\ Len(method) <= 2
        <4>1. CASE method = <<5>>
          BY <4>1
        <4>2. ASSUME NEW x \in Int, NEW y \in Int, method = <<x, y>>
              PROVE  method \in Seq(Int) /\ Len(method) <= 2
          BY <4>2
        <4> QED BY <4>1, <4>2
      <3>3. closed' \in BOOLEAN
        BY <3>1
      <3>4. MethodRead'
        BY <2>0, <2>2, <3>1, <3>2 DEF MethodRead
      <3>5. Negotiation!Established' /\ ReplyRead'
        BY <3>1 DEF Negotiation!Established, ReplyRead
      <3> QED BY <1>3, <3>1, <3>2, <3>3, <3>4, <3>5, ConnectBegins
    <2>3. CASE type \notin Socks \cup {"http"}
      <3>1. Negotiation!Sent(type, <<>>, "established")
        BY <1>3, <2>3 DEF Negotiation!Asked, Socks
      <3>2. /\ phase' = "established" /\ request' = current_port'
            /\ granted' \in BOOLEAN /\ closed' \in BOOLEAN /\ stream' \in Seq(Int)
        BY <1>3, <2>0, <3>1, SentAnswered DEF Negotiation!Fails
      <3>3. Negotiation!Established' /\ MethodRead' /\ ReplyRead'
        BY <2>3, <3>2 DEF Negotiation!Established, MethodRead, ReplyRead, Socks
      <3> QED BY <1>3, <3>2, <3>3, ConnectBegins
    <2> QED BY <2>1, <2>2, <2>3 DEF Socks
  <1> QED BY <1>1, <1>2, <1>3, SettingKept DEF Negotiation!Negotiates

(* The negotiation ends.                                                      *)
LEMMA FinishKeeps ==
    ASSUME ProxyInv, UNCHANGED <<Negotiation!statics, closed>>, stream' \in Seq(Int),
           NEW result \in {"established", "failed"}, Negotiation!Finish(result),
           result = "established" =>
             /\ phase = "reply"
             /\ proxy_type \in Socks =>
                  \/ granted /\ stream' = Negotiation!HostData
                  \/ closed /\ stream' = <<>> /\ proxy_type \in Negotiation!Socks4
    PROVE  ProxyInv'
  <1> USE DEF Negotiation!statics, Negotiation!Finish
  <1>1. Negotiation!TypeOK'
    BY DEF ProxyInv, Negotiation!TypeOK
  <1>2. Negotiation!Established'
    BY DEF ProxyInv, Negotiation!Established, Socks
  <1>3. Negotiation!Used'
    BY DEF ProxyInv, Negotiation!Used, SetUp
  <1>4. MethodRead' /\ ReplyRead'
    BY DEF MethodRead, ReplyRead
  <1>5. Bytes' /\ SetUp'
    BY DEF ProxyInv, Bytes, SetUp
  <1> QED BY <1>1, <1>2, <1>3, <1>4, <1>5 DEF ProxyInv

(* It goes on with the next byte.                                             *)
LEMMA ReadKeeps ==
    ASSUME ProxyInv, UNCHANGED <<Negotiation!statics, closed>>,
           NEW n \in -1 .. 257, Negotiation!ReadMore(n), stream # <<>>, stream' = Tail(stream),
           phase \in {"method", "reply"}, Len(rbuf) <= 20, MethodRead', ReplyRead'
    PROVE  ProxyInv'
  <1> USE DEF Negotiation!statics, Negotiation!ReadMore
  <1>1. rbuf' \in Seq(Int) /\ Len(rbuf') = Len(rbuf) + 1 /\ stream' \in Seq(Int) /\ Len(rbuf) \in Nat
    BY ByteTaken, ByteKept DEF ProxyInv, Bytes
  <1>2. Negotiation!TypeOK'
    BY <1>1 DEF ProxyInv, Negotiation!TypeOK
  <1>3. Negotiation!Established' /\ Negotiation!Used'
    BY DEF ProxyInv, Negotiation!Established, Negotiation!Used
  <1>4. Bytes'
    BY <1>1 DEF Bytes
  <1>5. SetUp'
    BY DEF ProxyInv, SetUp
  <1> QED BY <1>2, <1>3, <1>4, <1>5 DEF ProxyInv

(* A byte of the reply of SOCKS 4.                                            *)
LEMMA Socks4ByteKeeps ==
    ASSUME ProxyInv, phase = "reply", stream # <<>>, stream' = Tail(stream),
           UNCHANGED <<Negotiation!statics, closed>>,
           proxy_type \in Negotiation!Socks4, Negotiation!socks4_byte(Head(stream))
    PROVE  ProxyInv'
  <1>0. proxy_type \notin Negotiation!Socks5 /\ proxy_type # "http" /\ Bytes /\ granted \in BOOLEAN
    BY DEF Negotiation!Socks4, Negotiation!Socks5, ProxyInv, Negotiation!TypeOK
  <1>1. n2read = 0 /\ \E reply : Coming(reply)
    BY <1>0 DEF ProxyInv, ReplyRead
  <1>2. PICK reply : Coming(reply)
    BY <1>1
  <1>3. Len(reply) = 8 /\ (granted <=> reply[2] = 90)
    BY <1>0, <1>2, Socks4Replies DEF Coming
  <1>4. Head(stream) \in Int /\ stream' \in Seq(Int)
    BY <1>0, ByteTaken DEF Bytes
  <1>5. CASE Len(rbuf) + 1 = 8
    <2> DEFINE line == Append(rbuf, Head(stream))
    <2>1. line[2] = reply[2] /\ (granted => stream' = Negotiation!HostData)
      <3>1. Len(rbuf) + 1 = Len(reply) /\ 2 \in 1 .. Len(reply)
        BY <1>3, <1>5
      <3>2. granted => Tail(stream) = Negotiation!HostData
        BY <1>0, <1>2, <3>1, NextByte
      <3>3. \A i \in 1 .. Len(reply) : line[i] = reply[i]
        BY <1>0, <1>2, <3>1, NextByte
      <3> HIDE DEF line
      <3> QED BY <3>1, <3>2, <3>3
    <2>2. Negotiation!socks4_status(line)
      BY <1>5 DEF Negotiation!socks4_byte
    <2> HIDE DEF line
    <2>3. CASE line[2] = 90
      <3>1. Negotiation!Finish("established") /\ granted
        BY <1>3, <2>1, <2>2, <2>3 DEF Negotiation!socks4_status
      <3> QED BY <1>4, <2>1, <3>1, FinishKeeps
    <2>4. CASE line[2] # 90
      BY <1>4, <2>2, <2>4, FinishKeeps DEF Negotiation!socks4_status
    <2> QED BY <2>3, <2>4
  <1>6. CASE Len(rbuf) + 1 # 8
    <2>1. Negotiation!ReadMore(0)
      BY <1>6 DEF Negotiation!socks4_byte
    <2>2. Len(rbuf) \in Nat /\ Len(rbuf) + 1 < Len(reply)
      BY <1>0, <1>2, <1>3, <1>6 DEF Coming, Bytes
    <2>3. Coming(reply)'
      BY <1>0, <1>2, <2>1, <2>2, ComingOn DEF Negotiation!ReadMore, Negotiation!statics
    <2>4. ReplyRead' /\ MethodRead'
      BY <2>1, <2>3 DEF Negotiation!ReadMore, Negotiation!statics, ReplyRead, MethodRead
    <2>5. Len(rbuf) <= 20
      BY <1>3, <2>2
    <2> QED BY <2>1, <2>4, <2>5, ReadKeeps
  <1> QED BY <1>5, <1>6

(* A byte that is not the last, as it should be, and the number expected after *)
(* it.                                                                        *)
Expected(reply, n) ==
    /\ Len(rbuf) + 1 < Len(reply) /\ Len(reply) <= 22
    /\ Len(rbuf) = 0 => reply[1] = 5
    /\ Len(rbuf) = 1 => reply[2] = 0
    /\ Len(rbuf) = 3 => reply[4] \in {1, 3, 4}
    /\ n = IF Len(rbuf) < 3 THEN 0
           ELSE IF Len(rbuf) = 3 /\ reply[4] = 3 THEN -1 ELSE Len(reply) - Len(rbuf) - 1

(* A byte of the reply of SOCKS 5 that is not the last.                       *)
LEMMA Socks5MoreKeeps ==
    ASSUME ProxyInv, phase = "reply", stream # <<>>, stream' = Tail(stream),
           UNCHANGED <<Negotiation!statics, closed>>,
           proxy_type \in Negotiation!Socks5, NEW reply, Coming(reply), Counted(reply),
           NEW n \in -1 .. 257, Negotiation!ReadMore(n), Expected(reply, n)
    PROVE  ProxyInv'
  <1>0. /\ Bytes
        /\ Len(rbuf) + 1 < Len(reply) /\ Len(reply) <= 22
        /\ Len(rbuf) = 0 => reply[1] = 5
        /\ Len(rbuf) = 1 => reply[2] = 0
        /\ Len(rbuf) = 3 => reply[4] \in {1, 3, 4}
        /\ n = IF Len(rbuf) < 3 THEN 0
               ELSE IF Len(rbuf) = 3 /\ reply[4] = 3 THEN -1 ELSE Len(reply) - Len(rbuf) - 1
    BY Zenon DEF ProxyInv, Expected
  <1>1. Coming(reply)'
    BY <1>0, ComingOn DEF Negotiation!ReadMore, Negotiation!statics
  <1>2. /\ Len(rbuf') = Len(rbuf) + 1 /\ Len(rbuf) \in Nat
        /\ \A i \in 1 .. Len(rbuf) : rbuf'[i] = rbuf[i]
        /\ rbuf'[Len(rbuf) + 1] = reply[Len(rbuf) + 1]
    BY <1>0, ByteTaken, ByteKept, NextByte DEF Negotiation!ReadMore, Bytes
  <1>3. /\ Len(rbuf') >= 1 => rbuf'[1] = 5
        /\ Len(rbuf') >= 2 => rbuf'[2] = 0
        /\ Len(rbuf') >= 4 => rbuf'[4] \in {1, 3, 4}
    <2>1. CASE Len(rbuf) = 0
      BY <1>0, <1>2, <2>1
    <2>2. CASE Len(rbuf) = 1
      BY <1>0, <1>2, <2>2 DEF Counted
    <2>3. CASE Len(rbuf) = 2
      BY <1>2, <2>3 DEF Counted
    <2>4. CASE Len(rbuf) = 3
      BY <1>0, <1>2, <2>4 DEF Counted
    <2>5. CASE Len(rbuf) >= 4
      BY <1>2, <2>5 DEF Counted
    <2>6. \/ Len(rbuf) = 0 \/ Len(rbuf) = 1 \/ Len(rbuf) = 2 \/ Len(rbuf) = 3 \/ Len(rbuf) >= 4
      <3>1. \A k \in Nat : k = 0 \/ k = 1 \/ k = 2 \/ k = 3 \/ k >= 4
        OBVIOUS
      <3> QED BY ONLY <1>2, <3>1, Zenon
    <2> QED BY ONLY <2>1, <2>2, <2>3, <2>4, <2>5, <2>6, Zenon
  <1>4. n2read' = IF Len(rbuf') < 4 THEN 0
                  ELSE IF Len(rbuf') = 4 /\ rbuf'[4] = 3 THEN -1 ELSE Len(reply) - Len(rbuf')
    <2>1. Len(reply) \in Nat /\ n2read' = n
      BY DEF Coming, Negotiation!ReadMore
    <2>2. CASE Len(rbuf) < 3
      BY <1>0, <1>2, <2>1, <2>2
    <2>3. CASE Len(rbuf) = 3
      <3>1. rbuf'[4] = reply[4] /\ Len(rbuf') = 4
        BY <1>2, <2>3
      <3> QED BY <1>0, <2>1, <2>3, <3>1
    <2>4. CASE Len(rbuf) > 3
      BY <1>0, <1>2, <2>1, <2>4
    <2>5. Len(rbuf) < 3 \/ Len(rbuf) = 3 \/ Len(rbuf) > 3
      <3>1. \A k \in Nat : k < 3 \/ k = 3 \/ k > 3
        OBVIOUS
      <3> QED BY ONLY <1>2, <3>1, Zenon
    <2> QED BY ONLY <2>2, <2>3, <2>4, <2>5, Zenon
  <1>5. Counted(reply)'
    BY <1>3, <1>4 DEF Counted
  <1>6. ReplyRead' /\ MethodRead'
    BY <1>1, <1>5 DEF Negotiation!ReadMore, Negotiation!statics, ReplyRead, MethodRead
  <1>7. Len(rbuf) <= 20
    BY <1>0, <1>2 DEF Coming
  <1> QED BY <1>6, <1>7, ReadKeeps

(* What a reply of SOCKS 5 is once its address has begun.                     *)
LEMMA GrantedReply ==
    ASSUME proxy_type \in Negotiation!Socks5, NEW reply, Coming(reply),
           reply[1] = 5, reply[2] = 0, reply[4] \in {1, 3, 4}
    PROVE  /\ granted /\ Len(reply) \in 7 .. 22
           /\ \/ reply[4] = 1 /\ Len(reply) = 10
              \/ reply[4] = 3 /\ Len(reply) = 7 + reply[5] /\ reply[5] \in 0 .. 2
              \/ reply[4] = 4 /\ Len(reply) = 22
  <1>1. granted
    <2>1. ~granted => reply \in Negotiation!Refusals(proxy_type)
      BY DEF Coming
    <2>2. reply \notin Negotiation!Refusals(proxy_type)
      BY Socks5Replies
    <2> QED BY <2>1, <2>2
  <1>2. reply \in Negotiation!Grants(proxy_type)
    BY <1>1 DEF Coming
  <1> QED BY <1>1, <1>2, Socks5Replies

(* A byte of the reply of SOCKS 5.                                            *)
LEMMA Socks5ByteKeeps ==
    ASSUME ProxyInv, phase = "reply", stream # <<>>, stream' = Tail(stream),
           UNCHANGED <<Negotiation!statics, closed>>,
           proxy_type \in Negotiation!Socks5, Negotiation!socks5_byte(Head(stream))
    PROVE  ProxyInv'
  <1>0. proxy_type \notin Negotiation!Socks4 /\ proxy_type # "http" /\ Bytes /\ granted \in BOOLEAN
    BY DEF Negotiation!Socks4, Negotiation!Socks5, ProxyInv, Negotiation!TypeOK
  <1>1. PICK reply : Coming(reply) /\ Counted(reply)
    BY <1>0 DEF ProxyInv, ReplyRead
  <1>2. PICK total \in 4 .. 22 : total = Len(reply) /\ reply \in Seq(Int)
    <2>1. \A x \in Negotiation!Grants(proxy_type) : x \in Seq(Int) /\ Len(x) \in 7 .. 22
      BY Socks5Replies
    <2>2. \A x \in Negotiation!Refusals(proxy_type) : x \in Seq(Int) /\ Len(x) \in 4 .. 10
      BY Socks5Replies
    <2>3. reply \in Negotiation!Grants(proxy_type) \/ reply \in Negotiation!Refusals(proxy_type)
      BY <1>1 DEF Coming
    <2>4. reply \in Seq(Int) /\ (Len(reply) \in 7 .. 22 \/ Len(reply) \in 4 .. 10)
      BY <2>1, <2>2, <2>3
    <2> QED BY ONLY <2>4
  <1>20. total \in Nat /\ total >= 4 /\ total <= 22
    <2>1. \A k \in 4 .. 22 : k \in Nat /\ k >= 4 /\ k <= 22
      OBVIOUS
    <2> QED BY ONLY <1>2, <2>1, Zenon
  <1>3. PICK nread \in Nat : nread = Len(rbuf)
    BY <1>0 DEF Bytes
  <1>4. PICK r \in Int : r = Head(stream)
    BY <1>0, ByteTaken DEF Bytes
  <1>5. /\ stream' \in Seq(Int) /\ r = reply[nread + 1] /\ nread < total
        /\ \A i \in 1 .. nread : reply[i] = rbuf[i]
    <2>1. stream' \in Seq(Int)
      BY <1>0, ByteTaken DEF Bytes
    <2>2. Head(stream) = reply[Len(rbuf) + 1]
      BY <1>0, <1>1, NextByte
    <2>3. Len(rbuf) < Len(reply) /\ \A i \in 1 .. Len(rbuf) : reply[i] = rbuf[i]
      BY <1>1 DEF Coming
    <2> QED BY <1>2, <1>3, <1>4, <2>1, <2>2, <2>3, Zenon
  <1>6. /\ nread >= 1 => reply[1] = 5
        /\ nread >= 2 => reply[2] = 0
        /\ nread >= 4 => reply[4] \in {1, 3, 4}
        /\ n2read = IF nread < 4 THEN 0
                    ELSE IF nread = 4 /\ reply[4] = 3 THEN -1 ELSE total - nread
    <2>1. /\ nread >= 1 => rbuf[1] = 5
          /\ nread >= 2 => rbuf[2] = 0
          /\ nread >= 4 => rbuf[4] \in {1, 3, 4}
          /\ n2read = IF nread < 4 THEN 0
                      ELSE IF nread = 4 /\ rbuf[4] = 3 THEN -1 ELSE total - nread
      BY <1>1, <1>2, <1>3, Zenon DEF Counted
    <2> QED BY <1>5, <2>1
  <1>7. ASSUME reply[1] = 5, reply[2] = 0, reply[4] \in {1, 3, 4}
        PROVE  /\ granted /\ total >= 7
               /\ \/ reply[4] = 1 /\ total = 10
                  \/ reply[4] = 3 /\ total = 7 + reply[5] /\ reply[5] \in 0 .. 2
                  \/ reply[4] = 4 /\ total = 22
    <2>1. /\ granted /\ Len(reply) \in 7 .. 22
          /\ \/ reply[4] = 1 /\ Len(reply) = 10
             \/ reply[4] = 3 /\ Len(reply) = 7 + reply[5] /\ reply[5] \in 0 .. 2
             \/ reply[4] = 4 /\ Len(reply) = 22
      BY <1>1, <1>7, GrantedReply
    <2>2. /\ granted /\ total \in 7 .. 22
          /\ \/ reply[4] = 1 /\ total = 10
             \/ reply[4] = 3 /\ total = 7 + reply[5] /\ reply[5] \in 0 .. 2
             \/ reply[4] = 4 /\ total = 22
      BY <1>2, <2>1, Zenon
    <2> QED BY ONLY <2>2
  <1>8. ASSUME Negotiation!Finish("failed") PROVE ProxyInv'
    BY <1>5, <1>8, FinishKeeps
  <1>9. ASSUME NEW n \in -1 .. 257, Negotiation!ReadMore(n), nread + 1 < total,
               nread = 0 => reply[1] = 5,
               nread = 1 => reply[2] = 0,
               nread = 3 => reply[4] \in {1, 3, 4},
               n = IF nread < 3 THEN 0
                   ELSE IF nread = 3 /\ reply[4] = 3 THEN -1 ELSE total - nread - 1
        PROVE  ProxyInv'
    <2>1. total = Len(reply) /\ nread = Len(rbuf)
      BY <1>2, <1>3, Zenon
    <2>2. Expected(reply, n)
      BY ONLY <1>9, <1>20, <2>1, Zenon DEF Expected
    <2> QED BY <1>1, <1>9, <2>2, Socks5MoreKeeps
  <1>10. CASE nread = 0
    <2>1. IF r = 5 THEN Negotiation!ReadMore(0) ELSE Negotiation!Finish("failed")
      BY <1>3, <1>4, <1>10 DEF Negotiation!socks5_byte
    <2>2. CASE r = 5
      <3>1. Negotiation!ReadMore(0) /\ reply[1] = 5 /\ nread + 1 < total /\ 0 \in -1 .. 257
        BY <1>5, <1>10, <1>20, <2>1, <2>2
      <3> QED BY <1>9, <1>10, <3>1
    <2>3. CASE r # 5
      BY <1>8, <2>1, <2>3
    <2> QED BY <2>2, <2>3
  <1>11. CASE nread = 1
    <2>1. IF r = 0 THEN Negotiation!ReadMore(0) ELSE Negotiation!Finish("failed")
      BY <1>3, <1>4, <1>11 DEF Negotiation!socks5_byte
    <2>2. CASE r = 0
      <3>1. Negotiation!ReadMore(0) /\ reply[2] = 0 /\ nread + 1 < total /\ 0 \in -1 .. 257
        BY <1>5, <1>11, <1>20, <2>1, <2>2
      <3> QED BY <1>9, <1>11, <3>1
    <2>3. CASE r # 0
      BY <1>8, <2>1, <2>3
    <2> QED BY <2>2, <2>3
  <1>12. CASE nread = 2
    <2>1. Negotiation!ReadMore(0)
      BY <1>3, <1>4, <1>12 DEF Negotiation!socks5_byte
    <2>2. nread + 1 < total /\ 0 \in -1 .. 257
      BY <1>12, <1>20
    <2> QED BY <1>9, <1>12, <2>1, <2>2
  <1>13. CASE nread = 3
    <2>1. IF r = 1 THEN Negotiation!ReadMore(6) ELSE IF r = 3 THEN Negotiation!ReadMore(-1)
          ELSE IF r = 4 THEN Negotiation!ReadMore(18) ELSE Negotiation!Finish("failed")
      BY <1>3, <1>4, <1>13 DEF Negotiation!socks5_byte
    <2>2. CASE r \in {1, 3, 4}
      <3>1. reply[1] = 5 /\ reply[2] = 0 /\ reply[4] = r
        BY <1>5, <1>6, <1>13
      <3>2. /\ total >= 7
            /\ \/ r = 1 /\ total = 10
               \/ r = 3
               \/ r = 4 /\ total = 22
        BY <1>7, <2>2, <3>1
      <3>3. PICK n \in -1 .. 257 :
              /\ Negotiation!ReadMore(n)
              /\ n = IF r = 3 THEN -1 ELSE total - nread - 1
        <4>1. CASE r = 1
          BY <1>13, <2>1, <3>2, <4>1
        <4>2. CASE r = 3
          BY <2>1, <4>2
        <4>3. CASE r = 4
          BY <1>13, <2>1, <3>2, <4>3
        <4> QED BY <2>2, <4>1, <4>2, <4>3
      <3>4. nread + 1 < total
        BY <1>13, <3>2
      <3>5. /\ n = IF nread < 3 THEN 0 ELSE IF nread = 3 /\ reply[4] = 3 THEN -1 ELSE total - nread - 1
            /\ nread # 0 /\ nread # 1
        BY <1>13, <3>1, <3>3
      <3> QED BY <1>9, <2>2, <3>1, <3>3, <3>4, <3>5, Zenon
    <2>3. CASE r \notin {1, 3, 4}
      BY <1>8, <2>1, <2>3
    <2> QED BY <2>2, <2>3
  <1>14. CASE nread >= 4
    <2>1. IF n2read = -1 THEN Negotiation!ReadMore(r + 2)
          ELSE IF n2read = 1 THEN Negotiation!Finish("established") ELSE Negotiation!ReadMore(n2read - 1)
      <3>1. Len(rbuf) # 0 /\ Len(rbuf) # 1 /\ Len(rbuf) # 2 /\ Len(rbuf) # 3
        BY <1>3, <1>14
      <3> QED BY <1>4, <3>1 DEF Negotiation!socks5_byte
    <2>2. reply[1] = 5 /\ reply[2] = 0 /\ reply[4] \in {1, 3, 4}
      BY <1>6, <1>14
    <2>3. /\ granted /\ total >= 7
          /\ reply[4] = 3 => total = 7 + reply[5] /\ reply[5] \in 0 .. 2
      BY <1>7, <2>2
    <2>4. CASE nread = 4 /\ reply[4] = 3
      <3>1. n2read = -1 /\ total = 7 + r /\ r \in 0 .. 2
        BY <1>5, <1>6, <2>3, <2>4
      <3>2. Negotiation!ReadMore(r + 2)
        BY <2>1, <3>1
      <3>3. r + 2 \in -1 .. 257 /\ r + 2 = total - nread - 1 /\ nread + 1 < total
        BY <2>4, <3>1
      <3>4. /\ r + 2 = IF nread < 3 THEN 0
                       ELSE IF nread = 3 /\ reply[4] = 3 THEN -1 ELSE total - nread - 1
            /\ nread # 0 /\ nread # 1 /\ nread # 3
        BY <2>4, <3>3
      <3> QED BY <1>9, <3>2, <3>3, <3>4, Zenon
    <2>5. CASE ~(nread = 4 /\ reply[4] = 3)
      <3>1. n2read = total - nread /\ n2read >= 1
        BY <1>5, <1>6, <1>14, <1>20, <2>5
      <3>2. CASE n2read = 1
        <4>1. Len(rbuf) + 1 = Len(reply)
          BY <1>2, <1>3, <3>1, <3>2
        <4>2. stream' = Negotiation!HostData
          BY <1>0, <1>1, <2>3, <4>1, NextByte
        <4>3. Negotiation!Finish("established")
          BY <2>1, <3>2
        <4> QED BY <1>5, <2>3, <4>2, <4>3, FinishKeeps
      <3>3. CASE n2read # 1
        <4>1. Negotiation!ReadMore(n2read - 1)
          BY <2>1, <3>1, <3>3
        <4>2. /\ n2read - 1 = total - nread - 1 /\ n2read - 1 \in -1 .. 257
              /\ nread + 1 < total
          BY <1>20, <3>1, <3>3
        <4>3. /\ n2read - 1 = IF nread < 3 THEN 0
                               ELSE IF nread = 3 /\ reply[4] = 3 THEN -1 ELSE total - nread - 1
              /\ nread # 0 /\ nread # 1 /\ nread # 3
          BY <1>14, <4>2
        <4> QED BY <1>9, <4>1, <4>2, <4>3, Zenon
      <3> QED BY <3>2, <3>3
    <2> QED BY <2>4, <2>5
  <1> QED BY <1>3, <1>10, <1>11, <1>12, <1>13, <1>14

(* A byte of the line of HTTP.                                                *)
LEMMA HttpByteKeeps ==
    ASSUME ProxyInv, phase = "reply", stream # <<>>, stream' = Tail(stream),
           UNCHANGED <<Negotiation!statics, closed>>,
           proxy_type = "http", Negotiation!http_byte(Head(stream))
    PROVE  ProxyInv'
  <1>0. proxy_type \notin Negotiation!Socks4 /\ proxy_type \notin Negotiation!Socks5 /\ Bytes
    BY DEF Negotiation!Socks4, Negotiation!Socks5, ProxyInv
  <1>1. n2read = 0 /\ Len(rbuf) + Len(stream) <= 9
    BY <1>0 DEF ProxyInv, ReplyRead
  <1>2. /\ Head(stream) \in Int /\ stream' \in Seq(Int) /\ Len(stream') = Len(stream) - 1
        /\ Len(stream) >= 1 /\ Len(rbuf) \in Nat
    BY <1>0, ByteTaken DEF Bytes
  <1>3. CASE UNCHANGED <<phase, request, granted, rbuf, n2read>>
    <2> USE <1>3 DEF Negotiation!statics
    <2>1. Negotiation!TypeOK' /\ Negotiation!Established' /\ Negotiation!Used'
      BY DEF ProxyInv, Negotiation!TypeOK, Negotiation!Established, Negotiation!Used
    <2>2. MethodRead' /\ ReplyRead'
      BY <1>1, <1>2 DEF MethodRead, ReplyRead
    <2>3. Bytes' /\ SetUp'
      BY <1>2 DEF ProxyInv, Bytes, SetUp
    <2> QED BY <2>1, <2>2, <2>3 DEF ProxyInv
  <1>4. CASE Negotiation!http_line(rbuf)
    <2>1. PICK result \in {"established", "failed"} : Negotiation!Finish(result)
      BY <1>4 DEF Negotiation!http_line
    <2> QED BY <1>0, <1>2, <2>1, FinishKeeps DEF Socks
  <1>5. CASE Negotiation!ReadMore(0)
    <2>1. Len(rbuf') = Len(rbuf) + 1
      BY <1>0, <1>2, <1>5, ByteKept DEF Negotiation!ReadMore, Bytes
    <2>2. MethodRead' /\ ReplyRead'
      BY <1>1, <1>2, <1>5, <2>1
         DEF Negotiation!ReadMore, Negotiation!statics, MethodRead, ReplyRead
    <2>3. Len(rbuf) <= 20
      BY <1>0, <1>1, <1>2 DEF Bytes
    <2> QED BY <1>5, <2>2, <2>3, ReadKeeps
  <1> QED BY <1>3, <1>4, <1>5 DEF Negotiation!http_byte

(* A byte of a reply, whatever the proxy.                                     *)
LEMMA ReplyKeeps ==
    ASSUME ProxyInv, Negotiation!RecvReply
    PROVE  ProxyInv'
  <1>1. /\ phase = "reply" /\ stream # <<>> /\ stream' = Tail(stream)
        /\ UNCHANGED <<Negotiation!statics, closed>>
    BY DEF Negotiation!RecvReply
  <1>2. \/ proxy_type \in Negotiation!Socks4
        \/ proxy_type \in Negotiation!Socks5
        \/ proxy_type = "http"
    BY <1>1 DEF ProxyInv, ReplyRead
  <1>3. /\ Negotiation!Socks4 \cap Negotiation!Socks5 = {}
        /\ "http" \notin Negotiation!Socks4 /\ "http" \notin Negotiation!Socks5
    BY DEF Negotiation!Socks4, Negotiation!Socks5
  <1>4. CASE proxy_type \in Negotiation!Socks4
    <2>1. Negotiation!socks4_byte(Head(stream))
      BY <1>3, <1>4 DEF Negotiation!RecvReply
    <2> QED BY <1>1, <1>4, <2>1, Socks4ByteKeeps
  <1>5. CASE proxy_type \in Negotiation!Socks5
    <2>1. Negotiation!socks5_byte(Head(stream))
      BY <1>3, <1>5 DEF Negotiation!RecvReply
    <2> QED BY <1>1, <1>5, <2>1, Socks5ByteKeeps
  <1>6. CASE proxy_type = "http"
    <2>1. Negotiation!http_byte(Head(stream))
      BY <1>3, <1>6 DEF Negotiation!RecvReply
    <2> QED BY <1>1, <1>6, <2>1, HttpByteKeeps
  <1> QED BY <1>2, <1>4, <1>5, <1>6

(* The answer to the offer of SOCKS 5.                                        *)
LEMMA MethodKeeps ==
    ASSUME ProxyInv, Negotiation!RecvMethod
    PROVE  ProxyInv'
  <1>1. /\ phase = "method" /\ stream # <<>> /\ UNCHANGED Negotiation!statics
        /\ proxy_type \in Negotiation!Socks5 /\ n2read = 0
        /\ Len(rbuf) <= 1 /\ Len(rbuf) + Len(stream) <= 2 /\ Bytes
    BY DEF Negotiation!RecvMethod, ProxyInv, MethodRead
  <1>2. /\ Head(stream) \in Int /\ Tail(stream) \in Seq(Int) /\ Len(Tail(stream)) = Len(stream) - 1
        /\ Len(stream) >= 1 /\ Len(rbuf) \in Nat /\ Len(stream) \in Nat
    BY <1>1, ByteTaken DEF Bytes
  <1>3. CASE rbuf = <<>>
    <2>1. Negotiation!ReadMore(0) /\ stream' = Tail(stream) /\ closed' = closed
      BY <1>3 DEF Negotiation!RecvMethod
    <2>2. Len(rbuf) = 0 /\ Len(rbuf') = 1
      <3>1. Len(rbuf) = 0
        BY <1>3
      <3> QED BY <1>1, <1>2, <2>1, <3>1, ByteKept DEF Negotiation!ReadMore, Bytes
    <2>3. Len(rbuf') + Len(stream') <= 2
      BY <1>1, <1>2, <2>1, <2>2
    <2>4. MethodRead' /\ ReplyRead'
      BY <1>1, <2>1, <2>2, <2>3 DEF Negotiation!ReadMore, Negotiation!statics, MethodRead, ReplyRead
    <2>5. UNCHANGED <<Negotiation!statics, closed>>
      BY <1>1, <2>1
    <2> QED BY <1>1, <2>1, <2>2, <2>4, <2>5, ReadKeeps
  <1>4. CASE rbuf # <<>>
    <2> DEFINE before == Tail(stream)
    <2>1. before = <<>>
      <3>1. Len(rbuf) # 0
        BY <1>1, <1>4, EmptySeq DEF Bytes
      <3>2. Len(before) = 0 /\ before \in Seq(Int)
        BY <1>1, <1>2, <3>1
      <3> HIDE DEF before
      <3> QED BY <3>2, EmptySeq
    <2>2. /\ rbuf' = <<>> /\ n2read' = 0
          /\ Negotiation!Sent(proxy_type, before, "reply") \/ Negotiation!Fails
      BY <1>1, <1>4 DEF Negotiation!RecvMethod
    <2> HIDE DEF before
    <2>3. proxy_type' = proxy_type /\ proxy_type \in Negotiation!Types /\ proxy_type \in Socks
      BY <1>1 DEF Negotiation!statics, Negotiation!Types, Negotiation!Socks5, Socks
    <2>4. \/ phase' = "failed" /\ UNCHANGED <<request, stream, closed, granted>>
          \/ /\ phase' = "reply" /\ request' = current_port'
             /\ granted' \in BOOLEAN /\ closed' \in BOOLEAN /\ stream' \in Seq(Int)
             /\ \E reply : Coming(reply)' /\ Len(reply) >= 4
      BY <2>1, <2>2, <2>3, SentAnswered DEF Negotiation!Fails
    <2>5. Len(rbuf') = 0 /\ rbuf' \in Seq(Int)
      BY <2>2
    <2>6. stream' \in Seq(Int) /\ closed' \in BOOLEAN /\ granted' \in BOOLEAN /\ phase' \in {"reply", "failed"}
      BY <1>1, <2>4 DEF ProxyInv, Negotiation!TypeOK, Bytes
    <2>7. ReplyRead' /\ MethodRead'
      <3>1. CASE phase' = "failed"
        BY <3>1 DEF ReplyRead, MethodRead
      <3>2. CASE phase' = "reply"
        <4>1. \E reply : Coming(reply)' /\ Len(reply) >= 4
          BY <2>4, <3>2
        <4>2. ReplyRead'
          BY <2>2, <2>3, <2>6, <4>1, ReplyBegins
        <4> QED BY <3>2, <4>2 DEF MethodRead
      <3> QED BY <2>6, <3>1, <3>2
    <2>8. Negotiation!TypeOK'
      <3>1. Len(rbuf') <= 22 /\ n2read' \in -1 .. 257
        BY <2>2, <2>5
      <3> QED BY <1>1, <2>6, <3>1 DEF ProxyInv, Negotiation!TypeOK, Negotiation!statics
    <2>9. Negotiation!Established' /\ Negotiation!Used'
      BY <1>1, <2>6 DEF ProxyInv, Negotiation!Established, Negotiation!Used, Negotiation!statics
    <2>10. Bytes'
      BY <2>5, <2>6 DEF Bytes
    <2>11. SetUp'
      BY <1>1, <2>4 DEF ProxyInv, SetUp, Negotiation!statics
    <2> QED BY <2>7, <2>8, <2>9, <2>10, <2>11 DEF ProxyInv
  <1> QED BY <1>3, <1>4

(* The stream ends.                                                           *)
LEMMA EndKeeps ==
    ASSUME ProxyInv, Negotiation!RecvEnds
    PROVE  ProxyInv'
  <1>1. /\ phase \in {"method", "reply"} /\ UNCHANGED <<Negotiation!statics, closed>>
        /\ stream' = stream /\ stream' \in Seq(Int)
    BY DEF Negotiation!RecvEnds, ProxyInv, Bytes
  <1>2. CASE Negotiation!Finish("failed")
    BY <1>1, <1>2, FinishKeeps
  <1>3. CASE /\ stream = <<>> /\ closed /\ proxy_type \in Negotiation!Socks4
             /\ \E result \in {"established", "failed"} : Negotiation!Finish(result)
    <2>1. phase = "reply"
      BY <1>1, <1>3 DEF ProxyInv, MethodRead, Negotiation!Socks4, Negotiation!Socks5
    <2> QED BY <1>1, <1>3, <2>1, FinishKeeps
  <1> QED BY <1>2, <1>3 DEF Negotiation!RecvEnds, Negotiation!socks4_status

-----------------------------------------------------------------------------
(* The state at the start: no type, nothing asked for.                        *)
LEMMA ProxyInit ==
    ASSUME Negotiation!Init PROVE ProxyInv
  <1>1. rbuf = <<>> /\ stream = <<>> /\ rbuf \in Seq(Int) /\ stream \in Seq(Int) /\ Len(rbuf) = 0
    BY DEF Negotiation!Init
  <1>2. Negotiation!TypeOK
    <2>1. n2read \in -1 .. 257 /\ Len(rbuf) <= 22
      BY <1>1 DEF Negotiation!Init
    <2> QED BY <2>1 DEF Negotiation!Init, Negotiation!TypeOK
  <1>3. Negotiation!Established /\ Negotiation!Used
    BY DEF Negotiation!Init, Negotiation!Established, Negotiation!Used, Negotiation!Types
  <1>4. MethodRead /\ ReplyRead
    BY DEF Negotiation!Init, MethodRead, ReplyRead
  <1>5. Bytes
    BY <1>1 DEF Bytes
  <1>6. SetUp
    BY DEF Negotiation!Init, SetUp
  <1> QED BY <1>2, <1>3, <1>4, <1>5, <1>6 DEF ProxyInv

(* ... and a step of something else.                                          *)
LEMMA ProxyStands ==
    ASSUME ProxyInv, UNCHANGED Negotiation!vars
    PROVE  ProxyInv'
  <1> USE DEF Negotiation!vars
  <1>1. Negotiation!TypeOK' /\ Negotiation!Established' /\ Negotiation!Used'
    BY DEF ProxyInv, Negotiation!TypeOK, Negotiation!Established, Negotiation!Used
  <1>2. MethodRead' /\ Bytes' /\ SetUp'
    BY DEF ProxyInv, MethodRead, Bytes, SetUp
  <1>3. ReplyRead'
    BY DEF ProxyInv, ReplyRead, Coming, Counted
  <1> QED BY <1>1, <1>2, <1>3 DEF ProxyInv

(* Whatever the proxies say, and wherever they stop, an established session   *)
(* goes through the proxy that was set, the first one to the port asked for;  *)
(* and one that SOCKS established was granted, and the host's first byte is   *)
(* read next, unless a SOCKS 4 proxy closed before it said (net_connect,      *)
(* proxy_negotiate).                                                          *)
THEOREM ProxyServesSession == Negotiation!Spec => []Negotiation!ProxyKept
  <1>1. Negotiation!Init => ProxyInv
    BY ProxyInit
  <1>2. ASSUME ProxyInv, [Negotiation!Next]_Negotiation!vars PROVE ProxyInv'
    BY <1>2, ServicesAssumption, ConnectKeeps, ReplyKeeps, MethodKeeps, EndKeeps, ProxyStands
       DEF Negotiation!Next
  <1>3. ProxyInv => Negotiation!ProxyKept
    BY SettingsRead DEF ProxyInv, Negotiation!ProxyKept
  <1> QED BY <1>1, <1>2, <1>3, PTL DEF Negotiation!Spec

(* Together: whatever proxy, printer, host and process do, each in its turn.  *)
THEOREM ServicesAreKept ==
    Negotiation!Spec /\ Printing!Spec => []ServicesKept
  <1>1. Negotiation!Spec => []Negotiation!ProxyKept
    BY ProxyServesSession
  <1>2. Printing!Spec => []Printing!PrinterKept
    BY PrinterFollowsSession, ServicesAssumption
  <1>3. Negotiation!ProxyKept /\ Printing!PrinterKept => ServicesKept
    BY DEF ServicesKept
  <1> QED BY <1>1, <1>2, <1>3, PTL
=============================================================================
