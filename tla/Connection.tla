------------------------------ MODULE Connection ------------------------------
(***************************************************************************)
(* The life of a connection: lib3270_connect, the timer of the automatic   *)
(* reconnection and host_disconnect (host.c), the socket and its TLS layer *)
(* (net_connect, net_connected, net_disconnect, net_input and continue_tls *)
(* in telnet.c), and the watch the main loop keeps on it (xio.c).          *)
(*                                                                         *)
(* The graphical program resolves the name and connects in a background    *)
(* thread and runs its main loop meanwhile (CallAndWait), so other         *)
(* handlers, another attempt among them, run inside an attempt.  The       *)
(* attempts in progress are a stack: only the innermost goes on.           *)
(*                                                                         *)
(* Left out: RESOLVING and PENDING, which net_connect never asks for; the  *)
(* exception watch, set and removed together with the input watch; the     *)
(* host and address, but for the "L:" that asks for TLS, and names that do *)
(* not parse; failures of SSL_CTX_new and SSL_new; the dialogs.            *)
(***************************************************************************)
EXTENDS Sequences, Naturals

CONSTANTS
    Fd,             \* file descriptors
    NoFd,           \* the -1 of h3270.sock
    Threaded,       \* callbacks->callthread is set: the graphical program
    Reconnect,      \* the toggle RECONNECT is on
    Proxy,          \* appres.proxy is set
    MaxAttempts     \* bound of the model on nested attempts

ASSUME FdAssumption == NoFd \notin Fd
ASSUME SwitchAssumption == {Threaded, Reconnect, Proxy} \subseteq BOOLEAN
ASSUME MaxAttemptsAssumption == MaxAttempts \in Nat \ {0}

VARIABLES
    h3270,          \* the session and what it holds of the operating system
    attempts        \* the calls of lib3270_connect under way, innermost last

vars == <<h3270, attempts>>

-----------------------------------------------------------------------------
(* "IN_SESSION" stands for the modes a user can work in, ANSI and 3270.       *)
CState == {"NOT_CONNECTED", "CONNECTED_INITIAL", "CONNECTED_INITIAL_E", "IN_SESSION"}

Session ==
    [cstate : CState,
     sock   : Fd \cup {NoFd},          \* h3270.sock
     open   : SUBSET Fd,               \* sockets opened and not yet closed
     live   : SUBSET Fd,               \* those of them that are connected
     watch  : Fd \cup {NoFd},          \* what ns_read_id watches, if reading
     stray  : SUBSET Fd,               \* watches whose id is lost
     ssl    : {"none", "idle", "up"},  \* ssl_con: NULL, no handshake yet, in use
     secure : BOOLEAN,                 \* secure_connection
     tls    : BOOLEAN,                 \* ssl_host; reconnect_host begins with L:
     inprogress : BOOLEAN,             \* auto_reconnect_inprogress
     timers : Nat]                     \* try_reconnect timers that have not fired

(* A call of lib3270_connect.  fd is the socket its thread works on, read     *)
(* from h3270.sock by the thread itself; rc the answer of connect().          *)
Attempt ==
    [by    : {"user", "timer"},
     tls   : BOOLEAN,
     wait  : BOOLEAN,
     stage : {"pending", "resolving", "connecting", "waiting"},
     fd    : Fd \cup {NoFd},
     rc    : {"none", "ok", "failed"}]

TypeOK == /\ h3270 \in Session
          /\ h3270.timers \in 0 .. 1
          /\ attempts \in Seq(Attempt)
          /\ Len(attempts) <= MaxAttempts

Init ==
    /\ h3270 = [cstate |-> "NOT_CONNECTED", sock |-> NoFd, open |-> {}, live |-> {},
                watch |-> NoFd, stray |-> {}, ssl |-> "none", secure |-> FALSE,
                tls |-> FALSE, inprogress |-> FALSE, timers |-> 0]
    /\ attempts = <<>>

Connected(h) == h.cstate # "NOT_CONNECTED"
InSession(h) == h.cstate = "IN_SESSION"         \* IN_ANSI || IN_3270

-----------------------------------------------------------------------------
(* What the handlers do to the session. *)

HostConnected(h)    == [h EXCEPT !.cstate = "CONNECTED_INITIAL"]
HostDisconnected(h) == [h EXCEPT !.cstate = "NOT_CONNECTED"]

SockClose(h) == [h EXCEPT !.open = @ \ {h.sock}, !.live = @ \ {h.sock}, !.sock = NoFd]

(* A watch already set is not removed, only its id is overwritten. *)
XAddInput(h) ==
    [h EXCEPT !.stray = IF h.watch = NoFd THEN @ ELSE @ \cup {h.watch},
              !.watch = h.sock]

XRemoveInput(h) == [h EXCEPT !.watch = NoFd]

(* Mutant: the connection stays marked as secure. *)
NetDisconnectStaysSecure(h) == SockClose([h EXCEPT !.ssl = "none"])

NetDisconnect(h) == SockClose([h EXCEPT !.ssl = "none", !.secure = FALSE])

(* Mutant: a reconnection is scheduled although one is already. *)
ScheduleReconnectAgain(h) ==
    IF Reconnect THEN [h EXCEPT !.inprogress = TRUE, !.timers = @ + 1] ELSE h

ScheduleReconnect(h) ==
    IF Reconnect /\ ~h.inprogress
    THEN [h EXCEPT !.inprogress = TRUE, !.timers = @ + 1]
    ELSE h

(* Mutant: the main loop goes on watching the socket. *)
HostDisconnectWatches(h) ==
    IF Connected(h)
    THEN HostDisconnected(ScheduleReconnect(NetDisconnect(h)))
    ELSE h

HostDisconnect(h) ==
    IF Connected(h)
    THEN HostDisconnected(ScheduleReconnect(NetDisconnect(XRemoveInput(h))))
    ELSE h

(* host_disconnect after a failed handshake finds nothing connected, and      *)
(* net_connect goes on as if all were well.                                   *)
NetConnected(h, proxyOk, tlsOk) ==
    IF ~proxyOk THEN HostDisconnect(h)
    ELSE IF ~h.tls \/ h.secure THEN h
    ELSE IF tlsOk THEN HostConnected([h EXCEPT !.ssl = "up", !.secure = TRUE])
    ELSE HostDisconnect(h)

-----------------------------------------------------------------------------
(* The stack of attempts. *)

Top == attempts[Len(attempts)]
Pop == SubSeq(attempts, 1, Len(attempts) - 1)
SetTop(t) == [attempts EXCEPT ![Len(attempts)] = t]

AttemptIn(stage) == attempts # <<>> /\ Top.stage = stage

(* The main loop dispatches events: when no attempt is under way; inside      *)
(* CallAndWait; and in the loop of lib3270_connect that waits for a mode, of  *)
(* which the library's own dispatcher makes a turn for every event, and the   *)
(* graphical program's one for all that is pending.                           *)
LoopRuns ==
    \/ attempts = <<>>
    \/ Threaded
    \/ AttemptIn("waiting") /\ Connected(h3270) /\ ~InSession(h3270)

(* A caller of the library is blocked while it connects; the graphical        *)
(* program makes its window insensitive.                                      *)
UserFree == LoopRuns /\ \A i \in DOMAIN attempts : attempts[i].by # "user"

Call(by, tls, wait) ==
    /\ Len(attempts) < MaxAttempts
    /\ attempts' = Append(attempts, [by |-> by, tls |-> tls, wait |-> wait,
                                     stage |-> "pending", fd |-> NoFd, rc |-> "none"])

(* lib3270_connect returns; lib3270_reconnect gives up after a failure. *)
Return(h, ok) ==
    /\ h3270' = IF Top.by = "timer" /\ ~ok THEN [h EXCEPT !.inprogress = FALSE] ELSE h
    /\ attempts' = Pop

(* Mutant: a connection is no obstacle. *)
BeginConnected ==
    /\ AttemptIn("pending")
    /\ IF h3270.inprogress
       THEN Return(h3270, FALSE)
       ELSE /\ h3270' = [h3270 EXCEPT !.tls = Top.tls]
            /\ attempts' = SetTop([Top EXCEPT !.stage = "resolving"])

(* Events that were pending have been dispatched; the checks of               *)
(* lib3270_connect, and do_connect up to the name's resolution.               *)
Begin ==
    /\ AttemptIn("pending")
    /\ IF h3270.inprogress \/ Connected(h3270)
       THEN Return(h3270, FALSE)                                 \* EAGAIN, EBUSY
       ELSE /\ h3270' = [h3270 EXCEPT !.tls = Top.tls]
            /\ attempts' = SetTop([Top EXCEPT !.stage = "resolving"])

(* "Redundantly signal a disconnect." *)
DoConnectFails(h) == Return(HostDisconnected(h), FALSE)

ResolveFails == AttemptIn("resolving") /\ DoConnectFails(h3270)

(* The name is resolved: a socket, its options, and ssl_init if TLS is asked  *)
(* for.  A failure of socket or setsockopt leaves no socket.                  *)
OpenSocket ==
    /\ AttemptIn("resolving")
    /\ \/ DoConnectFails([h3270 EXCEPT !.sock = NoFd])
       \/ \E fd \in Fd \ h3270.open :
            /\ h3270' = [h3270 EXCEPT !.sock = fd, !.open = @ \cup {fd},
                                      !.ssl = IF h3270.tls THEN "idle" ELSE @]
            /\ attempts' = SetTop([Top EXCEPT !.stage = "connecting"])

(* bgconnect: the thread reads h3270.sock, then connect() answers. *)
BgConnectStarts(i) ==
    /\ attempts[i].stage = "connecting" /\ attempts[i].fd = NoFd
    /\ attempts[i].rc = "none" /\ h3270.sock # NoFd
    /\ attempts' = [attempts EXCEPT ![i].fd = h3270.sock]
    /\ UNCHANGED h3270

BgConnectEnds(i) ==
    /\ attempts[i].stage = "connecting" /\ attempts[i].rc = "none"
    /\ \/ /\ attempts' = [attempts EXCEPT ![i].rc = "failed"]
          /\ UNCHANGED h3270
       \/ /\ attempts[i].fd \in h3270.open \ h3270.live
          /\ h3270' = [h3270 EXCEPT !.live = @ \cup {attempts[i].fd}]
          /\ attempts' = [attempts EXCEPT ![i].rc = "ok"]

(* Mutant: the socket is not closed. *)
ConnectFailsLeaks ==
    /\ AttemptIn("connecting") /\ Top.rc = "failed"
    /\ DoConnectFails([h3270 EXCEPT !.sock = NoFd])

(* close_fail closes whatever h3270.sock is by now. *)
ConnectFails ==
    /\ AttemptIn("connecting") /\ Top.rc = "failed"
    /\ DoConnectFails(SockClose(h3270))

(* The rest of net_connect and do_connect: proxy and handshake need a socket  *)
(* that is connected, which h3270.sock is not if another attempt has changed  *)
(* it.  The caller waits for a mode, or lib3270_connect is over.              *)
ConnectSucceeds ==
    /\ AttemptIn("connecting") /\ Top.rc = "ok"
    /\ \E proxyOk, tlsOk \in BOOLEAN :
         /\ Proxy \/ proxyOk
         /\ (Proxy /\ proxyOk) \/ tlsOk => h3270.sock \in h3270.live
         /\ LET h == NetConnected(h3270, proxyOk, tlsOk)
            IN  IF h.sock = NoFd
                THEN DoConnectFails(h)
                ELSE IF Top.wait
                THEN /\ h3270' = HostConnected(XAddInput(h))
                     /\ attempts' = SetTop([Top EXCEPT !.stage = "waiting"])
                ELSE Return(HostConnected(XAddInput(h)), TRUE)

WaitEnds ==
    /\ AttemptIn("waiting")
    /\ InSession(h3270) \/ ~Connected(h3270)
    /\ Return(h3270, InSession(h3270))

-----------------------------------------------------------------------------
(* What calls lib3270_connect. *)

UserConnects ==
    /\ UserFree
    /\ \E tls, wait \in BOOLEAN : Call("user", tls, wait)
    /\ UNCHANGED h3270

(* Mutant: auto_reconnect_inprogress is left set. *)
TryReconnectStaysInProgress ==
    /\ LoopRuns /\ h3270.timers > 0
    /\ h3270' = [h3270 EXCEPT !.timers = @ - 1]
    /\ IF Connected(h3270)
       THEN UNCHANGED attempts
       ELSE Call("timer", h3270.tls, FALSE)

(* lib3270_reconnect returns at once, EBUSY, to a session that is connected. *)
TryReconnect ==
    /\ LoopRuns /\ h3270.timers > 0
    /\ h3270' = [h3270 EXCEPT !.timers = @ - 1, !.inprogress = FALSE]
    /\ IF Connected(h3270)
       THEN UNCHANGED attempts
       ELSE Call("timer", h3270.tls, FALSE)

-----------------------------------------------------------------------------
(* Events of a connection. *)

Become(h) == h3270' = h /\ UNCHANGED attempts

UserDisconnects == UserFree /\ Connected(h3270) /\ Become(HostDisconnect(h3270))

(* A key is sent and net_rawout fails, as it always does with no socket. *)
NetRawoutFails == UserFree /\ Connected(h3270) /\ Become(HostDisconnect(h3270))

(* net_input is called for a watched socket, and reads from h3270.sock.  A    *)
(* TLS layer with no handshake behind it fails to read.                       *)
Readable ==
    /\ LoopRuns
    /\ h3270.watch # NoFd \/ h3270.stray # {}
    /\ h3270.sock # NoFd

InputEnds == Readable /\ Become(HostDisconnect(h3270))

InputData == Readable /\ h3270.sock \in h3270.live /\ h3270.ssl # "idle"

(* telnet_fsm answers an option or takes the first data, and check_in3270     *)
(* sets the mode that results, also after its answer could not be sent.  What *)
(* it then reads of the same buffer leaves no other state than this one.      *)
Negotiate ==
    /\ InputData
    /\ \E sent \in BOOLEAN, mode \in {"CONNECTED_INITIAL_E", "IN_SESSION"} :
         LET h == IF sent THEN h3270 ELSE HostDisconnect(h3270)
         IN  Become([h EXCEPT !.cstate = mode])

(* continue_tls: a failure closes the socket and tells nobody. *)
ContinueTls ==
    /\ InputData
    /\ \/ Become(HostConnected([h3270 EXCEPT !.ssl = "up", !.secure = TRUE]))
       \/ Become(NetDisconnect(h3270))

-----------------------------------------------------------------------------
Progress == \/ Begin \/ ResolveFails \/ OpenSocket \/ WaitEnds
            \/ ConnectFails \/ ConnectSucceeds

Thread == \E i \in DOMAIN attempts : BgConnectStarts(i) \/ BgConnectEnds(i)

Event == \/ UserConnects \/ TryReconnect \/ UserDisconnects \/ NetRawoutFails
         \/ InputEnds \/ Negotiate \/ ContinueTls

Next == Progress \/ Thread \/ Event

Spec == Init /\ [][Next]_vars

(* An attempt goes on, connect() answers at last, and the main loop calls a   *)
(* timer that is due however often it is kept busy meanwhile.                 *)
FairSpec == /\ Spec
            /\ WF_vars(Progress) /\ WF_vars(Thread)
            /\ SF_vars(TryReconnect)
-----------------------------------------------------------------------------
(* Safety.  These hold as long as attempts do not nest.  In the library's own *)
(* loop, and in the graphical program with RECONNECT off, they never do; in   *)
(* that program with RECONNECT the user may connect while the timer's attempt *)
(* waits, and what is said here of one attempt is then false of two.          *)

(* No attempt, failed handshake or disconnection leaks a socket: what is open *)
(* is h3270.sock, and it belongs to a session or to an attempt under way      *)
(* (close_fail, net_disconnect).                                              *)
OneSocket ==
    /\ h3270.open = {h3270.sock} \ {NoFd}
    /\ h3270.open # {} =>
          Connected(h3270) \/ \E i \in DOMAIN attempts : attempts[i].stage = "connecting"

(* The main loop never calls net_input for a session that is gone, nor twice  *)
(* for one that is there: the watch is set and removed with the session       *)
(* (x_add_input, x_remove_input).                                             *)
WatchedWhileConnected ==
    (h3270.watch # NoFd => Connected(h3270)) /\ h3270.stray = {}

(* A reconnection in progress is one whose timer is still to come: however    *)
(* sessions end and attempts fail, none is scheduled twice, and the flag that *)
(* keeps every attempt away is not left set behind it (host_disconnect,       *)
(* try_reconnect, lib3270_reconnect).                                         *)
OneReconnectTimer == h3270.timers = (IF h3270.inprogress THEN 1 ELSE 0)

(* A connection shown as secure is one whose TLS handshake succeeded, on the  *)
(* socket it has now (net_connected, continue_tls, net_disconnect).           *)
SecureMeansTls ==
    h3270.secure => h3270.ssl = "up" /\ h3270.sock \in h3270.live

(* What lib3270.h says of lib3270_get_ssl_state, also where attempts nest:     *)
(* "Check if the active connection is secure."                                *)
ActiveConnectionSecure == Connected(h3270) => SecureMeansTls

(* An attempt made while a session is up, by a user who did not know or by a  *)
(* timer set before it, leaves the session alone (lib3270_connect).           *)
AttemptSparesSession ==
    [][Progress /\ h3270.watch # NoFd
       => h3270'.sock = h3270.sock /\ h3270'.cstate = h3270.cstate]_vars

(* Liveness. *)

(* A session that ends with RECONNECT on is tried again: neither the user's   *)
(* own attempts nor an earlier failure can keep the timer from it.            *)
ReconnectionTried ==
    h3270.inprogress /\ ~Connected(h3270)
    ~> \E i \in DOMAIN attempts :
          attempts[i].by = "timer" /\ attempts[i].stage = "resolving"
=============================================================================
