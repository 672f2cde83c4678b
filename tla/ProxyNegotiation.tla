--------------------------- MODULE ProxyNegotiation ---------------------------
(***************************************************************************)
(* Connections through a proxy: src/src/lib/proxy.c, and what net_connect  *)
(* of src/src/lib/telnet.c does before and after.  The proxy's type is     *)
(* found once in the life of the program; on each connection the terminal  *)
(* asks the proxy for the host, and reads the answer a byte at a time from *)
(* the socket the host's data will come through.                           *)
(*                                                                         *)
(* Bytes are numbers; the proxy is not part of the repository.  It may     *)
(* refuse, answer in any form, or close the connection at any byte.  The   *)
(* timeout of fifteen seconds never expires: select returns zero for it,   *)
(* and only what is below zero is looked for.                              *)
(***************************************************************************)
EXTENDS Integers, Sequences, FiniteSets, SequencesExt

CONSTANTS
    Specs,          \* values of the resource "proxy", as sequences of tokens
    Ports,          \* ports of hosts; "none" is a service nobody knows
    LineMax,        \* the size of proxy_http's buffer
    MaxCalls     \* bound of the model on connections

VARIABLES
    spec,
    proxy_type, proxy_host, proxy_portname,       \* the statics of telnet.c
    current_port,
    phase,
    port,           \* the port asked for
    request,        \* the port the proxy was asked for
    stream,         \* what the proxy has sent
    closed,
    granted,        \* the proxy has connected the host
    rbuf, n2read,
    calls

vars == <<spec, proxy_type, proxy_host, proxy_portname, current_port, phase, port, request,
          stream, closed, granted, rbuf, n2read, calls>>

statics == <<spec, proxy_type, proxy_host, proxy_portname, current_port, port, calls>>

-----------------------------------------------------------------------------
(* The resource. *)

Types   == {"passthru", "http", "telnet", "socks4", "socks4a", "socks5", "socks5d"}
Socks4  == {"socks4", "socks4a"}
Socks5  == {"socks5", "socks5d"}
CN      == <<>>
Default(type) == <<"port of", type>>

Place(token, s) == SelectInSeq(s, LAMBDA t : t = token)          \* strchr; 0 for none

Parsed(host, p) == [ok |-> TRUE, host |-> host, port |-> p]
Unparsed        == [ok |-> FALSE, host |-> CN, port |-> CN]

After(s, colon) == IF colon = 0 THEN CN ELSE SubSeq(s, colon + 1, Len(s))

(* Mutant: the port of a host in brackets begins at the first colon.          *)
parse_host_portFirst(s) ==
    LET rbrack == Place("]", s)
        colon  == Place(":", s)
    IN  IF s # <<>> /\ s[1] = "["
        THEN IF rbrack \in {0, 2} \/ (rbrack < Len(s) /\ s[rbrack + 1] # ":") THEN Unparsed
             ELSE Parsed(SubSeq(s, 2, rbrack - 1), After(s, colon))
        ELSE IF colon = 1 THEN Unparsed
             ELSE Parsed(IF colon = 0 THEN s ELSE SubSeq(s, 1, colon - 1), After(s, colon))

parse_host_port(s) ==
    LET rbrack == Place("]", s)
        colon  == Place(":", s)
    IN  IF s # <<>> /\ s[1] = "["
        THEN IF rbrack \in {0, 2} \/ (rbrack < Len(s) /\ s[rbrack + 1] # ":") THEN Unparsed
             ELSE Parsed(SubSeq(s, 2, rbrack - 1), After(s, IF rbrack < Len(s) THEN rbrack + 1 ELSE 0))
        ELSE IF colon = 1 THEN Unparsed
             ELSE Parsed(IF colon = 0 THEN s ELSE SubSeq(s, 1, colon - 1), After(s, colon))

Invalid == [type |-> "invalid", host |-> CN, port |-> CN]

(* A proxy for telnet has no port of its own.                                 *)
proxy_setup ==
    LET parsed == parse_host_port(SubSeq(spec, 3, Len(spec)))
        type   == spec[1]
    IN  IF \/ Len(spec) < 2 \/ spec[2] # ":" \/ type \notin Types \/ ~parsed.ok
           \/ type = "telnet" /\ parsed.port = CN
        THEN Invalid
        ELSE [type |-> type, host |-> parsed.host,
              port |-> IF parsed.port = CN THEN Default(type) ELSE parsed.port]

-----------------------------------------------------------------------------
Init ==
    /\ spec \in Specs /\ proxy_type = "unset" /\ proxy_host = CN /\ proxy_portname = CN
    /\ current_port = "unset" /\ phase = "idle" /\ port = "unset" /\ request = "unset"
    /\ stream = <<>> /\ closed = FALSE /\ granted = FALSE /\ rbuf = <<>> /\ n2read = 0 /\ calls = 0

(* What HTTP is read for: a carriage return, a line feed, a space, two digits, *)
(* the word a reply begins with; and something of the host's.                 *)
CR == 13
LF == 10
Space == 32
Two   == 50
Four  == 52
HTTP  == 300
Host  == 400

(* What a proxy may say, and what it says when the host is connected.         *)
Refusals(type) ==
    CASE type \in Socks4 -> {<<0, s, 0, 0, 0, 0, 0, 0>> : s \in {91, 92, 93, 7}}
      [] type \in Socks5 -> {<<4, 0, 0, 1, 0, 0, 0, 0, 0, 0>>, <<5, 1, 0, 1, 0, 0, 0, 0, 0, 0>>, <<5, 0, 0, 7>>}
      [] type = "http"   -> {<<HTTP, Space, Four, CR, LF>>, <<HTTP, Two, LF>>, <<Four, Space, Two, LF>>}
      [] OTHER           -> {<<>>}
Grants(type) ==
    CASE type \in Socks4 -> {<<0, 90, 0, 0, 0, 0, 0, 0>>}
      [] type \in Socks5 -> {<<5, 0, 0, 1, 0, 0, 0, 0, 0, 0>>, <<5, 0, 0, 3, 2, 0, 0, 0, 0>>, <<5, 0, 0, 3, 0, 0, 0>>,
                             <<5, 0, 0, 4>> \o [i \in 1 .. 18 |-> 0]}
      [] type = "http"   -> {<<HTTP, Space, Two, CR, LF>>, <<HTTP, Space, Two, Four, Four, Four, CR, LF>>}
      [] OTHER           -> {<<>>}

HostData == <<Host>>

(* The proxy takes the request and answers it, as far as the connection lasts.*)
Answered(type, before) ==
    \E yes \in BOOLEAN : \E reply \in IF yes THEN Grants(type) ELSE Refusals(type) :
        /\ granted' = yes
        /\ \/ stream' = before \o reply \o (IF yes THEN HostData ELSE <<>>) /\ closed' \in {FALSE, ~yes}
           \/ closed' = TRUE /\ \E n \in 0 .. Len(reply) - 1 : stream' = before \o SubSeq(reply, 1, n)

Sent(type, before, next) ==
    \/ Answered(type, before) /\ request' = current_port' /\ phase' = next
    \/ phase' = "failed" /\ UNCHANGED <<request, stream, closed, granted>>

(* A proxy that answers nothing of its own leaves all to the host.            *)
Asked(type) ==
    CASE type \in Socks4 \cup {"http"} -> Sent(type, <<>>, "reply")
      [] type \in Socks5 ->
            \/ \E method \in {<<5, 0>>, <<5, 255>>, <<5, 1>>, <<4, 0>>, <<5>>} :
                  /\ stream' = method /\ closed' = (Len(method) < 2) /\ granted' = FALSE
                  /\ phase' = "method" /\ UNCHANGED request
            \/ phase' = "failed" /\ UNCHANGED <<request, stream, closed, granted>>
      [] OTHER -> Sent(type, <<>>, "established")

Fails == phase' = "failed" /\ UNCHANGED <<request, stream, closed, granted>>

(* The host's name may be unknown here, where a proxy of SOCKS 4 or 5 is      *)
(* given the name; with SOCKS 5 other errors end the attempt.                 *)
Negotiates(type) == Asked(type) \/ (type = "socks5" /\ Fails)

(* The type and the port are found when there is no type yet.                 *)
FirstTime == spec # CN /\ proxy_type = "unset"

(* net_connect, as far as the proxy goes; the host may be called directly.    *)
net_connect ==
    /\ phase \in {"idle", "established", "failed"} /\ calls < MaxCalls
    /\ calls' = calls + 1 /\ rbuf' = <<>> /\ n2read' = 0 /\ spec' = spec
    /\ \E asked \in Ports :
        /\ port' = asked
        /\ LET setup == IF FirstTime THEN proxy_setup
                        ELSE [type |-> proxy_type, host |-> proxy_host, port |-> proxy_portname]
           IN  /\ proxy_type' = setup.type /\ proxy_host' = setup.host /\ proxy_portname' = setup.port
               /\ current_port' = IF FirstTime /\ setup.type \in Types /\ asked # "none" THEN asked
                                  ELSE IF ~FirstTime /\ setup.type \notin Types THEN asked
                                  ELSE current_port
               /\ IF FirstTime /\ (setup.type \notin Types \/ asked = "none") THEN Fails
                  ELSE IF setup.type \in Types THEN Negotiates(setup.type) \/ Fails
                  ELSE phase' = "direct" /\ granted' = TRUE /\ stream' = HostData /\ closed' = FALSE /\ request' = asked

-----------------------------------------------------------------------------
(* Reading. *)

Finish(result) == phase' = result /\ UNCHANGED <<request, granted, rbuf, n2read>>
ReadMore(n)    == rbuf' = Append(rbuf, Head(stream)) /\ n2read' = n /\ UNCHANGED <<phase, request, granted>>

(* Mutant: the length of a name does not count the port after it.             *)
socks5_byteName(r) ==
    LET nread == Len(rbuf)
    IN  CASE nread = 0 -> IF r = 5 THEN ReadMore(0) ELSE Finish("failed")
          [] nread = 1 -> IF r = 0 THEN ReadMore(0) ELSE Finish("failed")
          [] nread = 2 -> ReadMore(0)
          [] nread = 3 -> IF r = 1 THEN ReadMore(6) ELSE IF r = 3 THEN ReadMore(-1)
                          ELSE IF r = 4 THEN ReadMore(18) ELSE Finish("failed")
          [] OTHER     -> IF n2read = -1 THEN ReadMore(r + 1)
                          ELSE IF n2read = 1 THEN Finish("established") ELSE ReadMore(n2read - 1)

(* A byte of the reply of SOCKS 5: version, status, and an address whose      *)
(* length depends on what it is.                                              *)
socks5_byte(r) ==
    LET nread == Len(rbuf)
    IN  CASE nread = 0 -> IF r = 5 THEN ReadMore(0) ELSE Finish("failed")
          [] nread = 1 -> IF r = 0 THEN ReadMore(0) ELSE Finish("failed")
          [] nread = 2 -> ReadMore(0)
          [] nread = 3 -> IF r = 1 THEN ReadMore(6) ELSE IF r = 3 THEN ReadMore(-1)
                          ELSE IF r = 4 THEN ReadMore(18) ELSE Finish("failed")
          [] OTHER     -> IF n2read = -1 THEN ReadMore(r + 2)
                          ELSE IF n2read = 1 THEN Finish("established") ELSE ReadMore(n2read - 1)

socks4_status(line) == IF line[2] = 90 THEN Finish("established") ELSE Finish("failed")

socks4_byte(r) == IF Len(rbuf) + 1 = 8 THEN socks4_status(Append(rbuf, r)) ELSE ReadMore(0)

(* Enough of the first line of the reply of HTTP: how it begins, and the      *)
(* character after the first space.  What follows it is not read.             *)
http_line(line) ==
    LET space == Place(Space, line)
    IN  Finish(IF line # <<>> /\ line[1] = HTTP /\ space \in 1 .. Len(line) - 1 /\ line[space + 1] = Two
               THEN "established" ELSE "failed")

http_byte(r) ==
    IF r = CR THEN UNCHANGED <<phase, request, granted, rbuf, n2read>>
    ELSE IF r = LF \/ Len(rbuf) + 1 >= LineMax THEN http_line(rbuf)
    ELSE ReadMore(0)

RecvReply ==
    /\ phase = "reply" /\ stream # <<>>
    /\ stream' = Tail(stream)
    /\ CASE proxy_type \in Socks4 -> socks4_byte(Head(stream))
         [] proxy_type \in Socks5 -> socks5_byte(Head(stream))
         [] proxy_type = "http"   -> http_byte(Head(stream))
    /\ UNCHANGED <<statics, closed>>

(* The answer to the offer of SOCKS 5, then the request.                      *)
RecvMethod ==
    /\ phase = "method" /\ stream # <<>> /\ UNCHANGED statics
    /\ IF rbuf = <<>> THEN ReadMore(0) /\ stream' = Tail(stream) /\ UNCHANGED closed
       ELSE /\ rbuf' = <<>> /\ UNCHANGED n2read
            /\ IF rbuf[1] = 5 /\ Head(stream) = 0 THEN Sent(proxy_type, Tail(stream), "reply") ELSE Fails

(* The end of the stream, or an error.  proxy_socks4 looks at the status      *)
(* even if it never came, and then at whatever its buffer held.               *)
RecvEnds ==
    /\ phase \in {"method", "reply"}
    /\ \/ /\ stream = <<>> /\ closed /\ proxy_type \in Socks4
          /\ IF Len(rbuf) >= 2 THEN socks4_status(rbuf) ELSE \E result \in {"established", "failed"} : Finish(result)
       \/ stream = <<>> /\ closed /\ proxy_type \notin Socks4 /\ Finish("failed")
       \/ Finish("failed")
    /\ UNCHANGED <<statics, stream, closed>>

Next == net_connect \/ RecvReply \/ RecvMethod \/ RecvEnds

Spec == Init /\ [][Next]_vars

-----------------------------------------------------------------------------
TypeOK ==
    /\ proxy_type \in Types \cup {"unset", "invalid"} /\ current_port \in Ports \cup {"unset"}
    /\ phase \in {"idle", "method", "reply", "established", "failed", "direct"}
    /\ closed \in BOOLEAN /\ granted \in BOOLEAN /\ n2read \in -1 .. 257 /\ Len(rbuf) <= 22

(* How a host and a port are written; one with colons needs brackets.         *)
Written(host, p) ==
    (IF ":" \in Range(host) THEN <<"[">> \o host \o <<"]">> ELSE host)
    \o (IF p = CN THEN <<>> ELSE <<":">> \o p)

(* What is written so is read so (parse_host_port).                           *)
SpecsRead ==
    \A host \in {<<"h">>, <<"h", ":", ":", "h">>} : \A p \in {CN, <<"p">>} :
        parse_host_port(Written(host, p)) = Parsed(host, p)

(* A connection that counts as established was granted, unless a SOCKS 4      *)
(* proxy closed it before it said; and the telnet layer then reads what the   *)
(* host sends, from its first byte on: the proxy's answer is used up, except  *)
(* by HTTP, which reads its first line (proxy_negotiate).                     *)
Established ==
    phase = "established" /\ proxy_type \in Socks4 \cup Socks5 =>
        \/ granted /\ stream = HostData
        \/ closed /\ stream = <<>> /\ proxy_type \in Socks4

(* A proxy that is set is used, for the port first asked for, by its name if  *)
(* it has one; a setting that cannot be read stops the first attempt, and is  *)
(* forgotten by the others (net_connect).                                     *)
Used ==
    /\ phase = "direct" => spec = CN \/ (proxy_type = "invalid" /\ calls > 1)
    /\ proxy_type \in Types /\ spec # CN =>
         proxy_type = spec[1] /\ (Len(spec) > 2 => proxy_host # CN)
    /\ phase = "established" /\ calls = 1 => request = port

(* Together: the terminal talks to the host, through the proxy.               *)
ProxyKept == TypeOK /\ SpecsRead /\ Established /\ Used
=============================================================================
