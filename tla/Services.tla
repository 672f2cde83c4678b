------------------------------- MODULE Services -------------------------------
(***************************************************************************)
(* What a connection is served by: the negotiation with a proxy before it  *)
(* (ProxyNegotiation) and the printer session that follows it              *)
(* (PrinterSession).  Neither reads the other's state.                     *)
(***************************************************************************)
EXTENDS Integers, Sequences

CONSTANTS
    Specs, Ports, LineMax, MaxCalls,            \* ProxyNegotiation's
    LUs, PRINTER_BUF, MaxStarts                 \* PrinterSession's

VARIABLES spec, proxy_type, proxy_host, proxy_portname, current_port, phase, port,
          request, stream, closed, granted, rbuf, n2read, calls,
          printer_lu, mode, connected_lu, printer, child, starts

Negotiation == INSTANCE ProxyNegotiation
Printing    == INSTANCE PrinterSession

proxyVars   == <<spec, proxy_type, proxy_host, proxy_portname, current_port, phase, port,
                 request, stream, closed, granted, rbuf, n2read, calls>>
printerVars == <<printer_lu, mode, connected_lu, printer, child, starts>>

(* The resource is text.                                                      *)
SpecsAssumption == Specs \subseteq Seq(STRING)

(* A buffer has room for a character and its end.                             *)
BufferAssumption == PRINTER_BUF \in Nat /\ PRINTER_BUF >= 2

ASSUME ServicesAssumption == SpecsAssumption /\ BufferAssumption

(* All that is promised of both (proxy.c, printer.c).                         *)
ServicesKept == Negotiation!ProxyKept /\ Printing!PrinterKept
=============================================================================
