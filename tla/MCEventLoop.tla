----------------------------- MODULE MCEventLoop -----------------------------
(* An instance of EventLoop for TLC: MCEventLoop.cfg gives two timers, two   *)
(* inputs and a loop within a loop within a loop.                            *)
EXTENDS EventLoop
=============================================================================
