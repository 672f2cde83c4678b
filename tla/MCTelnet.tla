------------------------------- MODULE MCTelnet -------------------------------
(* Instances of Telnet for TLC. *)
EXTENDS Telnet

(* The functions a correct host asks for are what is left of the ones we      *)
(* offered, or all there are.                                                 *)
Nested == {{"SYSREQ"}, OurFunctions, Function}
=============================================================================
