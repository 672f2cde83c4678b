----------------------------- MODULE MCController -----------------------------
(* An instance of Controller for TLC.                                         *)
EXTENDS Controller

MCFieldKinds == {{}, {"protect"}, {"modify"}, {"protect", "modify"}}
=============================================================================
