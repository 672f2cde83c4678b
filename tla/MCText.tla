-------------------------------- MODULE MCText --------------------------------
(* Text that comes in one piece, on screens of three by three: AnsiHost, where *)
(* the host prints it, and Paste, where the program types it.  A behaviour is  *)
(* of one of the two.  With as many lines as columns a cursor that goes down   *)
(* stops at the last line.                                                     *)
EXTENDS AnsiHost

CONSTANTS InsertAcross, MaxEdits

VARIABLES part, screen, insert, blankFill, edits, smart, margined, clip

(* The host's page. *)
MCPage == <<"A", "B", "C", "D", "E", "F", "G", "H", "I">>

(* The screens that are pasted into: not formatted; with a form of a protected *)
(* column and fields beside it; and with a field that ends at an attribute in  *)
(* the middle of a line.                                                       *)
SBA(a)  == [op |-> "SBA", at |-> a]
SF(fa)  == [op |-> "SF", fa |-> fa]
Put(c)  == [op |-> "text", cc |-> c]

Erasing(orders) == [erase |-> TRUE, orders |-> orders]

MCWrites ==
    {Erasing(<<Put("b")>>),
     Erasing(<<SF({}), SBA(2), SF({"protect"}), Put("b"), SF({}), SBA(6), SF({"protect"}), SF({})>>),
     Erasing(<<SBA(1), SF({}), SBA(7), SF({"protect", "numeric"})>>)}

Typing == INSTANCE Paste WITH
    Graphic  <- {"a", "b"},
    Writes   <- MCWrites,
    Pasted   <- {<<"a", "a", "b", "a">>, <<"a", "newline", "b", "newline", "a">>},
    Commands <- {<<"b">>, <<"a", "b">>}

typingVars == <<screen, insert, blankFill, edits, smart, margined, clip>>

MCInit ==
    /\ Init /\ Typing!PasteInit
    /\ \/ part = "typed" /\ (blankFill => ~smart /\ ~margined)
       \/ part = "printed" /\ ~blankFill /\ ~smart /\ ~margined

MCNext ==
    /\ \/ part = "printed" /\ Next /\ UNCHANGED typingVars
       \/ part = "typed"   /\ Typing!PasteNext /\ UNCHANGED vars
    /\ UNCHANGED part

MCSpec == MCInit /\ [][MCNext]_<<vars, typingVars, part>>

(* Paste's property, where its screen is in use.                               *)
TextArrives == part = "typed" => Typing!TextArrives
=============================================================================
