------------------------------- MODULE MCEditing ------------------------------
(* An instance of Editing for TLC: screens of two rows of three columns, with *)
(* a field that ends the screen, one that goes on at its start, two fields    *)
(* with one to skip between them, adjacent attributes and, at first, none.    *)
EXTENDS Editing

SBA(a)  == [op |-> "SBA", at |-> a]
SF(fa)  == [op |-> "SF", fa |-> fa]
Put(c)  == [op |-> "text", cc |-> c]
SKIP    == {"protect", "numeric"}

Erasing(orders) == [erase |-> TRUE, orders |-> orders]

MCWrites ==
    {Erasing(<<SBA(0), SF({}), [op |-> "IC"], SBA(3), SF({"protect"}), Put("a")>>),
     Erasing(<<SBA(3), SF({}), Put("a"), SBA(2), SF(SKIP)>>),
     Erasing(<<SBA(5), SF({}), SBA(2), SF({"modify"})>>),
     Erasing(<<SBA(0), SF({}), SBA(2), SF(SKIP), SF({"protect"}), SF({})>>)}
=============================================================================
