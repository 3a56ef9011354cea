----------------------------- MODULE MCAccounts -----------------------------
(* One name that two people want; tokens of one second. *)
EXTENDS Accounts, TLC

CONSTANTS ada, p1, p2

In(op, p) == [op |-> op, name |-> ada, password |-> p]
OneName == {In("register", p1), In("register", p2), In("login", p1), In("me", p1)}
Symmetric == Permutations(Requests)
=============================================================================
