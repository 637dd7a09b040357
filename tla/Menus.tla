------------------------------- MODULE Menus -------------------------------
(***************************************************************************)
(* What the programs of Data-Structures-master have in common: each prints *)
(* a menu, reads a choice and perhaps an integer, calls a function of the  *)
(* exercise, prints what it returned, and starts over until choice 0.      *)
(***************************************************************************)
EXTENDS Integers, Sequences

CONSTANT NULL   \* no node of a list or a tree

VARIABLES
    file,       \* the program that runs
    status,     \* "menu", "quit", or "crashed"
    console     \* the last choice, what was typed in for it, what it printed

InitMenu ==
    /\ status = "menu"
    /\ console = [choice |-> -1, typed |-> <<>>, printed |-> <<>>]

Runs(f) == file = f /\ status = "menu" /\ file' = file

\* A choice that was carried out.
Says(choice, typed, printed) ==
    /\ console' = [choice |-> choice, typed |-> typed, printed |-> printed]
    /\ status' = status

Ends(how) == status' = how /\ console' = console

=============================================================================
