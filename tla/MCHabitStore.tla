---------------------------- MODULE MCHabitStore ----------------------------
(* A habit logged on one day, toggled, deleted and created again by name. *)
EXTENDS HabitStore

CONSTANTS h1, h2, d1, d2, read

In(op, h, d, n) == [op |-> op, habit |-> h, day |-> d, name |-> n]
OneHabit == [h \in Habits |-> IF h = h1 THEN read ELSE NoName]
OneDay == {<<h1, d1>>}

\* Clients switch a day on and off, log another one, delete the habit and create one of its
\* name, which is logged and deleted in turn.
ToggleAndRenew ==
    {In(op, h1, d1, NoName) : op \in {"done", "undo", "delete"}}
    \cup {In("done", h1, d2, NoName), In("create", h2, d1, read),
          In("done", h2, d1, NoName), In("delete", h2, d1, NoName)}
=============================================================================
