------------------------------ MODULE MCLists -------------------------------
(* Two rows of each table, seen from Sunday night to Monday, and pages of one row
   and of two. *)
EXTENDS Lists

CONSTANTS i1, i2, home, r1

Dues == {11, 13, 14, None}
Statuses == {"pending", "done"}
TaskRows == [status : Statuses, priority : {"high", "medium", "low"}, due : Dues,
             at : {0}, tags : {{}, {home}}]
Rows(t) ==
    CASE t = "tasks"  -> TaskRows
      [] t = "tags"   -> [name : {1, 2}]
      [] t = "bucket" -> [category : {"travel", "food"}, is_done : BOOLEAN, at : {1, 2}]
      [] t = "notes"  -> [tag_label : {"ideas", "work"}, text : SUBSET {"tea"}, at : {1, 2}]
      [] t = "habits" -> [days : SUBSET {0, 6, 7, 13, 14}, at : {1, 2}]
      [] OTHER        -> [at : {11, 13, 14, Year1}]

\* Sessions and moods start with no row or one, and become two.
AllTables ==
    {[name |-> t, rows |-> [i \in Ids |-> IF i = i1 THEN x ELSE Gone]] :
        t \in Journals, x \in [at : {11, 14}] \cup {Gone}}
    \cup UNION {{[name |-> t, rows |-> [i \in Ids |-> IF i = i1 THEN x ELSE y]] :
              x \in Rows(t), y \in Rows(t) \cup {Gone}} :
           t \in {"tasks", "tags", "bucket", "notes", "habits"}}

\* One request, but several on sessions and moods.
Filters(r, t) ==
    CASE t = "focus"   -> [date : {None, 6, 7}]
      [] t = "mood"    -> [limit : {None, 0, 2}]
      [] r # r1        -> {}
      [] t = "tasks"   -> [status : {""}, priority : {""}, due : {"", "today", "overdue"}]
                          \cup [status : {"pending"}, priority : {"medium"}, due : {"", "today"}]
      [] t = "bucket"  -> [category : {"", "food"}]
      [] t = "notes"   -> [tag_label : {"", "work"}, text : {"", "tea"}]
      [] OTHER         -> {<<>>}

Bodies(t) == IF t \in Journals THEN [at : {11, 14, None}] ELSE {}
=============================================================================
