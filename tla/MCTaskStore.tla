---------------------------- MODULE MCTaskStore ----------------------------
(* Small databases and menus of requests for TaskStore. *)
EXTENDS TaskStore

CONSTANTS u, v, t1, t2, t3, t4, g1, g2, g3, g4

In(user, op, id, tags) == [op |-> op, user |-> user, id |-> id, tags |-> tags]
Create(user, tags) == In(user, "create", NoRow, tags)
CreateTagFor(user) == In(user, "createTag", NoRow, <<>>)
Retag(user, t, tags) == In(user, "retag", t, tags)
Patch(user, t) == In(user, "patch", t, <<>>)
Get(user, t) == In(user, "get", t, <<>>)
Delete(user, x) == In(user, "delete", x, <<>>)

\* Of user u, task t1 and the tags g1 and g2 exist, t1 has g1; g3 was deleted earlier.  User v
\* has the task t4, where there is one.
OneTask == [x \in Rows |-> CASE x \in {t1, g1, g2} -> u [] x = t4 -> v [] OTHER -> NoUser]
OneTaskUsed == {t1, t4, g1, g2, g3} \cap Rows
OneLink == {<<t1, g1>>}

\* Tag replacements of u's task, in both orders, against deletions of the task and of a tag;
\* the task has that tag and one that no replacement names.  User v tries to change u's task.
ThreeTags == [x \in Rows |-> u]
ThreeTagsUsed == Rows
TwoLinks == {<<t1, g1>>, <<t1, g3>>}
ReplaceMenu == {Retag(u, t1, <<g1, g2>>), Retag(u, t1, <<g2, g1>>), Delete(u, t1), Delete(u, g1),
                Patch(v, t1)}

\* Creation, with a repeated tag, against deletions, single-field updates and reads, by the
\* owner and by another user, who also replaces the tags of a task of their own.
CreateMenu == {Create(u, <<g1, g1, g2>>), Create(u, <<>>), Delete(u, g1), Delete(u, t1), Delete(u, t2),
               Patch(u, t1), Get(u, t1), CreateTagFor(u),
               Create(v, <<g1>>), Patch(v, t1), Get(v, t1), Get(v, t2), Delete(v, t1),
               Delete(v, g1), Retag(v, t4, <<g1, g2>>)}

\* The menus of the three disagreements.
CreateOneMenu == {Create(u, <<g1>>), Delete(u, t2)}
RetagOneMenu == {Retag(u, t1, <<g3>>), Patch(u, t1)}
OthersMenu == {Retag(v, t1, <<g2>>), Patch(v, t1)}
=============================================================================
