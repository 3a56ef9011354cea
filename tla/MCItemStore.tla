---------------------------- MODULE MCItemStore ----------------------------
(* A finished item, a note, and requests from several devices. *)
EXTENDS ItemStore, TLC

CONSTANTS i1, i2, n1, n2, old, new

Devices == Permutations(Requests)

InitRows == [x \in Ids |->
    CASE x = i1 -> [title |-> old, done |-> TRUE, stamp |-> 0]
      [] x = n1 -> [title |-> old, done |-> FALSE, stamp |-> 0]
      [] OTHER  -> Absent]

In(op, id, title, done) == [op |-> op, id |-> id, title |-> title, done |-> done]

\* Patches that overlap in one field, in the other or in both, against deletions,
\* and rows created on the way.
DeviceMenu == {In("patch", i1, new, FALSE), In("patch", i1, Keep, TRUE), In("patch", i1, old, Keep),
               In("delete", i1, Keep, Keep), In("create", i2, new, Keep), In("patch", i2, Keep, TRUE),
               In("create", n2, new, Keep), In("patch", n1, new, Keep), In("delete", n1, Keep, Keep),
               In("get", n1, Keep, Keep), In("patch", n1, Keep, Keep)}
=============================================================================
