-------------------------- MODULE TaskStoreProofs --------------------------
(* Invariants of TaskStore, for any users, ids, menu and set of requests. *)
EXTENDS TaskStore, SequenceTheorems, TLAPS

(***************************************************************************)
(* Where a request stands: what its program counter says of its input, its *)
(* target, its transaction and its work.                                   *)
(***************************************************************************)
OpsAt(p) ==
    CASE p = "update" -> {"patch", "retag"}
      [] p \in {"begin", "attach", "commit"} -> {"create", "retag"}
      [] p = "insert" -> {"create"}
      [] p \in {"clear", "clearing"} -> {"retag"}
      [] p \in {"delete", "cascade"} -> {"delete"}
      [] p = "insertTag" -> {"createTag"}
      [] OTHER -> Ops

InputOK(r) ==
    pc[r] \notin Resting =>
      /\ req[r] \in Menu
      /\ req[r].op \in OpsAt(pc[r])
      /\ req[r].op \notin {"create", "createTag"} => target[r] = req[r].id

TxOK(r) ==
    /\ pc[r] \in {"insert", "clear", "clearing", "attach"} => tx[r] = "open"
    /\ pc[r] \notin {"insert", "clear", "clearing", "attach", "commit"} => tx[r] = "none"
    /\ pc[r] = "commit" => tx[r] # "none"
    /\ tx[r] = "aborted" => work[r] = NoWork /\ req[r].op = "retag"

WorkOK(r) ==
    /\ pc[r] \notin {"clearing", "attach", "commit", "cascade"} => work[r] = NoWork
    /\ pc[r] # "cascade" => work[r].excl = NoRow
    /\ pc[r] = "cascade" => work[r].excl = target[r]
    /\ pc[r] \in {"clearing", "cascade"} => work[r].new = NoRow
    /\ pc[r] \in {"clearing", "cascade"} => work[r].ins = {} /\ work[r].share = {}
    /\ pc[r] = "attach" => work[r].left # <<>>
    /\ pc[r] \in {"attach", "commit"} /\ req[r].op = "create" =>
         work[r].new # NoRow /\ work[r].new = target[r]

ControlOK == \A r \in Requests : InputOK(r) /\ TxOK(r) /\ WorkOK(r)

(***************************************************************************)
(* What the locks protect.                                                 *)
(***************************************************************************)
\* An id is taken once: a task being inserted is nobody else's and not there yet.
IdsOK ==
    /\ \A x \in Rows : Live(x) => x \in used
    /\ \A r \in Requests : work[r].new # NoRow => work[r].new \in used /\ ~Live(work[r].new)
    /\ \A r, s \in Requests : r # s /\ work[r].new # NoRow => work[r].new # work[s].new

\* A row checked by a foreign key stays: nobody has it locked for deletion.
ShareOK == \A r \in Requests : \A x \in work[r].share :
    Live(x) /\ \A s \in Requests : work[s].excl # x

\* Both ends of an uncommitted link are locked, or the task is the transaction's own.
InsOK == \A r \in Requests : \A l \in work[r].ins :
    /\ l[1] \in work[r].share \/ l[1] = work[r].new
    /\ l[2] \in work[r].share

\* A row locked for deletion is there, is locked once, and its DELETE will
\* cascade to every link that touches it.
ExclOK ==
    /\ \A r \in Requests : work[r].excl # NoRow =>
         Live(work[r].excl) /\ LinksOf(work[r].excl) \subseteq work[r].todo
    /\ \A r, s \in Requests : r # s /\ work[r].excl # NoRow => work[r].excl # work[s].excl

LocksOK == IdsOK /\ ShareOK /\ InsOK /\ ExclOK

IInv == TypeOK /\ ControlOK /\ LocksOK /\ ReferentialIntegrity

-----------------------------------------------------------------------------
(* What the constants and the menu give. *)
LEMMA MenuFacts ==
    ASSUME NEW in \in Menu
    PROVE  /\ in \in Inputs /\ in # NoInput
           /\ in.op \in Ops /\ in.user \in Users /\ in.id \in Rows \cup {NoRow}
           /\ in.tags \in Seq(TagIds)
           /\ in.op \in {"patch", "retag", "get"} => in.id \in TaskIds
           /\ in.op = "delete" => in.id \in Rows
  BY MenuAssumption, ConstantsAssumption DEF Inputs

LEMMA NoWorkType == NoWork \in Work
  BY DEF NoWork, Work

\* The target of a request at each step that uses it.
LEMMA TargetType ==
    ASSUME TypeOK, ControlOK, NEW r \in Requests
    PROVE  /\ pc[r] \in {"clear", "clearing", "attach"} => target[r] \in TaskIds
           /\ pc[r] \in {"delete", "cascade"} => target[r] \in Rows
  <1>1. pc[r] \in {"clear", "clearing", "delete", "cascade"} =>
           req[r] \in Menu /\ target[r] = req[r].id /\ req[r].op \in {"retag", "delete"}
           /\ (pc[r] \in {"clear", "clearing"} => req[r].op = "retag")
           /\ (pc[r] \in {"delete", "cascade"} => req[r].op = "delete")
    BY DEF ControlOK, InputOK, OpsAt, Resting
  <1>2. pc[r] = "attach" => req[r] \in Menu /\ req[r].op \in {"create", "retag"}
           /\ (req[r].op = "retag" => target[r] = req[r].id)
           /\ (req[r].op = "create" => target[r] = work[r].new /\ work[r].new # NoRow)
    BY DEF ControlOK, InputOK, WorkOK, OpsAt, Resting
  <1>3. work[r].new \in TaskIds \cup {NoRow}
    BY DEF TypeOK, Work
  <1> QED  BY <1>1, <1>2, <1>3, MenuFacts DEF Rows

\* The locks stay sound when a transaction is released and nothing is committed.
LEMMA LocksKept ==
    ASSUME TypeOK, LocksOK, ReferentialIntegrity, UNCHANGED <<owner, links, used>>,
           \A s \in Requests : work'[s] = work[s] \/ work'[s] = NoWork
    PROVE  LocksOK' /\ ReferentialIntegrity'
  <1>1. IdsOK'    BY DEF LocksOK, IdsOK, Live, NoWork
  <1>2. ShareOK'  
    <2> SUFFICES ASSUME NEW r \in Requests, NEW x \in work'[r].share, NEW s \in Requests
                 PROVE  Live(x)' /\ work'[s].excl # x
      BY DEF ShareOK
    <2>1. x \in work[r].share /\ Live(x)
      BY DEF LocksOK, ShareOK, Live, NoWork
    <2>2. x # NoRow
      BY <2>1, ConstantsAssumption DEF TypeOK, Work
    <2> QED  BY <2>1, <2>2 DEF LocksOK, ShareOK, Live, NoWork
  <1>3. InsOK'    BY DEF LocksOK, InsOK, NoWork
  <1>4. ExclOK'   BY DEF LocksOK, ExclOK, LinksOf, Live, NoWork
  <1>5. ReferentialIntegrity'  BY DEF ReferentialIntegrity, Live
  <1> QED  BY <1>1, <1>2, <1>3, <1>4, <1>5 DEF LocksOK

-----------------------------------------------------------------------------
(* The locks, action by action, for those that take locks or commit.       *)
LEMMA InsertTaskLocks ==
    ASSUME IInv, NEW r \in Requests, InsertTask(r)
    PROVE  LocksOK' /\ ReferentialIntegrity'
  <1>1. PICK t \in TaskIds \ used :
          /\ used' = used \cup {t}
          /\ work' = [work EXCEPT ![r] = [NoWork EXCEPT !.new = t, !.left = req[r].tags]]
    BY DEF InsertTask
  <1>2. UNCHANGED <<owner, links>> /\ t \in Rows /\ t # NoRow
    BY ConstantsAssumption DEF InsertTask, database, Rows
  <1>3. /\ work'[r].new = t /\ work'[r].ins = {} /\ work'[r].share = {} /\ work'[r].excl = NoRow
        /\ \A s \in Requests : s # r => work'[s] = work[s]
    BY <1>1 DEF IInv, TypeOK, NoWork
  <1>4. IdsOK'    BY <1>1, <1>2, <1>3 DEF IInv, LocksOK, IdsOK, Live
  <1>5. ShareOK'
    <2>1. \A s \in Requests : NoRow \notin work[s].share
      BY ConstantsAssumption DEF IInv, TypeOK, Work
    <2> QED  BY <1>2, <1>3, <2>1 DEF IInv, LocksOK, ShareOK, Live
  <1>6. InsOK'    BY <1>3 DEF IInv, LocksOK, InsOK
  <1>7. ExclOK'   BY <1>2, <1>3 DEF IInv, LocksOK, ExclOK, LinksOf, Live
  <1>8. ReferentialIntegrity'  BY <1>2 DEF IInv, ReferentialIntegrity, Live
  <1> QED  BY <1>4, <1>5, <1>6, <1>7, <1>8 DEF LocksOK

\* Steps of a tag replacement that only note which links to delete.
LEMMA ReplaceLocks ==
    ASSUME IInv, NEW r \in Requests, Clear(r) \/ DeleteLinks(r)
    PROVE  LocksOK' /\ ReferentialIntegrity'
  <1>1. UNCHANGED <<owner, links, used>>
    BY DEF Clear, DeleteLinks, database
  <1>2. pc[r] \in {"clear", "clearing"} 
    BY DEF Clear, DeleteLinks, Ready
  <1>3. work[r].new = NoRow /\ work[r].ins = {} /\ work[r].share = {} /\ work[r].excl = NoRow
    BY <1>2 DEF IInv, ControlOK, WorkOK, NoWork
  <1>4. /\ work'[r].new = NoRow /\ work'[r].ins = {} /\ work'[r].share = {} /\ work'[r].excl = NoRow
        /\ \A s \in Requests : s # r => work'[s] = work[s]
    <2>1. work[r] \in Work /\ work \in [Requests -> Work]
      BY DEF IInv, TypeOK
    <2>2. CASE Clear(r)        BY <2>1, <2>2 DEF NoWork, Clear
    <2>3. CASE DeleteLinks(r)  BY <2>1, <2>3, <1>3 DEF Work, DeleteLinks
    <2> QED  BY <2>2, <2>3
  <1>5. IdsOK'    BY <1>1, <1>4 DEF IInv, LocksOK, IdsOK, Live
  <1>6. ShareOK'  BY <1>1, <1>3, <1>4 DEF IInv, LocksOK, ShareOK, Live
  <1>7. InsOK'    BY <1>4 DEF IInv, LocksOK, InsOK
  <1>8. ExclOK'   BY <1>1, <1>4 DEF IInv, LocksOK, ExclOK, LinksOf, Live
  <1>9. ReferentialIntegrity'  BY <1>1 DEF IInv, ReferentialIntegrity, Live
  <1> QED  BY <1>5, <1>6, <1>7, <1>8, <1>9 DEF LocksOK

\* A foreign key check finds its row there and not locked for deletion.
LEMMA AttachLocks ==
    ASSUME IInv, NEW r \in Requests, Attach(r)
    PROVE  LocksOK' /\ ReferentialIntegrity'
  <1> DEFINE l == NextLink(r)
             checked == IF l[1] = work[r].new THEN {l[2]} ELSE {l[1], l[2]}
  <1>1. UNCHANGED <<owner, links, used>> /\ pc[r] = "attach" /\ BlockedBy(r) = {}
    BY DEF Attach, database, Ready
  <1>2. work[r].excl = NoRow
    BY <1>1 DEF IInv, ControlOK, WorkOK
  <1>3. l = <<target[r], Head(work[r].left)>>
    BY DEF NextLink
  <1>a. \A s \in Requests : s # r => work'[s] = work[s]
    BY DEF IInv, TypeOK, Attach
  <1>b. \A s \in Requests : work'[s].new = work[s].new /\ work'[s].excl = work[s].excl
                          /\ work'[s].todo = work[s].todo
    <2>1. \/ work' = [work EXCEPT ![r].left = Tail(@)]
          \/ work' = [work EXCEPT ![r].left = Tail(@), ![r].ins = @ \cup {l},
                                  ![r].share = @ \cup checked]
      BY DEF Attach
    <2>2. work[r] \in Work /\ work \in [Requests -> Work]
      BY DEF IInv, TypeOK
    <2>3. work'[r].new = work[r].new /\ work'[r].excl = work[r].excl /\ work'[r].todo = work[r].todo
      BY <2>1, <2>2 DEF Work
    <2> QED  BY <2>3, <1>a
  <1>4. \/ work'[r].ins = work[r].ins /\ work'[r].share = work[r].share
        \/ /\ ~Present(r, l) /\ \A x \in checked : Live(x)
           /\ work'[r].ins = work[r].ins \cup {l} /\ work'[r].share = work[r].share \cup checked
    BY DEF IInv, TypeOK, Work, Attach
  <1>5. IdsOK'    BY <1>1, <1>b DEF IInv, LocksOK, IdsOK, Live
  <1>6. ShareOK'
    <2>1. ASSUME ~Present(r, l), \A x \in checked : Live(x), NEW x \in checked
          PROVE  Live(x) /\ \A s \in Requests : work[s].excl # x
      <3>1. \A s \in Requests \ {r} : ~Holds(s, r)
        BY <1>1 DEF BlockedBy
      <3>2. \A s \in Requests \ {r} : work[s].excl \notin {target[r], Head(work[r].left)}
        BY <3>1, <2>1, <1>1 DEF Holds
      <3>3. x \in {target[r], Head(work[r].left)}
        BY <1>3
      <3>4. x # NoRow
        <4>1. target[r] \in TaskIds
          BY <1>1, TargetType DEF IInv
        <4>2. Head(work[r].left) \in TagIds
          BY <1>1, HeadTailProperties DEF IInv, TypeOK, Work, ControlOK, WorkOK
        <4> QED  BY <3>3, <4>1, <4>2, ConstantsAssumption DEF Rows
      <3> QED  BY <2>1, <3>2, <3>3, <3>4, <1>2
    <2> QED  BY <2>1, <1>1, <1>4, <1>a, <1>b DEF IInv, LocksOK, ShareOK, Live
  <1>7. InsOK'
    <2> SUFFICES ASSUME NEW s \in Requests, NEW m \in work'[s].ins
                 PROVE  /\ m[1] \in work'[s].share \/ m[1] = work'[s].new
                        /\ m[2] \in work'[s].share
      BY DEF InsOK
    <2>1. CASE m \in work[s].ins
      <3>1. work[s].share \subseteq work'[s].share
        BY <1>4, <1>a
      <3> QED  BY <2>1, <3>1, <1>b DEF IInv, LocksOK, InsOK
    <2>2. CASE m \notin work[s].ins
      <3>1. s = r /\ m = l /\ checked \subseteq work'[r].share
        BY <2>2, <1>4, <1>a
      <3> QED  BY <3>1, <1>b
    <2> QED  BY <2>1, <2>2
  <1>8. ExclOK'   BY <1>1, <1>b DEF IInv, LocksOK, ExclOK, LinksOf, Live
  <1>9. ReferentialIntegrity'  BY <1>1 DEF IInv, ReferentialIntegrity, Live
  <1> QED  BY <1>5, <1>6, <1>7, <1>8, <1>9 DEF LocksOK

\* What a commit does to the work of the others.
LEMMA ApplyOthers ==
    ASSUME TypeOK, NEW r \in Requests, NEW gone, NEW added, Apply(r, gone, added)
    PROVE  /\ work'[r] = NoWork
           /\ \A s \in Requests : s # r =>
                /\ work'[s].new = work[s].new /\ work'[s].ins = work[s].ins
                /\ work'[s].share = work[s].share /\ work'[s].excl = work[s].excl
                /\ work'[s].del = work[s].del /\ work'[s].left = work[s].left
                /\ work'[s].todo = work[s].todo \ gone
  <1>1. work'[r] = NoWork /\ \A s \in Requests : s # r => work'[s] = [work[s] EXCEPT !.todo = @ \ gone]
    BY DEF Apply
  <1>2. \A s \in Requests : work[s] \in Work
    BY DEF TypeOK
  <1> QED  BY <1>1, <1>2 DEF Work

\* The links of a committed transaction have both their ends: they were locked.
LEMMA PublishLocks ==
    ASSUME IInv, NEW r \in Requests, Publish(r), UNCHANGED <<used, req, target>>, pc[r] = "commit"
    PROVE  LocksOK' /\ ReferentialIntegrity'
  <1> DEFINE new == work[r].new
  <1>1. /\ links' = (links \ work[r].del) \cup work[r].ins
        /\ owner' = IF new = NoRow THEN owner ELSE [owner EXCEPT ![new] = req[r].user]
        /\ Apply(r, work[r].del, work[r].ins)
    BY DEF Publish, Apply
  <1>2. req[r].user \in Users /\ req[r].user # NoUser
    <2>1. req[r] \in Menu
      BY DEF IInv, ControlOK, InputOK, Resting
    <2> QED  BY <2>1, MenuFacts, ConstantsAssumption
  <1>3. \A x \in Rows : (owner[x] # NoUser => owner'[x] # NoUser)
                     /\ (x = new => owner'[x] # NoUser)
                     /\ (x # new => owner'[x] = owner[x])
    BY <1>1, <1>2, ConstantsAssumption DEF IInv, TypeOK
  <1>4. /\ work'[r] = NoWork
        /\ \A s \in Requests : s # r =>
             /\ work'[s].new = work[s].new /\ work'[s].ins = work[s].ins
             /\ work'[s].share = work[s].share /\ work'[s].excl = work[s].excl
             /\ work'[s].todo = work[s].todo \ work[r].del
    BY <1>1, ApplyOthers DEF IInv
  <1>5. \A s \in Requests : /\ work[s].new \in TaskIds \cup {NoRow} /\ work[s].share \subseteq Rows
                          /\ work[s].excl \in Rows \cup {NoRow} /\ work[s].ins \subseteq Links
    BY DEF IInv, TypeOK, Work
  <1>6. TaskIds \subseteq Rows /\ NoRow \notin Rows
    BY ConstantsAssumption DEF Rows
  <1>7. IdsOK'
    <2>1. \A x \in Rows : Live(x)' => x \in used'
      BY <1>3, <1>6 DEF IInv, LocksOK, IdsOK, Live
    <2>2. \A s \in Requests : work'[s].new # NoRow => work'[s].new \in used' /\ ~Live(work[s].new)'
      <3> SUFFICES ASSUME NEW s \in Requests, s # r, work'[s].new # NoRow
                   PROVE  work'[s].new \in used' /\ ~Live(work[s].new)'
        BY <1>4 DEF NoWork
      <3>1. work[s].new # new /\ work[s].new \in used /\ ~Live(work[s].new) /\ work[s].new \in Rows
        BY <1>4, <1>5, <1>6 DEF IInv, LocksOK, IdsOK
      <3> QED  BY <3>1, <1>3, <1>4 DEF Live
    <2>3. \A s, q \in Requests : s # q /\ work'[s].new # NoRow => work'[s].new # work'[q].new
      BY <1>4 DEF IInv, LocksOK, IdsOK, NoWork
    <2> QED  BY <2>1, <2>2, <2>3 DEF IdsOK
  <1>8. ShareOK'
    <2> SUFFICES ASSUME NEW s \in Requests, NEW x \in work'[s].share, NEW q \in Requests
                 PROVE  Live(x)' /\ work'[q].excl # x
      BY DEF ShareOK
    <2>1. s # r /\ x \in work[s].share /\ x \in Rows
      BY <1>4, <1>5 DEF NoWork
    <2> QED  BY <2>1, <1>3, <1>4, <1>6 DEF IInv, LocksOK, ShareOK, Live, NoWork
  <1>9. InsOK'
    BY <1>4 DEF IInv, LocksOK, InsOK, NoWork
  <1>10. ExclOK'
    <2>1. ASSUME NEW s \in Requests, work'[s].excl # NoRow
          PROVE  Live(work[s].excl)' /\ LinksOf(work[s].excl)' \subseteq work'[s].todo
      <3> DEFINE x == work[s].excl
      <3>1. s # r /\ work'[s].excl = x /\ x \in Rows
        BY <2>1, <1>4, <1>5 DEF NoWork
      <3>2. Live(x) /\ LinksOf(x) \subseteq work[s].todo
        BY <3>1, <2>1 DEF IInv, LocksOK, ExclOK
      <3>3. \A l \in work[r].ins : x \notin {l[1], l[2]}
        <4>1. \A y \in work[r].share : y # x
          BY DEF IInv, LocksOK, ShareOK
        <4>2. work[r].new # x
          BY <3>1, <3>2, <1>6 DEF IInv, LocksOK, IdsOK
        <4> QED  BY <4>1, <4>2 DEF IInv, LocksOK, InsOK
      <3>4. LinksOf(x)' \subseteq work'[s].todo
        BY <3>1, <3>2, <3>3, <1>1, <1>4 DEF LinksOf
      <3>5. LinksOf(work[s].excl)' = LinksOf(x)'
        BY <3>1 DEF LinksOf
      <3> QED  BY <3>1, <3>2, <3>4, <3>5, <1>3 DEF Live
    <2>2. \A s, q \in Requests : s # q /\ work'[s].excl # NoRow => work'[s].excl # work'[q].excl
      BY <1>4 DEF IInv, LocksOK, ExclOK, NoWork
    <2> QED  BY <2>1, <2>2 DEF ExclOK
  <1>11. ReferentialIntegrity'
    <2> SUFFICES ASSUME NEW l \in links'
                 PROVE  Live(l[1])' /\ Live(l[2])'
      BY DEF ReferentialIntegrity
    <2>1. l \in Links /\ l[1] \in Rows /\ l[2] \in Rows
      BY <1>1, <1>5 DEF IInv, TypeOK, Links, Rows
    <2>2. CASE l \in links
      BY <2>1, <2>2, <1>3 DEF IInv, ReferentialIntegrity, Live
    <2>3. CASE l \in work[r].ins
      BY <2>1, <2>3, <1>3 DEF IInv, LocksOK, InsOK, ShareOK, Live
    <2> QED  BY <2>2, <2>3, <1>1
  <1> QED  BY <1>7, <1>8, <1>9, <1>10, <1>11 DEF LocksOK

\* A DELETE waits until nobody has checked a foreign key against its row.
LEMMA LockRowLocks ==
    ASSUME IInv, NEW r \in Requests, LockRow(r)
    PROVE  LocksOK' /\ ReferentialIntegrity'
  <1>1. /\ UNCHANGED <<owner, links, used>> /\ pc[r] = "delete" /\ BlockedBy(r) = {} /\ Found(r)
        /\ work' = [work EXCEPT ![r] = [NoWork EXCEPT !.excl = target[r], !.todo = LinksOf(target[r])]]
    BY DEF LockRow, database, Ready
  <1>2. /\ work'[r].new = NoRow /\ work'[r].ins = {} /\ work'[r].share = {}
        /\ work'[r].excl = target[r] /\ work'[r].todo = LinksOf(target[r])
        /\ \A s \in Requests : s # r => work'[s] = work[s]
    BY <1>1 DEF IInv, TypeOK, NoWork
  <1>3. \A s \in Requests : s # r => target[r] \notin work[s].share /\ target[r] # work[s].excl
    BY <1>1 DEF BlockedBy, Holds
  <1>4. Live(target[r])
    <2>1. req[r] \in Menu
      BY <1>1 DEF IInv, ControlOK, InputOK, Resting
    <2> QED  BY <2>1, <1>1, MenuFacts, ConstantsAssumption DEF Found, Live
  <1>5. IdsOK'    BY <1>1, <1>2 DEF IInv, LocksOK, IdsOK, Live
  <1>6. ShareOK'  BY <1>1, <1>2, <1>3 DEF IInv, LocksOK, ShareOK, Live
  <1>7. InsOK'    BY <1>2 DEF IInv, LocksOK, InsOK
  <1>8. ExclOK'   BY <1>1, <1>2, <1>3, <1>4 DEF IInv, LocksOK, ExclOK, LinksOf, Live
  <1>9. ReferentialIntegrity'  BY <1>1 DEF IInv, ReferentialIntegrity, Live
  <1> QED  BY <1>5, <1>6, <1>7, <1>8, <1>9 DEF LocksOK

\* A row goes with every link to it, and nobody relied on it.
LEMMA CascadeLocks ==
    ASSUME IInv, NEW r \in Requests, Cascade(r)
    PROVE  LocksOK' /\ ReferentialIntegrity'
  <1>1. /\ pc[r] = "cascade" /\ used' = used
        /\ owner' = [owner EXCEPT ![target[r]] = NoUser]
        /\ links' = links \ work[r].todo /\ Apply(r, work[r].todo, {})
    BY DEF Cascade, Ready, Apply
  <1>2. /\ work'[r] = NoWork
        /\ \A s \in Requests : s # r =>
             /\ work'[s].new = work[s].new /\ work'[s].ins = work[s].ins
             /\ work'[s].share = work[s].share /\ work'[s].excl = work[s].excl
             /\ work'[s].todo = work[s].todo \ work[r].todo
    BY <1>1, ApplyOthers DEF IInv
  <1>3. work[r].excl = target[r] /\ target[r] \in Rows /\ target[r] # NoRow
    BY <1>1, TargetType, ConstantsAssumption DEF IInv, ControlOK, WorkOK
  <1>4. \A x \in Rows : (x # target[r] => owner'[x] = owner[x]) /\ (x = target[r] => owner'[x] = NoUser)
    BY <1>1 DEF IInv, TypeOK
  <1>5. \A s \in Requests : /\ work[s].new \in TaskIds \cup {NoRow} /\ work[s].share \subseteq Rows
                          /\ work[s].excl \in Rows \cup {NoRow}
    BY DEF IInv, TypeOK, Work
  <1>6. TaskIds \subseteq Rows
    BY DEF Rows
  <1>7. IdsOK'    BY <1>1, <1>2, <1>4, <1>5, <1>6 DEF IInv, LocksOK, IdsOK, Live, NoWork
  <1>8. ShareOK'
    <2> SUFFICES ASSUME NEW s \in Requests, NEW x \in work'[s].share, NEW q \in Requests
                 PROVE  Live(x)' /\ work'[q].excl # x
      BY DEF ShareOK
    <2>1. s # r /\ x \in work[s].share /\ x \in Rows
      BY <1>2, <1>5 DEF NoWork
    <2>2. x # target[r] /\ x # NoRow
      BY <2>1, <1>3, ConstantsAssumption DEF IInv, LocksOK, ShareOK
    <2> QED  BY <2>1, <2>2, <1>2, <1>4 DEF IInv, LocksOK, ShareOK, Live, NoWork
  <1>9. InsOK'    BY <1>2 DEF IInv, LocksOK, InsOK, NoWork
  <1>10. ExclOK'
    <2>1. \A s \in Requests : s # r => work[s].excl # target[r]
      BY <1>3 DEF IInv, LocksOK, ExclOK
    <2> QED  BY <2>1, <1>1, <1>2, <1>4, <1>5 DEF IInv, LocksOK, ExclOK, LinksOf, Live, NoWork
  <1>11. ReferentialIntegrity'
    <2> SUFFICES ASSUME NEW l \in links'
                 PROVE  Live(l[1])' /\ Live(l[2])'
      BY DEF ReferentialIntegrity
    <2>1. l \in links /\ l \notin work[r].todo /\ l[1] \in Rows /\ l[2] \in Rows
      BY <1>1 DEF IInv, TypeOK, Links, Rows
    <2>2. LinksOf(target[r]) \subseteq work[r].todo
      BY <1>3 DEF IInv, LocksOK, ExclOK
    <2>3. target[r] \notin {l[1], l[2]}
      BY <2>1, <2>2 DEF LinksOf
    <2> QED  BY <2>1, <2>3, <1>4 DEF IInv, ReferentialIntegrity, Live
  <1> QED  BY <1>7, <1>8, <1>9, <1>10, <1>11 DEF LocksOK

LEMMA InsertTagLocks ==
    ASSUME IInv, NEW r \in Requests, InsertTag(r)
    PROVE  LocksOK' /\ ReferentialIntegrity'
  <1>1. PICK g \in TagIds \ used :
          used' = used \cup {g} /\ owner' = [owner EXCEPT ![g] = req[r].user]
    BY DEF InsertTag
  <1>2. UNCHANGED <<links, work>> /\ pc[r] = "insertTag" /\ g \in Rows
    BY DEF InsertTag, Rows
  <1>3. req[r].user # NoUser
    <2>1. req[r] \in Menu
      BY <1>2 DEF IInv, ControlOK, InputOK, Resting
    <2> QED  BY <2>1, MenuFacts, ConstantsAssumption
  <1>4. \A x \in Rows : (x # g => owner'[x] = owner[x]) /\ (x = g => owner'[x] # NoUser)
    BY <1>1, <1>3 DEF IInv, TypeOK
  <1>5. \A s \in Requests : /\ work[s].new \in TaskIds \cup {NoRow} /\ work[s].share \subseteq Rows
                          /\ work[s].excl \in Rows \cup {NoRow}
    BY DEF IInv, TypeOK, Work
  <1>6. TaskIds \subseteq Rows
    BY DEF Rows
  <1>7. IdsOK'    BY <1>1, <1>2, <1>4, <1>5, <1>6 DEF IInv, LocksOK, IdsOK, Live
  <1>8. ShareOK'  BY <1>2, <1>4, <1>5 DEF IInv, LocksOK, ShareOK, Live
  <1>9. InsOK'    BY <1>2 DEF IInv, LocksOK, InsOK
  <1>10. ExclOK'  BY <1>2, <1>4, <1>5 DEF IInv, LocksOK, ExclOK, LinksOf, Live
  <1>11. ReferentialIntegrity'
    <2>1. \A l \in links : l[1] \in Rows /\ l[2] \in Rows
      BY DEF IInv, TypeOK, Links, Rows
    <2> QED  BY <2>1, <1>2, <1>4 DEF IInv, ReferentialIntegrity, Live
  <1> QED  BY <1>7, <1>8, <1>9, <1>10, <1>11 DEF LocksOK

-----------------------------------------------------------------------------
(* Types and control, action by action.                                    *)
LEMMA OthersKeepControl ==
    ASSUME ControlOK, NEW r \in Requests, InputOK(r)', TxOK(r)', WorkOK(r)',
           \A s \in Requests : s # r =>
             /\ pc'[s] = pc[s] /\ req'[s] = req[s] /\ target'[s] = target[s] /\ tx'[s] = tx[s]
             /\ work'[s].new = work[s].new /\ work'[s].ins = work[s].ins
             /\ work'[s].share = work[s].share /\ work'[s].excl = work[s].excl
             /\ work'[s].left = work[s].left
             /\ work[s] = NoWork => work'[s] = NoWork
    PROVE  ControlOK'
  BY DEF ControlOK, InputOK, TxOK, WorkOK

\* Steps that hold no lock before or after.
LEMMA PlainControl ==
    ASSUME IInv, NEW r \in Requests,
           Receive(r) \/ Reject(r) \/ UpdateFields(r) \/ Begin(r) \/ Read(r)
             \/ DeleteMissing(r) \/ DuplicateTag(r)
    PROVE  TypeOK' /\ ControlOK'
  <1>1. work' = work /\ used' = used /\ UNCHANGED <<owner, links>>
    BY DEF Receive, Reject, UpdateFields, Begin, Read, DeleteMissing, DuplicateTag, database
  <1>2. pc \in [Requests -> PCs] /\ req \in [Requests -> Menu \cup {NoInput}]
        /\ target \in [Requests -> Rows \cup {NoRow}] /\ tx \in [Requests -> {"none", "open", "aborted"}]
        /\ reply \in [Requests -> {0, 200, 201, 204, 400, 404, 500}]
        /\ did \in [Requests -> SUBSET {"row", "fields", "tags", "gone"}]
        /\ alone \in [Requests -> BOOLEAN] /\ faults \in 0..MaxFaults
    BY DEF IInv, TypeOK
  <1>3. InputOK(r) /\ TxOK(r) /\ WorkOK(r)
    BY DEF IInv, ControlOK
  <1>4. CASE Receive(r)
    <2>1. PICK in \in Menu : /\ req' = [req EXCEPT ![r] = in] /\ target' = [target EXCEPT ![r] = in.id]
                            /\ pc' = [pc EXCEPT ![r] = FirstStep[in.op]] /\ pc[r] = "idle"
                            /\ UNCHANGED <<tx, reply, did, alone, faults>>
      BY <1>4 DEF Receive, Goto
    <2>2. in.op \in Ops /\ in.id \in Rows \cup {NoRow}
      BY MenuFacts
    <2>3. FirstStep[in.op] \in PCs /\ in.op \in OpsAt(FirstStep[in.op])
          /\ FirstStep[in.op] \in {"begin", "update", "delete", "read", "insertTag"}
      BY <2>2 DEF FirstStep, Ops, PCs, OpsAt
    <2>4. TypeOK'
      BY <1>1, <1>2, <2>1, <2>2, <2>3 DEF IInv, TypeOK
    <2>5. InputOK(r)' /\ TxOK(r)' /\ WorkOK(r)'
      BY <1>1, <1>2, <1>3, <2>1, <2>3 DEF InputOK, TxOK, WorkOK, OpsAt, Ops, NoWork
    <2> QED  BY <1>1, <1>2, <2>1, <2>4, <2>5, OthersKeepControl DEF IInv
  <1>5. CASE UpdateFields(r)
    <2>1. /\ pc[r] = "update" /\ UNCHANGED <<req, target, tx, alone>>
          /\ did' = [did EXCEPT ![r] = @ \cup IF Found(r) THEN {"fields"} ELSE {}]
          /\ \/ /\ pc' = [pc EXCEPT ![r] = IF req[r].op = "retag" THEN "begin" ELSE "read"]
                /\ UNCHANGED <<reply, faults>>
             \/ /\ pc' = [pc EXCEPT ![r] = "done"] /\ reply' = [reply EXCEPT ![r] = 500]
                /\ faults < MaxFaults /\ faults' = faults + 1
      BY <1>5 DEF UpdateFields, Ready, Note, Goto, Answer, Fault
    <2>2. TypeOK'
      BY <1>1, <1>2, <2>1, ConstantsAssumption DEF IInv, TypeOK, PCs
    <2>3. InputOK(r)' /\ TxOK(r)' /\ WorkOK(r)'
      BY <1>1, <1>2, <1>3, <2>1 DEF InputOK, TxOK, WorkOK, OpsAt, Ops, Resting, NoWork
    <2> QED  BY <1>1, <1>2, <2>1, <2>2, <2>3, OthersKeepControl DEF IInv
  <1>6. CASE Begin(r)
    <2>1. /\ pc[r] = "begin" /\ tx' = [tx EXCEPT ![r] = "open"]
          /\ pc' = [pc EXCEPT ![r] = IF req[r].op = "create" THEN "insert" ELSE "clear"]
          /\ UNCHANGED <<req, target, reply, did, alone, faults>>
      BY <1>6 DEF Begin, Goto
    <2>2. TypeOK'
      BY <1>1, <1>2, <2>1 DEF IInv, TypeOK, PCs
    <2>3. InputOK(r)' /\ TxOK(r)' /\ WorkOK(r)'
      BY <1>1, <1>2, <1>3, <2>1 DEF InputOK, TxOK, WorkOK, OpsAt, Resting, NoWork
    <2> QED  BY <1>1, <1>2, <2>1, <2>2, <2>3, OthersKeepControl DEF IInv
  <1>7. CASE Reject(r) \/ Read(r) \/ DeleteMissing(r) \/ DuplicateTag(r)
    <2>1. /\ pc[r] \in {"idle", "read", "delete", "insertTag"} /\ pc' = [pc EXCEPT ![r] = "done"]
          /\ UNCHANGED <<req, target, tx, did, alone, faults>>
          /\ \E code \in {200, 201, 400, 404, 500} : reply' = [reply EXCEPT ![r] = code]
      BY <1>7 DEF Reject, Read, DeleteMissing, DuplicateTag, Ready, Answer
    <2>2. TypeOK'
      BY <1>1, <1>2, <2>1 DEF IInv, TypeOK, PCs
    <2>3. InputOK(r)' /\ TxOK(r)' /\ WorkOK(r)'
      BY <1>1, <1>2, <1>3, <2>1 DEF InputOK, TxOK, WorkOK, Resting, NoWork
    <2> QED  BY <1>1, <1>2, <2>1, <2>2, <2>3, OthersKeepControl DEF IInv
  <1> QED  BY <1>4, <1>5, <1>6, <1>7

LEMMA AttachOrCommitFacts ==
    ASSUME NEW tags
    PROVE  /\ AttachOrCommit(tags) \in {"attach", "commit"}
           /\ AttachOrCommit(tags) = "attach" => tags # <<>>
  BY DEF AttachOrCommit

LEMMA InsertTaskControl ==
    ASSUME IInv, NEW r \in Requests, InsertTask(r)
    PROVE  TypeOK' /\ ControlOK'
  <1> USE DEF IInv
  <1>t. pc \in [Requests -> PCs] /\ req \in [Requests -> Menu \cup {NoInput}]
        /\ target \in [Requests -> Rows \cup {NoRow}] /\ tx \in [Requests -> {"none", "open", "aborted"}]
        /\ work \in [Requests -> Work]
    BY DEF TypeOK
  <1>c. InputOK(r) /\ TxOK(r) /\ WorkOK(r)
    BY DEF ControlOK
  <1>1. PICK t \in TaskIds \ used :
          /\ used' = used \cup {t} /\ target' = [target EXCEPT ![r] = t]
          /\ work' = [work EXCEPT ![r] = [NoWork EXCEPT !.new = t, !.left = req[r].tags]]
    BY DEF InsertTask
  <1>2. /\ pc[r] = "insert" /\ pc' = [pc EXCEPT ![r] = AttachOrCommit(req[r].tags)]
        /\ UNCHANGED <<owner, links, req, tx, reply, did, alone, faults>>
    BY DEF InsertTask, Goto, database
  <1>3. req[r] \in Menu /\ req[r].op = "create" /\ req[r].tags \in Seq(TagIds)
    BY <1>2, <1>c, MenuFacts DEF InputOK, OpsAt, Resting
  <1>4. /\ work'[r].new = t /\ work'[r].excl = NoRow /\ work'[r].left = req[r].tags
        /\ work'[r] \in Work /\ t # NoRow /\ t \in Rows
    BY <1>1, <1>3, <1>t, ConstantsAssumption DEF NoWork, Work, Rows
  <1>5. TypeOK'
    BY <1>1, <1>2, <1>4, <1>t, AttachOrCommitFacts DEF TypeOK, PCs
  <1>6. InputOK(r)' /\ TxOK(r)' /\ WorkOK(r)'
    BY <1>1, <1>2, <1>3, <1>4, <1>c, <1>t, AttachOrCommitFacts DEF InputOK, TxOK, WorkOK, OpsAt, Resting
  <1> QED  BY <1>1, <1>2, <1>5, <1>6, <1>t, OthersKeepControl

LEMMA ReplaceControl ==
    ASSUME IInv, NEW r \in Requests, Clear(r) \/ DeleteLinks(r)
    PROVE  TypeOK' /\ ControlOK'
  <1> USE DEF IInv
  <1>t. pc \in [Requests -> PCs] /\ req \in [Requests -> Menu \cup {NoInput}]
        /\ target \in [Requests -> Rows \cup {NoRow}] /\ tx \in [Requests -> {"none", "open", "aborted"}]
        /\ work \in [Requests -> Work]
    BY DEF TypeOK
  <1>c. InputOK(r) /\ TxOK(r) /\ WorkOK(r)
    BY DEF ControlOK
  <1>1. UNCHANGED <<owner, links, used, req, target, tx, reply, did, faults>>
    BY DEF Clear, DeleteLinks, Goto, database
  <1>2. /\ pc[r] \in {"clear", "clearing"} /\ req[r] \in Menu /\ req[r].op = "retag"
        /\ req[r].tags \in Seq(TagIds) /\ tx[r] = "open"
    <2>1. pc[r] \in {"clear", "clearing"}
      BY DEF Clear, DeleteLinks, Ready
    <2> QED  BY <2>1, <1>c, MenuFacts DEF InputOK, TxOK, OpsAt, Resting
  <1>3. CASE Clear(r)
    <2>1. /\ work' = [work EXCEPT ![r] = [NoWork EXCEPT !.todo = LinksOf(target[r])]]
          /\ pc' = [pc EXCEPT ![r] = "clearing"] /\ alone' = [alone EXCEPT ![r] = TRUE]
      BY <1>3 DEF Clear, Goto
    <2>2. LinksOf(target[r]) \subseteq Links
      BY DEF TypeOK, LinksOf
    <2>3. /\ work'[r] \in Work /\ work'[r].new = NoRow /\ work'[r].excl = NoRow
          /\ work'[r].ins = {} /\ work'[r].share = {}
      <3>1. work'[r] = [NoWork EXCEPT !.todo = LinksOf(target[r])]
        BY <2>1, <1>t
      <3>2. work'[r] = [new |-> NoRow, del |-> {}, ins |-> {}, todo |-> LinksOf(target[r]),
                        share |-> {}, excl |-> NoRow, left |-> <<>>]
        BY <3>1 DEF NoWork
      <3> QED  BY <3>2, <2>2 DEF Work
    <2>4. TypeOK'
      BY <1>1, <2>1, <2>3, <1>t DEF TypeOK, PCs
    <2>5. InputOK(r)' /\ TxOK(r)' /\ WorkOK(r)'
      BY <1>1, <1>2, <2>1, <2>3, <1>c, <1>t DEF InputOK, TxOK, WorkOK, OpsAt, Resting
    <2> QED  BY <1>1, <2>1, <2>4, <2>5, <1>t, OthersKeepControl
  <1>4. CASE DeleteLinks(r)
    <2>1. /\ work' = [work EXCEPT ![r].del = work[r].todo, ![r].todo = {}, ![r].left = req[r].tags]
          /\ pc' = [pc EXCEPT ![r] = AttachOrCommit(req[r].tags)] /\ alone' = alone
          /\ pc[r] = "clearing"
      BY <1>4 DEF DeleteLinks, Goto, Ready
    <2>2. /\ work'[r] \in Work /\ work'[r].new = work[r].new /\ work'[r].excl = work[r].excl
          /\ work'[r].left = req[r].tags
      <3>1. work[r] \in Work
        BY <1>t
      <3> QED  BY <2>1, <1>2, <3>1, <1>t DEF Work
    <2>3. work[r].excl = NoRow
      BY <2>1, <1>c DEF WorkOK
    <2>4. TypeOK'
      BY <1>1, <2>1, <2>2, <1>t, AttachOrCommitFacts DEF TypeOK, PCs
    <2>5. InputOK(r)' /\ TxOK(r)' /\ WorkOK(r)'
      BY <1>1, <1>2, <2>1, <2>2, <2>3, <1>c, <1>t, AttachOrCommitFacts
         DEF InputOK, TxOK, WorkOK, OpsAt, Resting
    <2> QED  BY <1>1, <2>1, <2>4, <2>5, <1>t, OthersKeepControl
  <1> QED  BY <1>3, <1>4

LEMMA AttachControl ==
    ASSUME IInv, NEW r \in Requests, Attach(r)
    PROVE  TypeOK' /\ ControlOK'
  <1> USE DEF IInv
  <1>t. pc \in [Requests -> PCs] /\ req \in [Requests -> Menu \cup {NoInput}]
        /\ target \in [Requests -> Rows \cup {NoRow}] /\ tx \in [Requests -> {"none", "open", "aborted"}]
        /\ work \in [Requests -> Work]
    BY DEF TypeOK
  <1>c. InputOK(r) /\ TxOK(r) /\ WorkOK(r)
    BY DEF ControlOK
  <1> DEFINE l == NextLink(r)
             checked == IF l[1] = work[r].new THEN {l[2]} ELSE {l[1], l[2]}
  <1>1. /\ pc[r] = "attach" /\ pc' = [pc EXCEPT ![r] = AttachOrCommit(Tail(work[r].left))]
        /\ UNCHANGED <<owner, links, used, req, target, tx, reply, did, alone, faults>>
    BY DEF Attach, Ready, Goto, database
  <1>2. target[r] \in TaskIds
    BY <1>1, TargetType
  <1>3. Head(work[r].left) \in TagIds /\ Tail(work[r].left) \in Seq(TagIds)
    <2>1. work[r].left \in Seq(TagIds) /\ work[r].left # <<>>
      BY <1>1, <1>c, <1>t DEF WorkOK, Work
    <2> QED  BY <2>1, HeadTailProperties
  <1>4. l \in Links /\ checked \subseteq Rows
    BY <1>2, <1>3 DEF NextLink, Links, Rows
  <1>5. \/ work' = [work EXCEPT ![r].left = Tail(@)]
        \/ work' = [work EXCEPT ![r].left = Tail(@), ![r].ins = @ \cup {l},
                                ![r].share = @ \cup checked]
    BY DEF Attach
  <1>6. /\ work'[r] \in Work /\ work'[r].new = work[r].new /\ work'[r].excl = work[r].excl
        /\ work'[r].left = Tail(work[r].left)
    <2>1. work[r] \in Work
      BY <1>t
    <2> HIDE DEF l, checked
    <2>2. CASE work' = [work EXCEPT ![r].left = Tail(@)]
      <3>1. work'[r] = [work[r] EXCEPT !.left = Tail(@)]
        BY <2>2, <1>t
      <3> QED  BY <1>3, <2>1, <3>1 DEF Work
    <2>3. CASE work' = [work EXCEPT ![r].left = Tail(@), ![r].ins = @ \cup {l},
                                    ![r].share = @ \cup checked]
      <3>1. work'[r] = [work[r] EXCEPT !.left = Tail(@), !.ins = @ \cup {l}, !.share = @ \cup checked]
        BY <2>3, <1>t
      <3>2. work[r].ins \cup {l} \subseteq Links /\ work[r].share \cup checked \subseteq Rows
        BY <1>4, <2>1 DEF Work
      <3> QED  BY <1>3, <2>1, <3>1, <3>2 DEF Work
    <2> QED  BY <1>5, <2>2, <2>3
  <1>7. \A s \in Requests : s # r => work'[s] = work[s]
    BY <1>5, <1>t
  <1>8. TypeOK'
    <2>1. work' \in [Requests -> Work]
      <3> HIDE DEF l, checked
      <3>1. \A s \in Requests : work'[s] \in Work
        BY <1>6, <1>7, <1>t
      <3>2. DOMAIN work' = Requests /\ work' = [s \in Requests |-> work'[s]]
        BY <1>5, <1>t
      <3> QED  BY <3>1, <3>2
    <2> QED  BY <1>1, <2>1, <1>t, AttachOrCommitFacts DEF TypeOK, PCs
  <1>9. InputOK(r)' /\ TxOK(r)' /\ WorkOK(r)'
    BY <1>1, <1>6, <1>c, <1>t, AttachOrCommitFacts DEF InputOK, TxOK, WorkOK, OpsAt, Resting
  <1> QED  BY <1>1, <1>7, <1>8, <1>9, <1>t, OthersKeepControl

LEMMA ApplyTypes ==
    ASSUME TypeOK, NEW r \in Requests, NEW gone, NEW added \in SUBSET Links, Apply(r, gone, added)
    PROVE  /\ links' \subseteq Links /\ work' \in [Requests -> Work] /\ alone' \in [Requests -> BOOLEAN]
           /\ \A s \in Requests : s # r /\ work[s] = NoWork => work'[s] = NoWork
  <1>1. links \subseteq Links /\ work \in [Requests -> Work] /\ alone \in [Requests -> BOOLEAN]
    BY DEF TypeOK
  <1>2. links' \subseteq Links
    BY <1>1 DEF Apply
  <1>3. ASSUME NEW s \in Requests
        PROVE  [work[s] EXCEPT !.todo = @ \ gone] \in Work
    <2>1. work[s] \in Work
      BY <1>1
    <2>2. work[s].todo \ gone \in SUBSET Links
      BY <2>1 DEF Work
    <2> QED  BY <2>1, <2>2 DEF Work
  <1>4. work' \in [Requests -> Work]
    BY <1>3, NoWorkType DEF Apply
  <1>5. alone' \in [Requests -> BOOLEAN]
    <2>1. alone' = [s \in Requests |-> alone[s] /\ (s = r \/ \A l \in gone \cup added : l[1] # target[s])]
      BY DEF Apply
    <2>2. \A s \in Requests : (alone[s] /\ (s = r \/ \A l \in gone \cup added : l[1] # target[s])) \in BOOLEAN
      OBVIOUS
    <2> QED  BY <2>1, <2>2
  <1>6. ASSUME NEW s \in Requests, s # r, work[s] = NoWork
        PROVE  work'[s] = NoWork
    <2>1. work'[s] = [NoWork EXCEPT !.todo = @ \ gone]
      BY <1>6 DEF Apply
    <2> QED  BY <2>1 DEF NoWork
  <1> QED  BY <1>2, <1>4, <1>5, <1>6

LEMMA CommitControl ==
    ASSUME IInv, NEW r \in Requests, Commit(r)
    PROVE  TypeOK' /\ ControlOK'
  <1> USE DEF IInv
  <1>t. pc \in [Requests -> PCs] /\ req \in [Requests -> Menu \cup {NoInput}]
        /\ target \in [Requests -> Rows \cup {NoRow}] /\ tx \in [Requests -> {"none", "open", "aborted"}]
        /\ work \in [Requests -> Work]
        /\ reply \in [Requests -> {0, 200, 201, 204, 400, 404, 500}]
        /\ did \in [Requests -> SUBSET {"row", "fields", "tags", "gone"}]
        /\ alone \in [Requests -> BOOLEAN] /\ faults \in 0..MaxFaults
        /\ owner \in [Rows -> Users \cup {NoUser}] /\ links \subseteq Links
    BY DEF TypeOK
  <1>c. InputOK(r) /\ TxOK(r) /\ WorkOK(r)
    BY DEF ControlOK
  <1>1. /\ pc[r] = "commit" /\ tx' = [tx EXCEPT ![r] = "none"] /\ UNCHANGED <<used, req, target>>
    BY DEF Commit
  <1>2. CASE Publish(r)
    <2>1. /\ Apply(r, work[r].del, work[r].ins)
          /\ \/ pc' = [pc EXCEPT ![r] = "read"] /\ UNCHANGED <<reply, faults>>
             \/ /\ pc' = [pc EXCEPT ![r] = "done"] /\ reply' = [reply EXCEPT ![r] = 500]
                /\ faults < MaxFaults /\ faults' = faults + 1
          /\ did' = [did EXCEPT ![r] = @ \cup IF req[r].op = "create" THEN {"row"} ELSE {"tags"}]
          /\ owner' = IF work[r].new = NoRow THEN owner ELSE [owner EXCEPT ![work[r].new] = req[r].user]
      BY <1>2 DEF Publish, Goto, Answer, Fault, Note
    <2>2. req[r].user \in Users
      BY <1>1, <1>c, MenuFacts DEF InputOK, Resting
    <2>3. work[r].ins \in SUBSET Links
      BY <1>t DEF Work
    <2>4. TypeOK'
      <3>1. links' \subseteq Links /\ work' \in [Requests -> Work] /\ alone' \in [Requests -> BOOLEAN]
        BY <2>1, <2>3, ApplyTypes
      <3>2. owner' \in [Rows -> Users \cup {NoUser}]
        BY <2>1, <2>2, <1>t
      <3>3. faults' \in 0..MaxFaults
        BY <2>1, <1>t, ConstantsAssumption
      <3> QED  BY <1>1, <2>1, <3>1, <3>2, <3>3, <1>t DEF TypeOK, PCs
    <2>5. work'[r] = NoWork
      BY <2>1, ApplyOthers
    <2>6. InputOK(r)' /\ TxOK(r)' /\ WorkOK(r)'
      BY <1>1, <2>1, <2>5, <1>c, <1>t DEF InputOK, TxOK, WorkOK, OpsAt, Ops, Resting, NoWork
    <2> QED  BY <1>1, <2>1, <2>3, <2>4, <2>6, <1>t, ApplyOthers, ApplyTypes, OthersKeepControl
  <1>3. CASE RollBack(r)
    <2>1. /\ work' = [work EXCEPT ![r] = NoWork] /\ pc' = [pc EXCEPT ![r] = "read"]
          /\ UNCHANGED <<owner, links, did, alone, faults, reply>>
      BY <1>3 DEF RollBack, Release, Goto, database
    <2>2. TypeOK'
      BY <1>1, <2>1, <1>t, NoWorkType DEF TypeOK, PCs
    <2>3. InputOK(r)' /\ TxOK(r)' /\ WorkOK(r)'
      BY <1>1, <2>1, <1>c, <1>t DEF InputOK, TxOK, WorkOK, OpsAt, Ops, Resting, NoWork
    <2> QED  BY <1>1, <2>1, <2>2, <2>3, <1>t, OthersKeepControl
  <1> QED  BY <1>2, <1>3 DEF Commit

LEMMA DeleteControl ==
    ASSUME IInv, NEW r \in Requests, LockRow(r) \/ Cascade(r)
    PROVE  TypeOK' /\ ControlOK'
  <1> USE DEF IInv
  <1>t. pc \in [Requests -> PCs] /\ req \in [Requests -> Menu \cup {NoInput}]
        /\ target \in [Requests -> Rows \cup {NoRow}] /\ tx \in [Requests -> {"none", "open", "aborted"}]
        /\ work \in [Requests -> Work]
        /\ reply \in [Requests -> {0, 200, 201, 204, 400, 404, 500}]
        /\ did \in [Requests -> SUBSET {"row", "fields", "tags", "gone"}]
        /\ alone \in [Requests -> BOOLEAN] /\ faults \in 0..MaxFaults
        /\ owner \in [Rows -> Users \cup {NoUser}] /\ links \subseteq Links
    BY DEF TypeOK
  <1>c. InputOK(r) /\ TxOK(r) /\ WorkOK(r)
    BY DEF ControlOK
  <1>1. CASE LockRow(r)
    <2>1. /\ work' = [work EXCEPT ![r] = [NoWork EXCEPT !.excl = target[r], !.todo = LinksOf(target[r])]]
          /\ pc[r] = "delete" /\ pc' = [pc EXCEPT ![r] = "cascade"]
          /\ UNCHANGED <<owner, links, used, req, target, tx, reply, did, alone, faults>>
      BY <1>1 DEF LockRow, Ready, Goto, database
    <2>2. LinksOf(target[r]) \subseteq Links
      BY <1>t DEF LinksOf
    <2>3. work'[r] = [new |-> NoRow, del |-> {}, ins |-> {}, todo |-> LinksOf(target[r]),
                      share |-> {}, excl |-> target[r], left |-> <<>>]
      <3>1. work'[r] = [NoWork EXCEPT !.excl = target[r], !.todo = LinksOf(target[r])]
        BY <2>1, <1>t
      <3> QED  BY <3>1 DEF NoWork
    <2>4. work'[r] \in Work
      BY <2>2, <2>3, <1>t DEF Work
    <2>5. TypeOK'
      BY <2>1, <2>4, <1>t DEF TypeOK, PCs
    <2>6. InputOK(r)' /\ TxOK(r)' /\ WorkOK(r)'
      <3>1. /\ pc'[r] = "cascade" /\ req'[r] = req[r] /\ target'[r] = target[r] /\ tx'[r] = tx[r]
            /\ work'[r].new = NoRow /\ work'[r].ins = {} /\ work'[r].share = {}
            /\ work'[r].excl = target'[r]
        <4>1. /\ work'[r].new = NoRow /\ work'[r].ins = {} /\ work'[r].share = {}
              /\ work'[r].excl = target[r]
          BY <2>3
        <4>2. /\ pc'[r] = "cascade" /\ req'[r] = req[r] /\ target'[r] = target[r] /\ tx'[r] = tx[r]
          BY <2>1, <1>t
        <4> QED  BY <4>1, <4>2
      <3>2. req[r] \in Menu /\ req[r].op = "delete" /\ target[r] = req[r].id /\ tx[r] = "none"
        BY <2>1, <1>c DEF InputOK, TxOK, OpsAt, Resting
      <3>3. InputOK(r)'  BY <3>1, <3>2 DEF InputOK, OpsAt
      <3>4. TxOK(r)'     BY <3>1, <3>2 DEF TxOK
      <3>5. WorkOK(r)'   BY <3>1 DEF WorkOK
      <3> QED  BY <3>3, <3>4, <3>5
    <2> QED  BY <2>1, <2>5, <2>6, <1>t, OthersKeepControl
  <1>2. CASE Cascade(r)
    <2>1. /\ Apply(r, work[r].todo, {}) /\ owner' = [owner EXCEPT ![target[r]] = NoUser]
          /\ pc[r] = "cascade" /\ pc' = [pc EXCEPT ![r] = "done"]
          /\ \E code \in {204, 500} : reply' = [reply EXCEPT ![r] = code]
          /\ did' = [did EXCEPT ![r] = @ \cup {"gone"}] /\ UNCHANGED <<used, req, target, tx>>
          /\ faults' = faults \/ (faults < MaxFaults /\ faults' = faults + 1)
      BY <1>2 DEF Cascade, Ready, Answer, Note, Fault
    <2>2. TypeOK'
      <3>1. links' \subseteq Links /\ work' \in [Requests -> Work] /\ alone' \in [Requests -> BOOLEAN]
        BY <2>1, ApplyTypes
      <3>2. owner' \in [Rows -> Users \cup {NoUser}]
        BY <2>1, <1>t
      <3>3. faults' \in 0..MaxFaults
        BY <2>1, <1>t, ConstantsAssumption
      <3> QED  BY <2>1, <3>1, <3>2, <3>3, <1>t DEF TypeOK, PCs
    <2>3. work'[r] = NoWork
      BY <2>1, ApplyOthers
    <2>4. InputOK(r)' /\ TxOK(r)' /\ WorkOK(r)'
      BY <2>1, <2>3, <1>c, <1>t DEF InputOK, TxOK, WorkOK, Resting, NoWork
    <2> QED  BY <2>1, <2>2, <2>4, <1>t, ApplyOthers, ApplyTypes, OthersKeepControl
  <1> QED  BY <1>1, <1>2

LEMMA InsertTagControl ==
    ASSUME IInv, NEW r \in Requests, InsertTag(r)
    PROVE  TypeOK' /\ ControlOK'
  <1> USE DEF IInv
  <1>t. pc \in [Requests -> PCs] /\ req \in [Requests -> Menu \cup {NoInput}]
        /\ target \in [Requests -> Rows \cup {NoRow}] /\ tx \in [Requests -> {"none", "open", "aborted"}]
        /\ work \in [Requests -> Work]
        /\ reply \in [Requests -> {0, 200, 201, 204, 400, 404, 500}]
        /\ did \in [Requests -> SUBSET {"row", "fields", "tags", "gone"}]
        /\ alone \in [Requests -> BOOLEAN] /\ faults \in 0..MaxFaults
        /\ owner \in [Rows -> Users \cup {NoUser}] /\ links \subseteq Links
    BY DEF TypeOK
  <1>c. InputOK(r) /\ TxOK(r) /\ WorkOK(r)
    BY DEF ControlOK
  <1>1. PICK g \in TagIds \ used :
          /\ used' = used \cup {g} /\ target' = [target EXCEPT ![r] = g]
          /\ owner' = [owner EXCEPT ![g] = req[r].user]
    BY DEF InsertTag
  <1>2. /\ pc[r] = "insertTag" /\ pc' = [pc EXCEPT ![r] = "done"]
        /\ \E code \in {201, 500} : reply' = [reply EXCEPT ![r] = code]
        /\ did' = [did EXCEPT ![r] = @ \cup {"row"}] /\ UNCHANGED <<links, req, tx, work, alone>>
        /\ faults' = faults \/ (faults < MaxFaults /\ faults' = faults + 1)
    BY DEF InsertTag, Answer, Note, Fault
  <1>3. req[r].user \in Users /\ g \in Rows
    BY <1>2, <1>c, MenuFacts DEF InputOK, Resting, Rows
  <1>4. used' \subseteq Rows
    BY <1>1, <1>3 DEF TypeOK
  <1>5. TypeOK'
    BY <1>1, <1>2, <1>3, <1>4, <1>t, ConstantsAssumption DEF TypeOK, PCs
  <1>6. InputOK(r)' /\ TxOK(r)' /\ WorkOK(r)'
    BY <1>1, <1>2, <1>c, <1>t DEF InputOK, TxOK, WorkOK, Resting, NoWork
  <1> QED  BY <1>1, <1>2, <1>5, <1>6, <1>t, OthersKeepControl

LEMMA FailControl ==
    ASSUME IInv, NEW r \in Requests, Fail(r), pc[r] \notin Resting, tx[r] # "aborted",
           faults' \in 0..MaxFaults
    PROVE  TypeOK' /\ ControlOK'
  <1> USE DEF IInv
  <1>t. pc \in [Requests -> PCs] /\ req \in [Requests -> Menu \cup {NoInput}]
        /\ target \in [Requests -> Rows \cup {NoRow}] /\ tx \in [Requests -> {"none", "open", "aborted"}]
        /\ work \in [Requests -> Work]
        /\ reply \in [Requests -> {0, 200, 201, 204, 400, 404, 500}]
        /\ did \in [Requests -> SUBSET {"row", "fields", "tags", "gone"}]
        /\ alone \in [Requests -> BOOLEAN] /\ faults \in 0..MaxFaults
        /\ owner \in [Rows -> Users \cup {NoUser}] /\ links \subseteq Links
    BY DEF TypeOK
  <1>c. InputOK(r) /\ TxOK(r) /\ WorkOK(r)
    BY DEF ControlOK
  <1>1. /\ work' = [work EXCEPT ![r] = NoWork]
        /\ UNCHANGED <<owner, links, used, req, target, did, alone>>
    BY DEF Fail, Release, database
  <1>2. \/ /\ req[r].op = "retag" /\ tx[r] = "open" /\ pc[r] # "commit" /\ reply' = reply
           /\ tx' = [tx EXCEPT ![r] = "aborted"] /\ pc' = [pc EXCEPT ![r] = "commit"]
        \/ /\ pc[r] = "commit" /\ tx' = [tx EXCEPT ![r] = "none"] /\ pc' = [pc EXCEPT ![r] = "read"]
           /\ reply' = reply
        \/ /\ tx' = [tx EXCEPT ![r] = "none"] /\ pc' = [pc EXCEPT ![r] = "done"]
           /\ reply' = [reply EXCEPT ![r] = 500]
    BY DEF Fail, Ignores, Goto, Answer
  <1>3. TypeOK'
    BY <1>1, <1>2, <1>t, NoWorkType DEF TypeOK, PCs
  <1>4. InputOK(r)' /\ TxOK(r)' /\ WorkOK(r)'
    BY <1>1, <1>2, <1>c, <1>t DEF InputOK, TxOK, WorkOK, OpsAt, Ops, Resting, NoWork
  <1> QED  BY <1>1, <1>2, <1>3, <1>4, <1>t, OthersKeepControl

LEMMA CrashControl ==
    ASSUME IInv, Crash
    PROVE  TypeOK' /\ ControlOK'
  <1>1. /\ pc' = [r \in Requests |-> IF pc[r] \in Resting THEN pc[r] ELSE "lost"]
        /\ tx' = [r \in Requests |-> "none"] /\ work' = [r \in Requests |-> NoWork]
        /\ UNCHANGED <<owner, links, used, req, target, reply, did, alone>>
        /\ faults < MaxFaults /\ faults' = faults + 1
    BY DEF Crash, Fault, database
  <1>2. TypeOK'
    BY <1>1, NoWorkType, ConstantsAssumption DEF IInv, TypeOK, PCs
  <1>3. ASSUME NEW r \in Requests PROVE InputOK(r)' /\ TxOK(r)' /\ WorkOK(r)'
    BY <1>1 DEF InputOK, TxOK, WorkOK, Resting, NoWork
  <1> QED  BY <1>2, <1>3 DEF ControlOK

-----------------------------------------------------------------------------
(* The invariant and what it implies.                                      *)
LEMMA InitIInv == Init => IInv
  <1> SUFFICES ASSUME Init PROVE IInv
    OBVIOUS
  <1> USE DEF Init
  <1>1. TypeOK
    BY InitAssumption, ConstantsAssumption, NoWorkType DEF TypeOK, PCs
  <1>2. ControlOK
    BY DEF ControlOK, InputOK, TxOK, WorkOK, Resting, NoWork
  <1>3. LocksOK
    BY InitAssumption DEF LocksOK, IdsOK, ShareOK, InsOK, ExclOK, Live, NoWork
  <1>4. ReferentialIntegrity
    BY InitAssumption DEF ReferentialIntegrity, Live
  <1> QED  BY <1>1, <1>2, <1>3, <1>4 DEF IInv

LEMMA NextIInv == IInv /\ [Next]_vars => IInv'
  <1> SUFFICES ASSUME IInv, [Next]_vars PROVE IInv'
    OBVIOUS
  <1>1. ASSUME NEW r \in Requests,
               Receive(r) \/ Reject(r) \/ UpdateFields(r) \/ Begin(r) \/ Read(r)
                 \/ DeleteMissing(r) \/ DuplicateTag(r)
        PROVE  IInv'
    <2>1. UNCHANGED <<owner, links, used, work>>
      BY <1>1 DEF Receive, Reject, UpdateFields, Begin, Read, DeleteMissing, DuplicateTag, database
    <2> QED  BY <1>1, <2>1, PlainControl, LocksKept DEF IInv
  <1>2. ASSUME NEW r \in Requests, InsertTask(r) PROVE IInv'
    BY <1>2, InsertTaskControl, InsertTaskLocks DEF IInv
  <1>3. ASSUME NEW r \in Requests, Clear(r) \/ DeleteLinks(r) PROVE IInv'
    BY <1>3, ReplaceControl, ReplaceLocks DEF IInv
  <1>4. ASSUME NEW r \in Requests, Attach(r) PROVE IInv'
    BY <1>4, AttachControl, AttachLocks DEF IInv
  <1>5. ASSUME NEW r \in Requests, Commit(r) PROVE IInv'
    <2>1. LocksOK' /\ ReferentialIntegrity'
      <3>1. CASE Publish(r)
        BY <1>5, <3>1, PublishLocks DEF Commit
      <3>2. CASE RollBack(r)
        <4>1. UNCHANGED <<owner, links, used>> /\ work' = [work EXCEPT ![r] = NoWork]
          BY <1>5, <3>2 DEF Commit, RollBack, Release, database
        <4>2. \A s \in Requests : work'[s] = work[s] \/ work'[s] = NoWork
          BY <4>1 DEF IInv, TypeOK
        <4> QED  BY <4>1, <4>2, LocksKept DEF IInv
      <3> QED  BY <1>5, <3>1, <3>2 DEF Commit
    <2> QED  BY <1>5, <2>1, CommitControl DEF IInv
  <1>6. ASSUME NEW r \in Requests, LockRow(r) \/ Cascade(r) PROVE IInv'
    BY <1>6, DeleteControl, LockRowLocks, CascadeLocks DEF IInv
  <1>7. ASSUME NEW r \in Requests, InsertTag(r) PROVE IInv'
    BY <1>7, InsertTagControl, InsertTagLocks DEF IInv
  <1>8. ASSUME NEW r \in Requests, AttachFails(r) \/ DeadlockDetected(r) \/ StatementFails(r) PROVE IInv'
    <2>1. Fail(r) /\ faults' \in 0..MaxFaults
      BY <1>8, ConstantsAssumption DEF AttachFails, DeadlockDetected, StatementFails, Fault, IInv, TypeOK
    <2>2. pc[r] \notin Resting /\ tx[r] # "aborted"
      <3>1. CASE StatementFails(r)
        BY <3>1 DEF StatementFails
      <3>2. CASE AttachFails(r)
        BY <3>2 DEF AttachFails, Ready, Resting, IInv, ControlOK, TxOK
      <3>3. CASE DeadlockDetected(r)
        <4>1. PICK s \in Requests : Holds(s, r)
          BY <3>3 DEF DeadlockDetected, OnCycle, BlockedBy
        <4>2. pc[r] \in {"update", "clearing", "cascade", "attach", "delete"}
          BY <4>1 DEF Holds
        <4> QED  BY <4>2 DEF Resting, IInv, ControlOK, TxOK
      <3> QED  BY <1>8, <3>1, <3>2, <3>3
    <2>3. UNCHANGED <<owner, links, used>> /\ work' = [work EXCEPT ![r] = NoWork]
      BY <2>1 DEF Fail, Release, database
    <2>4. \A s \in Requests : work'[s] = work[s] \/ work'[s] = NoWork
      BY <2>3 DEF IInv, TypeOK
    <2> QED  BY <2>1, <2>2, <2>3, <2>4, FailControl, LocksKept DEF IInv
  <1>9. CASE Crash
    <2>1. UNCHANGED <<owner, links, used>> /\ \A s \in Requests : work'[s] = NoWork
      BY <1>9 DEF Crash, database
    <2> QED  BY <1>9, <2>1, CrashControl, LocksKept DEF IInv
  <1>10. CASE UNCHANGED vars
    BY <1>10 DEF vars, IInv, TypeOK, ControlOK, InputOK, TxOK, WorkOK, LocksOK, IdsOK, ShareOK,
                 InsOK, ExclOK, LinksOf, Live, ReferentialIntegrity
  <1> QED  BY <1>1, <1>2, <1>3, <1>4, <1>5, <1>6, <1>7, <1>8, <1>9, <1>10
           DEF Next, Step, AllAnswered

THEOREM Invariance == Spec => []IInv
  <1>1. Init => IInv
    BY InitIInv
  <1>2. IInv /\ [Next]_vars => IInv'
    BY NextIInv
  <1> QED  BY <1>1, <1>2, PTL DEF Spec

\* Every variable keeps its type, for any users, ids, menu and requests.
THEOREM TypeCorrect == Spec => []TypeOK
  <1>1. IInv => TypeOK
    BY DEF IInv
  <1> QED  BY <1>1, Invariance, PTL

\* Whatever creations, tag replacements and deletions overlap, fail, deadlock or are
\* cut off by a crash, no row of task_tags is left naming a task or tag that is gone.
THEOREM LinksHaveBothEnds == Spec => []ReferentialIntegrity
  <1>1. IInv => ReferentialIntegrity
    BY DEF IInv
  <1> QED  BY <1>1, Invariance, PTL

\* No request ends with a transaction open or a lock held.
THEOREM RequestsEndClean == Spec => []NothingHeldAtTheEnd
  <1>1. IInv => NothingHeldAtTheEnd
    BY DEF IInv, ControlOK, TxOK, WorkOK, NothingHeldAtTheEnd, Resting
  <1> QED  BY <1>1, Invariance, PTL

=============================================================================
