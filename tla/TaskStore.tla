----------------------------- MODULE TaskStore -----------------------------
(***************************************************************************)
(* The task and tag handlers (internal/handler/tasks.go) over the task     *)
(* repository (internal/repository/tasks.go) and the tables tasks, tags    *)
(* and task_tags (migrations/001_schema.sql).                              *)
(*                                                                         *)
(* net/http runs every request in a goroutine of its own; a goroutine      *)
(* talks to PostgreSQL one statement at a time, so that the statements of  *)
(* concurrent requests interleave.  A statement outside a transaction      *)
(* commits by itself.  PostgreSQL is modelled at its default isolation     *)
(* level, READ COMMITTED, by what these statements make it do: a statement *)
(* sees what is committed when it starts, waits for the row locks of       *)
(* another transaction, and a waiter in a cycle is aborted.                *)
(***************************************************************************)
EXTENDS Integers, SequencesExt

CONSTANTS Users, NoUser,         \* owners of rows; NoUser: there is no such row
          TaskIds, TagIds,       \* the ids gen_random_uuid() may return
          NoRow,                 \* no row yet
          Requests,              \* the HTTP requests of a behaviour
          Menu,                  \* the requests clients send
          NoInput,
          InitOwner, InitLinks, InitUsed,  \* the database at start
          MaxFaults              \* bound on faults and crashes

Rows   == TaskIds \cup TagIds
Links  == TaskIds \X TagIds      \* rows of task_tags
Ops    == {"create", "patch", "retag", "delete", "get", "createTag"}
Inputs == [op : Ops, user : Users, id : Rows \cup {NoRow}, tags : Seq(TagIds)]

\* "retag" is a PATCH whose body has tag_ids, "patch" one that has none.
ASSUME ConstantsAssumption ==
    /\ NoUser \notin Users /\ NoRow \notin Rows /\ NoInput \notin Inputs
    /\ TaskIds \cap TagIds = {}
    /\ MaxFaults \in Nat
ASSUME MenuAssumption ==
    /\ Menu \subseteq Inputs
    /\ \A in \in Menu :
         /\ in.op \in {"patch", "retag", "get"} => in.id \in TaskIds
         /\ in.op = "delete" => in.id \in Rows
         /\ in.op \in {"create", "createTag"} => in.id = NoRow
ASSUME InitAssumption ==
    /\ InitOwner \in [Rows -> Users \cup {NoUser}]
    /\ InitUsed \subseteq Rows
    /\ \A x \in Rows : InitOwner[x] # NoUser => x \in InitUsed
    /\ InitLinks \subseteq Links
    /\ \A l \in InitLinks : InitOwner[l[1]] # NoUser /\ InitOwner[l[2]] # NoUser

VARIABLES
    owner,   \* committed rows of tasks and tags: the user_id of each
    links,   \* committed rows of task_tags
    used,    \* every id generated so far: a UUID is not generated twice
    req,     \* the request a goroutine serves
    pc,      \* the statement it runs next
    target,  \* the row it is about
    tx,      \* its explicit transaction
    work,    \* what its transaction holds and has not committed
    reply,   \* the status it answered, 0 if none
    did,     \* history: its committed effects
    alone,   \* history: no other commit has touched the task's links since Clear
    faults

vars == <<owner, links, used, req, pc, target, tx, work, reply, did, alone, faults>>
database == <<owner, links>>

PCs == {"idle", "update", "begin", "insert", "clear", "clearing", "attach", "commit",
        "read", "delete", "cascade", "insertTag", "done", "lost"}
Resting == {"idle", "done", "lost"}

(***************************************************************************)
(* Uncommitted work: the task inserted; the links deleted and inserted;    *)
(* the links the running DELETE found in its snapshot; the rows locked FOR *)
(* KEY SHARE by foreign key checks and the row locked FOR UPDATE by a      *)
(* DELETE; the tags still to attach.                                       *)
(***************************************************************************)
Work == [new : TaskIds \cup {NoRow}, del : SUBSET Links, ins : SUBSET Links,
         todo : SUBSET Links, share : SUBSET Rows, excl : Rows \cup {NoRow},
         left : Seq(TagIds)]
NoWork == [new |-> NoRow, del |-> {}, ins |-> {}, todo |-> {}, share |-> {},
           excl |-> NoRow, left |-> <<>>]

Init ==
    /\ owner = InitOwner /\ links = InitLinks /\ used = InitUsed
    /\ req = [r \in Requests |-> NoInput]
    /\ pc = [r \in Requests |-> "idle"]
    /\ target = [r \in Requests |-> NoRow]
    /\ tx = [r \in Requests |-> "none"]
    /\ work = [r \in Requests |-> NoWork]
    /\ reply = [r \in Requests |-> 0]
    /\ did = [r \in Requests |-> {}]
    /\ alone = [r \in Requests |-> FALSE]
    /\ faults = 0

Live(x) == owner[x] # NoUser
Found(r) == target[r] \in Rows /\ owner[target[r]] = req[r].user  \* WHERE id=$ AND user_id=$
LinksOf(x) == {l \in links : x \in {l[1], l[2]}}
Known == used \ {work[r].new : r \in Requests}   \* the ids a client may have seen

(***************************************************************************)
(* Whom a statement waits for.  An INSERT ... ON CONFLICT DO NOTHING waits *)
(* for a transaction that is deleting or inserting the same pair; when it  *)
(* inserts, its foreign key checks wait for a DELETE of the task or tag.   *)
(***************************************************************************)
NextLink(r) == <<target[r], Head(work[r].left)>>
Present(r, l) == l \in (links \ work[r].del) \cup work[r].ins

Holds(s, r) ==
    CASE pc[r] = "update" -> Found(r) /\ work[s].excl = target[r]
      [] pc[r] \in {"clearing", "cascade"} -> work[r].todo \cap work[s].del # {}
      [] pc[r] = "attach" ->
            \/ NextLink(r) \in work[s].del \cup work[s].ins
            \/ ~Present(r, NextLink(r)) /\ work[s].excl \in {target[r], Head(work[r].left)}
      [] pc[r] = "delete" -> Found(r) /\ target[r] \in work[s].share \cup {work[s].excl}
      [] OTHER -> FALSE

BlockedBy(r) == {s \in Requests \ {r} : Holds(s, r)}
Ready(r, p) == pc[r] = p /\ BlockedBy(r) = {}

\* r waits for itself: every closed set that holds r's blockers holds r.
OnCycle(r) ==
    /\ BlockedBy(r) # {}
    /\ \A S \in SUBSET Requests :
         (BlockedBy(r) \subseteq S /\ \A s \in S : BlockedBy(s) \subseteq S) => r \in S

(***************************************************************************)
(* Answering.  A statement whose effect is committed may still be reported *)
(* as failed (acked = FALSE) when the connection breaks before the reply.  *)
(***************************************************************************)
Goto(r, p) == pc' = [pc EXCEPT ![r] = p] /\ UNCHANGED reply
Answer(r, code) == pc' = [pc EXCEPT ![r] = "done"] /\ reply' = [reply EXCEPT ![r] = code]
Fault == faults < MaxFaults /\ faults' = faults + 1
Note(r, effect) == did' = [did EXCEPT ![r] = @ \cup effect]

\* r's transaction commits: the links in gone disappear, those in added appear.
Apply(r, gone, added) ==
    /\ links' = (links \ gone) \cup added
    /\ work' = [s \in Requests |-> IF s = r THEN NoWork
                                   ELSE [work[s] EXCEPT !.todo = @ \ gone]]
    /\ alone' = [s \in Requests |-> alone[s] /\ (s = r \/ \A l \in gone \cup added : l[1] # target[s])]
Release(r) == work' = [work EXCEPT ![r] = NoWork]

(***************************************************************************)
(* A request arrives: decode, then the field checks of the handler.        *)
(***************************************************************************)
FirstStep == [create |-> "begin", patch |-> "update", retag |-> "update",
              delete |-> "delete", get |-> "read", createTag |-> "insertTag"]

Receive(r) ==
    /\ pc[r] = "idle"
    /\ \E in \in Menu :
         /\ in.id \in Known \cup {NoRow} /\ ToSet(in.tags) \subseteq Known
         /\ req' = [req EXCEPT ![r] = in]
         /\ target' = [target EXCEPT ![r] = in.id]
         /\ Goto(r, FirstStep[in.op])
    /\ UNCHANGED <<database, used, tx, work, did, alone, faults>>

\* An undecodable body, an empty title, an empty tag name.
Reject(r) ==
    /\ pc[r] = "idle"
    /\ Answer(r, 400)
    /\ UNCHANGED <<database, used, req, target, tx, work, did, alone, faults>>

-----------------------------------------------------------------------------
(* Update: the fields, in a statement of their own.                        *)
\* Mutant: the UPDATE without its WHERE clause.
UpdateAnyFields(r) ==
    /\ Ready(r, "update")
    /\ Note(r, {"fields"})
    /\ Goto(r, IF req[r].op = "retag" THEN "begin" ELSE "read")
    /\ UNCHANGED <<database, used, req, target, tx, work, alone, faults>>

UpdateFields(r) ==
    /\ Ready(r, "update")
    /\ Note(r, IF Found(r) THEN {"fields"} ELSE {})  \* RowsAffected is not read
    /\ \/ /\ Goto(r, IF req[r].op = "retag" THEN "begin" ELSE "read")
          /\ UNCHANGED faults
       \/ Fault /\ Answer(r, 500)
    /\ UNCHANGED <<database, used, req, target, tx, work, alone>>

Begin(r) ==
    /\ pc[r] = "begin"
    /\ tx' = [tx EXCEPT ![r] = "open"]
    /\ Goto(r, IF req[r].op = "create" THEN "insert" ELSE "clear")
    /\ UNCHANGED <<database, used, req, target, work, did, alone, faults>>

\* Mutant: the loop of attachTags stops one tag early.
AttachOrCommitShort(tags) == IF Len(tags) <= 1 THEN "commit" ELSE "attach"

AttachOrCommit(tags) == IF tags = <<>> THEN "commit" ELSE "attach"

InsertTask(r) ==
    /\ pc[r] = "insert"
    /\ \E t \in TaskIds \ used :
         /\ used' = used \cup {t}
         /\ target' = [target EXCEPT ![r] = t]
         /\ work' = [work EXCEPT ![r] = [NoWork EXCEPT !.new = t, !.left = req[r].tags]]
    /\ Goto(r, AttachOrCommit(req[r].tags))
    /\ UNCHANGED <<database, req, tx, did, alone, faults>>

\* Mutant: the replacement adds tags and never removes any.
ClearNothing(r) ==
    /\ pc[r] = "clear"
    /\ alone' = [alone EXCEPT ![r] = TRUE]
    /\ Goto(r, "clearing")
    /\ UNCHANGED <<database, used, req, target, tx, work, did, faults>>

\* DELETE FROM task_tags WHERE task_id=$1: the snapshot, then the rows.
Clear(r) ==
    /\ pc[r] = "clear"
    /\ work' = [work EXCEPT ![r] = [NoWork EXCEPT !.todo = LinksOf(target[r])]]
    /\ alone' = [alone EXCEPT ![r] = TRUE]
    /\ Goto(r, "clearing")
    /\ UNCHANGED <<database, used, req, target, tx, did, faults>>

DeleteLinks(r) ==
    /\ Ready(r, "clearing")
    /\ work' = [work EXCEPT ![r].del = work[r].todo, ![r].todo = {}, ![r].left = req[r].tags]
    /\ Goto(r, AttachOrCommit(req[r].tags))
    /\ UNCHANGED <<database, used, req, target, tx, did, alone, faults>>

\* attachTags, one INSERT a tag, in the client's order.
Attach(r) ==
    /\ Ready(r, "attach")
    /\ LET l == NextLink(r)
           checked == IF l[1] = work[r].new THEN {l[2]} ELSE {l[1], l[2]}
       IN  /\ \/ Present(r, l)
                 /\ work' = [work EXCEPT ![r].left = Tail(@)]
              \/ /\ ~Present(r, l) /\ \A x \in checked : Live(x)
                 /\ work' = [work EXCEPT ![r].left = Tail(@), ![r].ins = @ \cup {l},
                                         ![r].share = @ \cup checked]
    /\ Goto(r, AttachOrCommit(Tail(work[r].left)))
    /\ UNCHANGED <<database, used, req, target, tx, did, alone, faults>>

\* The commit that makes r's transaction visible.  A commit reported as failed
\* makes Create answer 500; Update does not look at the result (line 153).
Publish(r) ==
    LET new == work[r].new IN
    /\ tx[r] = "open"
    /\ owner' = IF new = NoRow THEN owner ELSE [owner EXCEPT ![new] = req[r].user]
    /\ Apply(r, work[r].del, work[r].ins)
    /\ Note(r, IF req[r].op = "create" THEN {"row"} ELSE {"tags"})
    /\ \/ Goto(r, "read") /\ UNCHANGED faults
       \/ req[r].op = "create" /\ Fault /\ Answer(r, 500)

\* Committing an aborted transaction rolls it back; only Update gets here with one.
RollBack(r) ==
    /\ tx[r] = "aborted"
    /\ Release(r) /\ Goto(r, "read")
    /\ UNCHANGED <<database, did, alone, faults>>

Commit(r) ==
    /\ pc[r] = "commit"
    /\ Publish(r) \/ RollBack(r)
    /\ tx' = [tx EXCEPT ![r] = "none"]
    /\ UNCHANGED <<used, req, target>>

\* Mutant: a missing task is answered with 403.
ReadForbids(r) ==
    /\ pc[r] = "read"
    /\ Answer(r, IF Found(r) THEN 200 ELSE 403)
    /\ UNCHANGED <<database, used, req, target, tx, work, did, alone, faults>>

\* Mutant: GetByID without the user in its WHERE clause.
ReadAnyones(r) ==
    /\ pc[r] = "read"
    /\ Answer(r, CASE Live(target[r]) -> IF req[r].op = "create" THEN 201 ELSE 200
                  [] OTHER -> IF req[r].op = "create" THEN 500 ELSE 404)
    /\ UNCHANGED <<database, used, req, target, tx, work, did, alone, faults>>

\* GetByID, the last step of create, patch and retag, and the whole of get.
Read(r) ==
    /\ pc[r] = "read"
    /\ Answer(r, CASE Found(r) -> IF req[r].op = "create" THEN 201 ELSE 200
                  [] OTHER    -> IF req[r].op = "create" THEN 500 ELSE 404)
    /\ UNCHANGED <<database, used, req, target, tx, work, did, alone, faults>>

-----------------------------------------------------------------------------
(* Delete and DeleteTag: one statement, which locks the row and then waits *)
(* for the links it cascades to.                                           *)
\* Mutant: the foreign keys of task_tags without ON DELETE CASCADE.
LockRowOnly(r) ==
    /\ Ready(r, "delete") /\ Found(r)
    /\ work' = [work EXCEPT ![r] = [NoWork EXCEPT !.excl = target[r]]]
    /\ Goto(r, "cascade")
    /\ UNCHANGED <<database, used, req, target, tx, did, alone, faults>>

LockRow(r) ==
    /\ Ready(r, "delete") /\ Found(r)
    /\ work' = [work EXCEPT ![r] = [NoWork EXCEPT !.excl = target[r], !.todo = LinksOf(target[r])]]
    /\ Goto(r, "cascade")
    /\ UNCHANGED <<database, used, req, target, tx, did, alone, faults>>

DeleteMissing(r) ==
    /\ Ready(r, "delete") /\ ~Found(r)
    /\ Answer(r, 404)
    /\ UNCHANGED <<database, used, req, target, tx, work, did, alone, faults>>

Cascade(r) ==
    /\ Ready(r, "cascade")
    /\ owner' = [owner EXCEPT ![target[r]] = NoUser]
    /\ Apply(r, work[r].todo, {})
    /\ Note(r, {"gone"})
    /\ \/ Answer(r, 204) /\ UNCHANGED faults
       \/ Answer(r, 500) /\ Fault
    /\ UNCHANGED <<used, req, target, tx>>

\* CreateTag.  Names are left out: the user may have a tag of that name already.
InsertTag(r) ==
    /\ pc[r] = "insertTag"
    /\ \E g \in TagIds \ used :
         /\ used' = used \cup {g}
         /\ target' = [target EXCEPT ![r] = g]
         /\ owner' = [owner EXCEPT ![g] = req[r].user]
    /\ Note(r, {"row"})
    /\ \/ Answer(r, 201) /\ UNCHANGED faults
       \/ Answer(r, 500) /\ Fault
    /\ UNCHANGED <<links, req, tx, work, alone>>

\* Mutant: the error of the INSERT is not looked at.
DuplicateTagAccepted(r) ==
    /\ pc[r] = "insertTag"
    /\ \E g \in TagIds : owner[g] = req[r].user
    /\ Answer(r, 201)
    /\ UNCHANGED <<database, used, req, target, tx, work, did, alone, faults>>

DuplicateTag(r) ==
    /\ pc[r] = "insertTag"
    /\ \E g \in TagIds : owner[g] = req[r].user
    /\ Answer(r, 500)
    /\ UNCHANGED <<database, used, req, target, tx, work, did, alone, faults>>

-----------------------------------------------------------------------------
(* A statement fails and the transaction it runs in is aborted.  Inside    *)
(* the tag replacement of Update the errors are not looked at (lines 149,  *)
(* 151 and 153), so the handler goes on to Commit and to GetByID.  Any     *)
(* other error, and the panic on a nil transaction when Begin fails there, *)
(* ends in a 500; Create's deferred Rollback ends its transaction.         *)
Ignores(r) == req[r].op = "retag" /\ tx[r] = "open"

\* Mutant: no rollback when a handler gives up.
FailWithoutRollback(r) ==
    /\ Answer(r, 500)
    /\ UNCHANGED <<database, used, req, target, tx, work, did, alone>>

\* Mutant: a failed statement is run again in the same transaction.
FailRunsAgain(r) == UNCHANGED <<database, used, req, pc, target, tx, work, reply, did, alone>>

Fail(r) ==
    /\ Release(r)
    /\ \/ /\ Ignores(r) /\ pc[r] # "commit"
          /\ tx' = [tx EXCEPT ![r] = "aborted"] /\ Goto(r, "commit")
       \/ /\ Ignores(r) /\ pc[r] = "commit"
          /\ tx' = [tx EXCEPT ![r] = "none"] /\ Goto(r, "read")
       \/ /\ ~Ignores(r)
          /\ tx' = [tx EXCEPT ![r] = "none"] /\ Answer(r, 500)
    /\ UNCHANGED <<database, used, req, target, did, alone>>

\* attachTags names a task or a tag that is not there: the foreign key rejects it.
AttachFails(r) ==
    /\ Ready(r, "attach")
    /\ ~Present(r, NextLink(r))
    /\ \E x \in {target[r], Head(work[r].left)} : x # work[r].new /\ ~Live(x)
    /\ Fail(r) /\ UNCHANGED faults

DeadlockDetected(r) == OnCycle(r) /\ Fail(r) /\ UNCHANGED faults

\* A broken connection, a cancelled request context, no connection to be had, a
\* value the CHECK constraints refuse.
StatementFails(r) ==
    /\ pc[r] \notin Resting /\ tx[r] # "aborted"
    /\ Fault /\ Fail(r)

\* The process dies; PostgreSQL rolls back what its connections had open.
Crash ==
    /\ Fault
    /\ pc' = [r \in Requests |-> IF pc[r] \in Resting THEN pc[r] ELSE "lost"]
    /\ tx' = [r \in Requests |-> "none"]
    /\ work' = [r \in Requests |-> NoWork]
    /\ UNCHANGED <<database, used, req, target, reply, did, alone>>

-----------------------------------------------------------------------------
Step(r) ==
    \/ UpdateFields(r) \/ Begin(r) \/ InsertTask(r) \/ Clear(r) \/ DeleteLinks(r)
    \/ Attach(r) \/ AttachFails(r) \/ Commit(r) \/ Read(r)
    \/ LockRow(r) \/ DeleteMissing(r) \/ Cascade(r) \/ InsertTag(r) \/ DuplicateTag(r)

AllAnswered == (\A r \in Requests : pc[r] \in {"done", "lost"}) /\ UNCHANGED vars

Next ==
    \/ \E r \in Requests :
         Receive(r) \/ Reject(r) \/ Step(r) \/ DeadlockDetected(r) \/ StatementFails(r)
    \/ Crash
    \/ AllAnswered

\* Goroutines are scheduled, PostgreSQL answers, its deadlock detector runs.
Fairness == \A r \in Requests : WF_vars(Step(r)) /\ WF_vars(DeadlockDetected(r))

Spec == Init /\ [][Next]_vars /\ Fairness

-----------------------------------------------------------------------------
TypeOK ==
    /\ owner \in [Rows -> Users \cup {NoUser}]
    /\ links \subseteq Links
    /\ used \subseteq Rows
    /\ req \in [Requests -> Menu \cup {NoInput}]
    /\ pc \in [Requests -> PCs]
    /\ target \in [Requests -> Rows \cup {NoRow}]
    /\ tx \in [Requests -> {"none", "open", "aborted"}]
    /\ work \in [Requests -> Work]
    /\ reply \in [Requests -> {0, 200, 201, 204, 400, 404, 500}]
    /\ did \in [Requests -> SUBSET {"row", "fields", "tags", "gone"}]
    /\ alone \in [Requests -> BOOLEAN]
    /\ faults \in 0..MaxFaults

\* "ON DELETE CASCADE means removing a task or tag cleans up automatically"
\* (001_schema.sql:121): whatever deletes and attachments overlap, a row of
\* task_tags names a task and a tag that exist.
ReferentialIntegrity == \A l \in links : Live(l[1]) /\ Live(l[2])

\* The statements of Create become visible together: a task appears with all the
\* tags its request asked for, and with no other.
CreatedWithItsTags ==
    [][\A t \in TaskIds :
         owner[t] = NoUser /\ owner'[t] # NoUser
           => \E r \in Requests : /\ work[r].new = t
                                 /\ LinksOf(t)' = {t} \X ToSet(req[r].tags)]_vars

\* A tag replacement during which no other request committed a change to the
\* task's tags leaves exactly the tags of the request.
RetagExact ==
    [][\A r \in Requests :
         "tags" \in did'[r] \ did[r] /\ alone[r]
           => LinksOf(target[r])' = {target[r]} \X ToSet(req[r].tags)]_vars

\* However a request ends (an error, a panic, a crash, a deadlock), it leaves no
\* transaction open and no row locked: a connection goes back to the pool clean.
NothingHeldAtTheEnd ==
    \A r \in Requests : pc[r] \in Resting => tx[r] = "none" /\ work[r] = NoWork

\* Every request that a goroutine has begun to serve ends.
EveryRequestEnds == \A r \in Requests : pc[r] # "idle" ~> pc[r] \in {"done", "lost"}

\* Nobody sends a list of tags for a task of another user.  The code does not see to that
\* (OwnTasksOnly, below): it is what the clients must do for the service to be kept.
RetagsOwn ==
    \A r \in Requests :
      req[r] # NoInput /\ req[r].op = "retag" => owner[req[r].id] \in {req[r].user, NoUser}

\* The statements implement the atomic effects and answers of TaskService, as long as
\* replacements are sent for the user's own tasks.
Service == INSTANCE TaskService WITH owner <- owner, links <- links
ImplementsTaskService == Service!Spec

\* "failed to create task" (handler/tasks.go:39): a create answered with 500 has
\* left nothing behind.
FailedCreateLeavesNothing ==
    \A r \in Requests : reply[r] = 500 /\ req[r].op = "create" => did[r] = {}

\* "failed to update task" (handler/tasks.go:71) is the answer of an update that
\* did not take effect: one answered with 200 has replaced the tags.
AcknowledgedRetagIsApplied ==
    \A r \in Requests : reply[r] = 200 /\ req[r].op = "retag" => "tags" \in did[r]

\* "Users can only manage task_tags for their own tasks" (001_schema.sql:132): a tag
\* replacement changes the links of a task for nobody but its owner.
OwnTasksOnly ==
    [][\A r \in Requests :
         "tags" \in did'[r] \ did[r] /\ links' # links => owner[target[r]] = req[r].user]_vars

=============================================================================
