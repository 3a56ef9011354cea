----------------------------- MODULE ItemStore -----------------------------
(***************************************************************************)
(* Bucket list items and notes: the handlers of internal/handler/          *)
(* features.go over BucketRepository and NoteRepository (internal/         *)
(* repository/others.go).  Each request is one statement that commits by   *)
(* itself.  A statement takes its snapshot and its NOW() when it starts,   *)
(* waits for the row if another statement has it, and is applied to the    *)
(* row as it is then: so statements may take effect in another order than  *)
(* they started.  A client that is cut off is answered with an error, or   *)
(* not at all, while PostgreSQL may still run the statement it was sent.   *)
(***************************************************************************)
EXTENDS Integers, FiniteSets

CONSTANTS Bucket, Notes,     \* the ids of the rows of the two tables
          Requests, NoRequest,
          Titles,            \* texts a client writes
          Keep,              \* a field the body leaves out (a nil pointer)
          Absent,            \* no such row
          Menu, NoInput,     \* what clients send
          InitRow,           \* the tables at start
          MaxTime, MaxFaults \* bounds on the clock and on broken connections

Ids == Bucket \cup Notes
NoTime == -1                 \* completed_at IS NULL
Fields == {"title", "done"}
Row == [title : Titles, done : BOOLEAN, stamp : {NoTime} \cup 0..MaxTime]
\* The id of a create is the one gen_random_uuid() will return.
Inputs == [op : {"create", "patch", "delete", "get"}, id : Ids,
           title : Titles \cup {Keep}, done : BOOLEAN \cup {Keep}]

ASSUME ConstantsAssumption ==
    /\ Bucket \cap Notes = {}
    /\ Keep \notin Titles \cup BOOLEAN
    /\ Absent \notin Row \cup [Fields -> Titles \cup BOOLEAN]
    /\ NoRequest \notin Requests /\ NoInput \notin Inputs
    /\ MaxTime \in Nat /\ MaxFaults \in Nat
ASSUME MenuAssumption ==
    /\ Menu \subseteq Inputs
    /\ \A in \in Menu : /\ in.op = "create" => in.title # Keep
                        /\ in.op = "get" => in.id \in Notes
                        /\ in.id \in Notes => in.done = Keep
ASSUME InitAssumption ==
    /\ InitRow \in [Ids -> Row \cup {Absent}]
    /\ \A i \in Ids : InitRow[i] # Absent =>
         IF i \in Bucket THEN InitRow[i].done = (InitRow[i].stamp # NoTime) /\ InitRow[i].stamp <= 0
                         ELSE ~InitRow[i].done /\ InitRow[i].stamp = 0

VARIABLES
    row,     \* the committed rows: stamp is completed_at of an item, updated_at of a note
    used,    \* the ids of all rows inserted so far
    now,     \* PostgreSQL's clock
    req,     \* what a request asks
    pc,      \* where its statement is
    seen,    \* the row in the snapshot of its statement
    began,   \* NOW() in its statement
    reply,   \* the status it was answered with, 0 if none
    writer,  \* history: the last request that wrote each field of each row
    before,  \* history: the requests that had succeeded when it was sent
    faults

vars == <<row, used, now, req, pc, seen, began, reply, writer, before, faults>>

Init ==
    /\ row = InitRow /\ used = {i \in Ids : InitRow[i] # Absent} /\ now = 0
    /\ req = [r \in Requests |-> NoInput]
    /\ pc = [r \in Requests |-> "idle"]
    /\ seen = [r \in Requests |-> Absent]
    /\ began = [r \in Requests |-> NoTime]
    /\ reply = [r \in Requests |-> 0]
    /\ writer = [i \in Ids |-> [f \in Fields |-> NoRequest]]
    /\ before = [r \in Requests |-> {}]
    /\ faults = 0

Successes == {200, 201, 204}
Succeeded(r) == reply[r] \in Successes
Running(r, op) == pc[r] \in {"running", "orphan"} /\ req[r].op = op

\* The goroutine of an orphan has answered already.
Answer(r, code) ==
    /\ pc' = [pc EXCEPT ![r] = "done"]
    /\ reply' = IF pc[r] = "orphan" THEN reply ELSE [reply EXCEPT ![r] = code]

Tick ==
    /\ now < MaxTime /\ now' = now + 1
    /\ UNCHANGED <<row, used, req, pc, seen, began, reply, writer, before, faults>>

Creates(r, i) == req[r] # NoInput /\ req[r].op = "create" /\ req[r].id = i

Receive(r) ==
    /\ pc[r] = "idle"
    /\ \E in \in Menu :
         /\ IF in.op = "create" THEN in.id \notin used /\ ~\E s \in Requests : Creates(s, in.id)
                                ELSE in.id \in used
         /\ req' = [req EXCEPT ![r] = in]
    /\ pc' = [pc EXCEPT ![r] = "sent"]
    /\ before' = [before EXCEPT ![r] = {s \in Requests : Succeeded(s)}]
    /\ UNCHANGED <<row, used, now, seen, began, reply, writer, faults>>

\* An undecodable body, an empty title.
Reject(r) ==
    /\ pc[r] = "idle"
    /\ Answer(r, 400)
    /\ UNCHANGED <<row, used, now, req, seen, began, writer, before, faults>>

Start(r) ==
    /\ pc[r] = "sent" /\ pc' = [pc EXCEPT ![r] = "running"]
    /\ seen' = [seen EXCEPT ![r] = row[req[r].id]]
    /\ began' = [began EXCEPT ![r] = now]
    /\ UNCHANGED <<row, used, now, req, reply, writer, before, faults>>

-----------------------------------------------------------------------------
Named(in) == {f \in Fields : in[f] # Keep}
Wrote(r, i, fields) ==
    writer' = [writer EXCEPT ![i] = [f \in Fields |-> IF f \in fields THEN r ELSE @[f]]]

Create(r) ==
    LET i == req[r].id IN
    /\ Running(r, "create")
    /\ row' = [row EXCEPT ![i] = [title |-> req[r].title, done |-> FALSE,
                                 stamp |-> IF i \in Bucket THEN NoTime ELSE began[r]]]
    /\ used' = used \cup {i}
    /\ Wrote(r, i, Fields)
    /\ Answer(r, 201)
    /\ UNCHANGED <<now, req, seen, began, before, faults>>

\* Mutant: marking an item as not done forgets completed_at.
StampKept(i, old, in, time) == IF i \in Notes \/ in.done = TRUE THEN time ELSE old

\* Mutant: a patch of a note leaves updated_at alone.
StampOfItems(i, old, in, time) ==
    CASE i \in Notes     -> old
      [] in.done = TRUE  -> time
      [] in.done = FALSE -> NoTime
      [] OTHER           -> old

\* completed_at=NOW(), completed_at=NULL or left alone; updated_at=NOW().
Stamp(i, old, in, time) ==
    CASE i \in Notes     -> time
      [] in.done = TRUE  -> time
      [] in.done = FALSE -> NoTime
      [] OTHER           -> old

\* Mutant: the handler reads the row, changes it and writes it back.
PatchFromSnapshot(in, old, time, snapshot) ==
    [title |-> IF in.title = Keep THEN snapshot.title ELSE in.title,
     done  |-> IF in.done = Keep THEN snapshot.done ELSE in.done,
     stamp |-> Stamp(in.id, snapshot.stamp, in, time)]

\* COALESCE over the row as it is now, whatever the snapshot held.
Patch(in, old, time, snapshot) ==
    [title |-> IF in.title = Keep THEN old.title ELSE in.title,
     done  |-> IF in.done = Keep THEN old.done ELSE in.done,
     stamp |-> Stamp(in.id, old.stamp, in, time)]

\* Mutant: an upsert, which brings a deleted row back.
Upsert(r) ==
    LET i == req[r].id IN
    /\ Running(r, "patch") /\ seen[r] # Absent
    /\ row' = [row EXCEPT ![i] = Patch(req[r], IF @ = Absent THEN seen[r] ELSE @, began[r], seen[r])]
    /\ Wrote(r, i, Named(req[r]))
    /\ Answer(r, 200)
    /\ UNCHANGED <<used, now, req, seen, began, before, faults>>

Update(r) ==
    LET i == req[r].id IN
    /\ Running(r, "patch")
    /\ seen[r] # Absent /\ row[i] # Absent
    /\ row' = [row EXCEPT ![i] = Patch(req[r], @, began[r], seen[r])]
    /\ Wrote(r, i, Named(req[r]))
    /\ Answer(r, 200)
    /\ UNCHANGED <<used, now, req, seen, began, before, faults>>

\* No row: Scan reports pgx.ErrNoRows, which is not model.ErrNotFound.
UpdateMissing(r) ==
    /\ Running(r, "patch")
    /\ seen[r] = Absent \/ row[req[r].id] = Absent
    /\ Answer(r, 500)
    /\ UNCHANGED <<row, used, now, req, seen, began, writer, before, faults>>

\* Mutant: RowsAffected is not looked at.
DeleteUnchecked(r) ==
    /\ Running(r, "delete")
    /\ row' = IF seen[r] # Absent THEN [row EXCEPT ![req[r].id] = Absent] ELSE row
    /\ Answer(r, 204)
    /\ UNCHANGED <<used, now, req, seen, began, writer, before, faults>>

Delete(r) ==
    LET found == seen[r] # Absent /\ row[req[r].id] # Absent IN
    /\ Running(r, "delete")
    /\ row' = IF found THEN [row EXCEPT ![req[r].id] = Absent] ELSE row
    /\ Answer(r, IF found THEN 204 ELSE 404)
    /\ UNCHANGED <<used, now, req, seen, began, writer, before, faults>>

\* GetNote answers from its snapshot.
Get(r) ==
    /\ Running(r, "get")
    /\ Answer(r, IF seen[r] # Absent THEN 200 ELSE 404)
    /\ UNCHANGED <<row, used, now, req, seen, began, writer, before, faults>>

-----------------------------------------------------------------------------
Fault == faults < MaxFaults /\ faults' = faults + 1

\* Mutant: "service unavailable", as the AI handlers have "bad gateway".
CodeUnavailable(r) == 503

\* GetByID takes every error for a missing row (line 97).
CodeOfFailure(r) == IF req[r].op = "get" THEN 404 ELSE 500

\* The statement does not run: no connection, a broken one, a cancelled request, a
\* text the CHECK constraints refuse.
StatementFails(r) ==
    /\ pc[r] \in {"sent", "running"}
    /\ Fault
    /\ Answer(r, CodeOfFailure(r))
    /\ UNCHANGED <<row, used, now, req, seen, began, writer, before>>

\* The handler gives the statement up, PostgreSQL does not yet know.
CutOff(r) ==
    /\ pc[r] = "running"
    /\ Fault
    /\ pc' = [pc EXCEPT ![r] = "orphan"]
    /\ reply' = [reply EXCEPT ![r] = CodeOfFailure(r)]
    /\ UNCHANGED <<row, used, now, req, seen, began, writer, before>>

OrphanCancelled(r) ==
    /\ pc[r] = "orphan"
    /\ pc' = [pc EXCEPT ![r] = "done"]
    /\ UNCHANGED <<row, used, now, req, seen, began, reply, writer, before, faults>>

AllAnswered == (\A r \in Requests : pc[r] = "done") /\ UNCHANGED vars

Next ==
    \/ Tick
    \/ \E r \in Requests :
         \/ Receive(r) \/ Reject(r) \/ Start(r)
         \/ Create(r) \/ Update(r) \/ UpdateMissing(r) \/ Delete(r) \/ Get(r)
         \/ StatementFails(r) \/ CutOff(r) \/ OrphanCancelled(r)
    \/ AllAnswered

Spec == Init /\ [][Next]_vars

-----------------------------------------------------------------------------
TypeOK ==
    /\ row \in [Ids -> Row \cup {Absent}]
    /\ used \subseteq Ids
    /\ now \in 0..MaxTime
    /\ req \in [Requests -> Menu \cup {NoInput}]
    /\ pc \in [Requests -> {"idle", "sent", "running", "orphan", "done"}]
    /\ seen \in [Requests -> Row \cup {Absent}]
    /\ began \in [Requests -> {NoTime} \cup 0..MaxTime]
    /\ reply \in [Requests -> {0, 200, 201, 204, 400, 404, 500}]
    /\ writer \in [Ids -> [Fields -> Requests \cup {NoRequest}]]
    /\ before \in [Requests -> SUBSET Requests]
    /\ faults \in 0..MaxFaults

\* is_done and completed_at, two columns written by one statement whose text
\* depends on the body, always agree: an item has a completion time exactly when
\* it is done, whatever patches overlap.
DoneHasItsTime ==
    \A i \in Bucket : row[i] # Absent => (row[i].done <=> row[i].stamp # NoTime)

\* Patches from several devices do not undo each other.  A field holds what the
\* last request that named it wrote, and that request is not one that had already
\* succeeded when a later successful patch of the field was sent.
PatchesMerge ==
    \A i \in Ids, f \in Fields :
       row[i] # Absent =>
         LET w == writer[i][f] IN
         /\ w # NoRequest /\ req[w].op = "patch" => row[i][f] = req[w][f]
         /\ \A r \in Requests :
              Succeeded(r) /\ req[r].op = "patch" /\ req[r].id = i /\ f \in Named(req[r])
                => w # NoRequest /\ w \notin before[r]

\* A patch of row i that names no field.
Untitled(i) ==
    \E r \in Requests : req[r] # NoInput /\ req[r].op = "patch" /\ req[r].id = i /\ Named(req[r]) = {}

\* The list of notes, by updated_at (others.go:77), puts a note whose change was sent after
\* another's had been answered no lower, although NOW() is the start of the statement and
\* statements commit in any order.  (A patch that names no field moves a note, too, and
\* back as well as forth.)
ListFollowsAnswers ==
    \A i, j \in Notes :
       LET wi == writer[i]["title"]  wj == writer[j]["title"] IN
       row[i] # Absent /\ row[j] # Absent /\ wj # NoRequest /\ wi \in before[wj] =>
         row[i].stamp <= row[j].stamp \/ Untitled(i) \/ Untitled(j)

\* A deleted row stays deleted: no patch that started before the DELETE, and none
\* that an interrupted handler left behind, brings it back.
DeletedForGood ==
    [][\A i \in Ids : row[i] = Absent /\ i \in used => row'[i] = Absent]_vars

\* Every request has its effect on the row as it is at one moment, at most once, and its
\* answer agrees with it, whatever its snapshot held and however late it is executed.
Content(x) == IF x = Absent THEN Absent ELSE [f \in Fields |-> x[f]]
Service == INSTANCE ItemService
             WITH NoItem <- Absent, InitItem <- [i \in Ids |-> Content(InitRow[i])],
                  item <- [i \in Ids |-> Content(row[i])], saw <- [r \in Requests |-> Content(seen[r])],
                  open <- {r \in Requests : pc[r] \in {"sent", "running", "orphan"}}
ImplementsItemService == Service!Spec
=============================================================================
