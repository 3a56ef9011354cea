----------------------------- MODULE HabitStore -----------------------------
(***************************************************************************)
(* Habits and their daily logs: the handlers of internal/handler/          *)
(* features.go over HabitRepository (internal/repository/others.go) and    *)
(* the tables habits and habit_logs (migrations/001_schema.sql).  Each     *)
(* request is one statement that commits by itself, in the steps in which  *)
(* other statements can come between: the INSERT of a log takes its place  *)
(* in the unique index, then its foreign key check waits for a DELETE of   *)
(* the habit; the DELETE of a log removes the row that it found in its     *)
(* snapshot; the DELETE of a habit locks it, then removes it with its logs.*)
(* ListWithWeekLogs is in Lists.                                           *)
(***************************************************************************)
EXTENDS Integers, FiniteSets

CONSTANTS Habits, Names, NoName, Days,
          Requests,
          Seeder,           \* who inserted the rows that are there at start
          Menu, NoInput,    \* what clients send
          InitName, InitDays,
          MaxFaults         \* bound on broken connections and crashes

\* The habit of a create is the id gen_random_uuid() will return.
Inputs == [op : {"create", "delete", "done", "undo"}, habit : Habits, day : Days,
           name : Names \cup {NoName}]
\* A row of habit_logs; the request that inserted it tells it from later ones.
Rows == Habits \X Days \X (Requests \cup {Seeder})

ASSUME ConstantsAssumption ==
    /\ NoName \notin Names /\ NoInput \notin Inputs /\ Seeder \notin Requests
    /\ MaxFaults \in Nat
ASSUME MenuAssumption ==
    /\ Menu \subseteq Inputs
    /\ \A in \in Menu : in.op = "create" <=> in.name \in Names
ASSUME InitAssumption ==
    /\ InitName \in [Habits -> Names \cup {NoName}]
    /\ \A g, h \in Habits : g # h /\ InitName[g] = InitName[h] => InitName[g] = NoName
    /\ InitDays \subseteq {p \in Habits \X Days : InitName[p[1]] # NoName}

VARIABLES
    name,   \* committed rows of habits
    rows,   \* committed rows of habit_logs
    used,   \* the ids of all habits so far
    req, pc,
    seen,   \* the rows a DELETE found in its snapshot
    reply,  \* the status answered, 0 if none, Lost if the process died first
    did,    \* history: the requests that have changed something, or stored a row
    held,   \* history: those whose day has stood as they ask since they were sent
    faults

vars == <<name, rows, used, req, pc, seen, reply, did, held, faults>>
tables == <<name, rows, used>>

Lost == -1

Init ==
    /\ name = InitName
    /\ rows = {<<p[1], p[2], Seeder>> : p \in InitDays}
    /\ used = {h \in Habits : InitName[h] # NoName}
    /\ req = [r \in Requests |-> NoInput]
    /\ pc = [r \in Requests |-> "idle"]
    /\ seen = [r \in Requests |-> {}]
    /\ reply = [r \in Requests |-> 0]
    /\ did = {} /\ held = {} /\ faults = 0

Logged == {<<x[1], x[2]>> : x \in rows}
DayOf(r) == <<req[r].habit, req[r].day>>
RowsOf(r) == {x \in rows : <<x[1], x[2]>> = DayOf(r)}
AsAsked(r) ==
    /\ req[r] # NoInput
    /\ \/ req[r].op = "done" /\ DayOf(r) \in Logged
       \/ req[r].op = "undo" /\ DayOf(r) \notin Logged

\* Whom a statement waits for: one that has locked the habit to delete it, one that
\* has taken the place of the same day and is not through.
Deleting(h) == \E s \in Requests : pc[s] = "cascade" /\ req[s].habit = h
Inserting(r) == \E s \in Requests : pc[s] = "check" /\ DayOf(s) = DayOf(r)

Goto(r, p) == pc' = [pc EXCEPT ![r] = p] /\ UNCHANGED reply
\* A statement whose handler has answered goes on without one.
Answer(r, code) ==
    /\ pc' = [pc EXCEPT ![r] = "done"]
    /\ reply' = IF reply[r] = 0 THEN [reply EXCEPT ![r] = code] ELSE reply

FirstStep == [create |-> "create", delete |-> "delete", done |-> "insert", undo |-> "undo"]

Receive(r) ==
    /\ pc[r] = "idle"
    /\ \E in \in Menu :
         /\ IF in.op = "create"
            THEN in.habit \notin used \cup {req[s].habit : s \in {s \in Requests : req[s] # NoInput}}
            ELSE in.habit \in used
         /\ req' = [req EXCEPT ![r] = in]
         /\ Goto(r, FirstStep[in.op])
    /\ UNCHANGED <<tables, seen, did, faults>>

\* An undecodable body, an empty name or date.
Reject(r) ==
    /\ pc[r] = "idle"
    /\ Answer(r, 400)
    /\ UNCHANGED <<tables, req, seen, did, faults>>

-----------------------------------------------------------------------------
\* Mutant: a name that is taken is answered with 409.
CreateConflicts(r) ==
    /\ pc[r] = "create"
    /\ \E h \in Habits : name[h] = req[r].name
    /\ Answer(r, 409)
    /\ UNCHANGED <<tables, req, seen, did, faults>>

\* UNIQUE (user_id, name): the INSERT waits for a DELETE of the habit with its name.
Create(r) ==
    LET taken == {h \in Habits : name[h] = req[r].name} IN
    /\ pc[r] = "create" /\ \A h \in taken : ~Deleting(h)
    /\ IF taken # {}
       THEN Answer(r, 500) /\ UNCHANGED <<tables, did>>
       ELSE /\ name' = [name EXCEPT ![req[r].habit] = req[r].name]
            /\ used' = used \cup {req[r].habit}
            /\ did' = did \cup {r}
            /\ Answer(r, 201) /\ UNCHANGED rows
    /\ UNCHANGED <<req, seen, faults>>

LockHabit(r) ==
    LET h == req[r].habit IN
    /\ pc[r] = "delete" /\ ~Deleting(h)
    /\ IF name[h] = NoName THEN Answer(r, 404) /\ UNCHANGED seen
       ELSE /\ seen' = [seen EXCEPT ![r] = {x \in rows : x[1] = h}]
            /\ Goto(r, "cascade")
    /\ UNCHANGED <<tables, req, did, faults>>

Cascade(r) ==
    /\ pc[r] = "cascade"
    /\ name' = [name EXCEPT ![req[r].habit] = NoName]
    /\ rows' = rows \ seen[r] /\ did' = did \cup {r}
    /\ Answer(r, 204)
    /\ UNCHANGED <<used, req, seen, faults>>

-----------------------------------------------------------------------------
\* Mutant: the table without its UNIQUE constraint.
InsertUnlessSeen(r) ==
    /\ pc[r] = "insert"
    /\ IF RowsOf(r) # {} THEN Answer(r, 204) ELSE Goto(r, "check")
    /\ UNCHANGED <<tables, req, seen, did, faults>>

\* ON CONFLICT (habit_id,user_id,logged_date) DO NOTHING.
Insert(r) ==
    /\ pc[r] = "insert" /\ ~Inserting(r)
    /\ IF RowsOf(r) # {} THEN Answer(r, 204) ELSE Goto(r, "check")
    /\ UNCHANGED <<tables, req, seen, did, faults>>

\* Mutants: a foreign key check without a lock, an error that is not looked at, one
\* that is tried again.
CheckWithoutLock(r) ==
    /\ pc[r] = "check"
    /\ IF name[req[r].habit] = NoName
       THEN Answer(r, 500) /\ UNCHANGED <<rows, did>>
       ELSE /\ rows' = rows \cup {<<req[r].habit, req[r].day, r>>}
            /\ did' = did \cup {r}
            /\ Answer(r, 204)
    /\ UNCHANGED <<name, used, req, seen, faults>>
CheckIgnored(r) ==
    /\ pc[r] = "check" /\ ~Deleting(req[r].habit)
    /\ rows' = IF name[req[r].habit] = NoName THEN rows
               ELSE rows \cup {<<req[r].habit, req[r].day, r>>}
    /\ did' = IF name[req[r].habit] = NoName THEN did ELSE did \cup {r}
    /\ Answer(r, 204)
    /\ UNCHANGED <<name, used, req, seen, faults>>
CheckRetried(r) ==
    /\ pc[r] = "check" /\ ~Deleting(req[r].habit)
    /\ IF name[req[r].habit] = NoName
       THEN Goto(r, "insert") /\ UNCHANGED <<rows, did>>
       ELSE /\ rows' = rows \cup {<<req[r].habit, req[r].day, r>>}
            /\ did' = did \cup {r}
            /\ Answer(r, 204)
    /\ UNCHANGED <<name, used, req, seen, faults>>

\* The foreign key check, and the commit.
Check(r) ==
    /\ pc[r] = "check" /\ ~Deleting(req[r].habit)
    /\ IF name[req[r].habit] = NoName
       THEN Answer(r, 500) /\ UNCHANGED <<rows, did>>
       ELSE /\ rows' = rows \cup {<<req[r].habit, req[r].day, r>>}
            /\ did' = did \cup {r}
            /\ Answer(r, 204)
    /\ UNCHANGED <<name, used, req, seen, faults>>

\* DELETE FROM habit_logs: the snapshot, then the row, if it is still there.
Undo(r) ==
    /\ pc[r] = "undo"
    /\ seen' = [seen EXCEPT ![r] = RowsOf(r)]
    /\ Goto(r, "undoing")
    /\ UNCHANGED <<tables, req, did, faults>>

Undoing(r) ==
    /\ pc[r] = "undoing"
    /\ rows' = rows \ seen[r]
    /\ did' = IF seen[r] \cap rows # {} THEN did \cup {r} ELSE did
    /\ Answer(r, 204)
    /\ UNCHANGED <<name, used, req, seen, faults>>

-----------------------------------------------------------------------------
Active(r) == pc[r] \notin {"idle", "done"}
Fault == faults < MaxFaults /\ faults' = faults + 1

\* No connection, a broken one, a text that is no date or that a CHECK refuses.
StatementFails(r) ==
    /\ Active(r) /\ reply[r] = 0
    /\ Fault /\ Answer(r, 500)
    /\ UNCHANGED <<tables, req, seen, did>>

\* The handler gives the statement up, PostgreSQL does not yet know.
CutOff(r) ==
    /\ Active(r) /\ reply[r] = 0
    /\ Fault /\ reply' = [reply EXCEPT ![r] = 500]
    /\ UNCHANGED <<tables, req, pc, seen, did>>

\* The process dies; PostgreSQL goes on with what it was sent until it notices.
Crash ==
    /\ Fault
    /\ reply' = [r \in Requests |-> IF Active(r) /\ reply[r] = 0 THEN Lost ELSE reply[r]]
    /\ UNCHANGED <<tables, req, pc, seen, did>>

OrphanCancelled(r) ==
    /\ Active(r) /\ reply[r] # 0
    /\ pc' = [pc EXCEPT ![r] = "done"]
    /\ UNCHANGED <<tables, req, seen, reply, did, faults>>

Step(r) ==
    \/ Create(r) \/ LockHabit(r) \/ Cascade(r) \/ Insert(r) \/ Check(r) \/ Undo(r) \/ Undoing(r)

AllAnswered ==
    /\ \A r \in Requests : pc[r] = "done"
    /\ UNCHANGED <<tables, req, pc, seen, reply, did, faults>>

Observe == held' = held \cup {r \in Requests : reply[r] = 0 /\ AsAsked(r)'}

Next ==
    /\ \/ \E r \in Requests : Receive(r) \/ Reject(r) \/ Step(r)
                              \/ StatementFails(r) \/ CutOff(r) \/ OrphanCancelled(r)
       \/ Crash \/ AllAnswered
    /\ Observe

\* Goroutines are scheduled and PostgreSQL answers; no deadlock detector is needed.
Fairness == \A r \in Requests : WF_vars(Step(r) /\ Observe)

Spec == Init /\ [][Next]_vars /\ Fairness

-----------------------------------------------------------------------------
TypeOK ==
    /\ name \in [Habits -> Names \cup {NoName}]
    /\ rows \subseteq Rows /\ used \subseteq Habits
    /\ req \in [Requests -> Menu \cup {NoInput}]
    /\ pc \in [Requests -> {"idle", "create", "delete", "cascade", "insert", "check",
                            "undo", "undoing", "done"}]
    /\ seen \in [Requests -> SUBSET Rows]
    /\ reply \in [Requests -> {0, Lost, 201, 204, 400, 404, 500}]
    /\ did \subseteq Requests /\ held \subseteq Requests
    /\ faults \in 0..MaxFaults

\* "One row per (habit, user, date)" (001_schema.sql:225), however often and from
\* wherever a day is logged at once.
OneLogADay == \A x, y \in rows : <<x[1], x[2]>> = <<y[1], y[2]>> => x = y

\* No log is left behind by, or slips past, the deletion of its habit.
LogsHaveHabits == \A x \in rows : name[x[1]] # NoName

\* Every request has its effect at one moment and its answer agrees with it: the
\* days are registers, also for a DELETE that looked at an old snapshot.
Service == INSTANCE HabitService WITH days <- Logged
ImplementsHabitService == Service!Spec

\* Statements that wait for each other's rows never do so in a circle.
EveryRequestEnds == \A r \in Requests : pc[r] # "idle" ~> pc[r] = "done"
=============================================================================
