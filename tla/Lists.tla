------------------------------- MODULE Lists --------------------------------
(***************************************************************************)
(* The lists: ListTasks and List (handler/tasks.go, repository/tasks.go),  *)
(* ListTags, and of repository/others.go the lists of bucket items, notes, *)
(* habits, focus sessions and moods.  A handler puts its query together,   *)
(* with a numbered parameter for each filter that was given and, for       *)
(* due=today, the day it is; later PostgreSQL runs it on the rows and at   *)
(* the time of that moment.  Between the two rows change and a day may     *)
(* end.  Sessions and moods are only ever added, by the requests here.     *)
(* One table at a time; a row is a record of the columns that the queries  *)
(* look at.                                                                *)
(***************************************************************************)
EXTENDS Integers, Sequences, FiniteSets

CONSTANTS Ids, Gone,
          Tables,            \* initial contents: records [name, rows]
          RowsOf(_),         \* what a row of a table may be changed to
          Menu(_, _),        \* the filters that a request may have; "" is not given
          Entries(_),        \* the bodies [at] of new sessions and moods
          Requests, NoInput,
          None,              \* NULL, and what a client leaves out
          FocusPage, MoodPage,   \* 50 and 30
          DayLength,         \* ticks in a day; day 0 is a Monday
          Local, Session,    \* the time zones of the process and of the database
          Start, End,        \* bounds of the clock
          MaxWrites, MaxFaults   \* bounds on changes and on failed queries

Journals == {"focus", "mood"}
Names == {"tasks", "tags", "bucket", "notes", "habits"} \cup Journals

Year1 == -1   \* the zero time.Time, long before the clock starts

\* The field of the time is no pointer: one that the body leaves out is the zero time.
TimeOf(body) == IF body.at = None THEN Year1 ELSE body.at

ASSUME ConstantsAssumption ==
    /\ IsFiniteSet(Ids) /\ None \notin Int
    /\ DayLength \in Nat \ {0} /\ Start \in Nat /\ End \in Nat /\ Start <= End
    /\ Local \in Int /\ Session \in Int /\ Start + Session >= 0
    /\ MaxWrites \in Nat /\ MaxFaults \in Nat
    /\ FocusPage \in Nat \ {0} /\ MoodPage \in Nat \ {0}

\* The types and CHECKs of the columns.
ASSUME RowsAssumption ==
    /\ \A t \in Tables : t.name \in Names /\ t.rows \in [Ids -> RowsOf(t.name) \cup {Gone}]
    /\ \A t \in Names : Gone \notin RowsOf(t)
    /\ \A row \in RowsOf("tasks") :
         /\ row.priority \in {"high", "medium", "low"} /\ row.due \in Int \cup {None}
         /\ row.at \in Int /\ None \notin row.tags
    /\ \A row \in RowsOf("bucket") : row.is_done \in BOOLEAN /\ row.at \in Int
    /\ \A row \in RowsOf("habits") : row.days \subseteq Nat
    /\ \A t \in Journals \cup {"notes"} : \A row \in RowsOf(t) : row.at \in Int

ASSUME InputsAssumption ==
    /\ \A r \in Requests, t \in Names :
         NoInput \notin Menu(r, t) \cup Entries(t) /\ Menu(r, t) \cap Entries(t) = {}
    /\ \A r \in Requests : \A f \in Menu(r, "mood") : f.limit \in Int \cup {None}
    /\ \A t \in Names \ Journals : Entries(t) = {}
    /\ \A t \in Journals : \A body \in Entries(t) : [at |-> TimeOf(body)] \in RowsOf(t)

VARIABLES table, rows, clock,
          req, query,   \* the filters, and the query made of them
          sent,         \* when the request came
          list, reply,
          late,         \* the requests whose INSERT may still be executed
          writes, faults

vars == <<table, rows, clock, req, query, sent, list, reply, late, writes, faults>>

DayIn(zone, t) == (t + zone) \div DayLength

Init ==
    /\ \E t \in Tables : table = t.name /\ rows = t.rows
    /\ clock = Start
    /\ req = [r \in Requests |-> NoInput] /\ query = [r \in Requests |-> NoInput]
    /\ sent = [r \in Requests |-> Start]
    /\ list = [r \in Requests |-> <<>>] /\ reply = [r \in Requests |-> 0]
    /\ late = {} /\ writes = 0 /\ faults = 0

Tick == clock < End /\ clock' = clock + 1
        /\ UNCHANGED <<table, rows, req, query, sent, list, reply, late, writes, faults>>

\* Another request changes a row; what it may do is in TaskStore, ItemStore, HabitStore.
Write(i) ==
    /\ table \notin Journals
    /\ writes < MaxWrites /\ writes' = writes + 1
    /\ \E row \in RowsOf(table) \cup {Gone} : rows' = [rows EXCEPT ![i] = row]
    /\ UNCHANGED <<table, clock, req, query, sent, list, reply, late, faults>>

-----------------------------------------------------------------------------
(* Conditions, and the arguments that they refer to by number; $1 is the user. *)

Blank == [where |-> <<>>, args |-> <<"user">>, n |-> 2]

\* Mutant: n is not counted up after the first filter of the notes.
AndStale(q, column, value) ==
    [where |-> Append(q.where, [column |-> column, n |-> q.n]),
     args |-> Append(q.args, value), n |-> IF column = "tag_label" THEN q.n ELSE q.n + 1]
And(q, column, value) ==
    [where |-> Append(q.where, [column |-> column, n |-> q.n]),
     args |-> Append(q.args, value), n |-> q.n + 1]

AndIfGiven(q, column, value) == IF value = "" THEN q ELSE And(q, column, value)

TaskQuery(f, today) ==
    LET q == AndIfGiven(AndIfGiven(Blank, "status", f.status), "priority", f.priority) IN
    CASE f.due = "today"   -> And(q, "day", today)
      [] f.due = "overdue" -> [q EXCEPT !.where = Append(@, [column |-> "overdue", n |-> 0])]
      [] OTHER             -> q

\* WHERE ... started_at::date = $2, only when a date is given.
SessionQuery(f) == IF f.date = None THEN Blank ELSE And(Blank, "started", f.date)

QueryFor(f, now) ==
    CASE table = "tasks"  -> TaskQuery(f, DayIn(Local, now))
      [] table = "bucket" -> AndIfGiven(Blank, "category", f.category)
      [] table = "notes"  -> AndIfGiven(AndIfGiven(Blank, "tag_label", f.tag_label), "text", f.text)
      [] table = "focus"  -> SessionQuery(f)
      [] OTHER            -> Blank

Test(condition, args, row) ==
    CASE condition.column = "day"     -> row.due # None /\ DayIn(Session, row.due) = args[condition.n]
      [] condition.column = "overdue" -> row.due # None /\ row.due < clock /\ row.status # "done"
      [] condition.column = "started" -> DayIn(Session, row.at) = args[condition.n]
      [] condition.column = "text"    -> args[condition.n] \in row.text    \* ILIKE '%...%'
      [] OTHER                        -> row[condition.column] = args[condition.n]

Selected(q) ==
    {i \in Ids : rows[i] # Gone /\ \A k \in DOMAIN q.where : Test(q.where[k], q.args, rows[i])}

-----------------------------------------------------------------------------
(* What is joined to a row, and the order. *)

Monday(day) == day - (day % 7)    \* date_trunc('week', ...)
LoggedThisWeek(row) ==
    LET monday == Monday(DayIn(Session, clock)) IN
    {d \in row.days : d >= monday /\ d < monday + 7}

Right(i) ==
    CASE table = "tasks"  -> rows[i].tags
      [] table = "habits" -> LoggedThisWeek(rows[i])
      [] OTHER            -> {}

\* Mutants: an inner join, and an aggregate without its FILTER.
InnerJoin(q) == UNION {{i} \X Right(i) : i \in Selected(q)}
LeftJoin(q) ==
    UNION {{i} \X (IF Right(i) = {} THEN {None} ELSE Right(i)) : i \in Selected(q)}

GroupUnfiltered(join, i) == [id |-> i, of |-> {p[2] : p \in {p \in join : p[1] = i}}]
Group(join, i) == [id |-> i, of |-> {p[2] : p \in {p \in join : p[1] = i /\ p[2] # None}}]

\* Mutant: ORDER BY priority.
RankByName(p) == CASE p = "high" -> 1 [] p = "low" -> 2 [] OTHER -> 3
Rank(p) == CASE p = "high" -> 1 [] p = "medium" -> 2 [] OTHER -> 3

\* ORDER BY rank, due_date ASC NULLS LAST, created_at DESC.
TaskBefore(x, y) ==
    \/ Rank(x.priority) < Rank(y.priority)
    \/ /\ Rank(x.priority) = Rank(y.priority)
       /\ \/ x.due # None /\ (y.due = None \/ x.due < y.due)
          \/ x.due = y.due /\ x.at > y.at

Before(x, y) ==
    CASE table = "tasks"  -> TaskBefore(x, y)
      [] table = "tags"   -> x.name < y.name
      [] table = "bucket" -> (~x.is_done /\ y.is_done) \/ (x.is_done = y.is_done /\ x.at > y.at)
      [] table = "habits" -> x.at < y.at
      [] OTHER            -> x.at > y.at

\* Rows that the order does not tell apart come in any order.
Sorted(S) ==
    {s \in [1..Cardinality(S) -> S] :
        \A j, k \in DOMAIN s : j < k => s[j] # s[k] /\ ~Before(rows[s[k].id], rows[s[j].id])}

\* LIMIT; of a mood list as many as asked for, if that is a positive number.
Limit(f) ==
    CASE table = "focus" -> FocusPage
      [] table = "mood"  -> IF f.limit # None /\ f.limit > 0 THEN f.limit ELSE MoodPage
      [] OTHER           -> Cardinality(Ids)

FirstOf(s, n) == IF Len(s) <= n THEN s ELSE SubSeq(s, 1, n)

Receive(r) ==
    /\ req[r] = NoInput /\ reply[r] = 0
    /\ \E f \in Menu(r, table) :
         /\ req' = [req EXCEPT ![r] = f]
         /\ query' = [query EXCEPT ![r] = QueryFor(f, clock)]
         /\ sent' = [sent EXCEPT ![r] = clock]
    /\ UNCHANGED <<table, rows, clock, list, reply, late, writes, faults>>

Listing(r) == req[r] \in Menu(r, table) /\ reply[r] = 0

Run(r) ==
    /\ Listing(r)
    /\ LET join == LeftJoin(query[r]) IN
       \E s \in Sorted({Group(join, p[1]) : p \in join}) :
         list' = [list EXCEPT ![r] = FirstOf(s, Limit(req[r]))]
    /\ reply' = [reply EXCEPT ![r] = 200]
    /\ UNCHANGED <<table, rows, clock, req, query, sent, late, writes, faults>>

\* No connection, a broken one; for a new row also a CHECK that refuses it.
QueryFails(r) ==
    /\ req[r] # NoInput /\ reply[r] = 0
    /\ faults < MaxFaults /\ faults' = faults + 1
    /\ reply' = [reply EXCEPT ![r] = 500]
    /\ UNCHANGED <<table, rows, clock, req, query, sent, list, late, writes>>

-----------------------------------------------------------------------------
(* New sessions and moods. *)

ReceiveEntry(r) ==
    /\ req[r] = NoInput /\ reply[r] = 0
    /\ \E body \in Entries(table) : req' = [req EXCEPT ![r] = body]
    /\ sent' = [sent EXCEPT ![r] = clock]
    /\ UNCHANGED <<table, rows, clock, query, list, reply, late, writes, faults>>

\* No JSON, a duration that is not positive, no mood.
Reject(r) ==
    /\ table \in Journals /\ req[r] = NoInput
    /\ reply' = [reply EXCEPT ![r] = 400]
    /\ UNCHANGED <<table, rows, clock, req, query, sent, list, late, writes, faults>>

Saving(r) == req[r] \in Entries(table) /\ reply[r] = 0
Insert(r, i) == rows[i] = Gone /\ rows' = [rows EXCEPT ![i] = [at |-> TimeOf(req[r])]]

\* Mutant: the INSERT goes on after the answer.
SaveLater(r) ==
    /\ Saving(r)
    /\ \E i \in Ids : rows[i] = Gone /\ list' = [list EXCEPT ![r] = <<[id |-> i, of |-> {}]>>]
    /\ reply' = [reply EXCEPT ![r] = 201] /\ late' = late \cup {r}
    /\ UNCHANGED <<table, rows, clock, req, query, sent, writes, faults>>
\* The answer holds the row.
Save(r) ==
    /\ Saving(r)
    /\ \E i \in Ids : Insert(r, i) /\ list' = [list EXCEPT ![r] = <<[id |-> i, of |-> {}]>>]
    /\ reply' = [reply EXCEPT ![r] = 201]
    /\ UNCHANGED <<table, clock, req, query, sent, late, writes, faults>>

\* The handler gives up an INSERT that has been sent; it may still be executed.
CutOff(r) ==
    /\ Saving(r)
    /\ faults < MaxFaults /\ faults' = faults + 1
    /\ reply' = [reply EXCEPT ![r] = 500] /\ late' = late \cup {r}
    /\ UNCHANGED <<table, rows, clock, req, query, sent, list, writes>>

Late(r) ==
    /\ r \in late /\ late' = late \ {r}
    /\ UNCHANGED rows \/ \E i \in Ids : Insert(r, i)
    /\ UNCHANGED <<table, clock, req, query, sent, list, reply, writes, faults>>

Next ==
    \/ Tick \/ \E i \in Ids : Write(i)
    \/ \E r \in Requests :
         \/ Receive(r) \/ Run(r) \/ QueryFails(r)
         \/ ReceiveEntry(r) \/ Reject(r) \/ Save(r) \/ CutOff(r) \/ Late(r)

Spec == Init /\ [][Next]_vars

-----------------------------------------------------------------------------
TypeOK ==
    /\ table \in Names
    /\ rows \in [Ids -> RowsOf(table) \cup {Gone}]
    /\ clock \in Start..End /\ sent \in [Requests -> Start..End]
    /\ \A r \in Requests : req[r] \in Menu(r, table) \cup Entries(table) \cup {NoInput}
    /\ \A r \in Requests : \A k \in DOMAIN list[r] :
         list[r][k].id \in Ids /\ None \notin list[r][k].of
    /\ reply \in [Requests -> {0, 200, 201, 400, 500}] /\ late \subseteq Requests
    /\ writes \in 0..MaxWrites /\ faults \in 0..MaxFaults

\* What a client means by its filters, on a given day.
Wanted(row, f, day) ==
    CASE table = "tasks" ->
           /\ f.status \in {"", row.status} /\ f.priority \in {"", row.priority}
           /\ f.due = "today" => row.due # None /\ DayIn(Session, row.due) = day
           /\ f.due = "overdue" => row.due # None /\ row.status # "done" /\ row.due < clock
      [] table = "bucket" -> f.category \in {"", row.category}
      [] table = "notes" -> f.tag_label \in {"", row.tag_label} /\ f.text \in {""} \cup row.text
      [] table = "focus" -> f.date \in {None, DayIn(Session, row.at)}
      [] OTHER -> TRUE

\* Nothing is left out that is newer than the last row of a page that is full.
Full(page, f, row) ==
    /\ table \in Journals /\ Len(page) = Limit(f)
    /\ \A k \in DOMAIN page : rows[page[k].id].at >= row.at

\* Two days are of one week when no Monday lies between them.
SameWeek(d, e) ==
    \A m \in 0..(d + e) : m % 7 = 0 => ((m <= d) <=> (m <= e))

\* Whatever was asked for on every day of the request is on the list, with exactly what
\* belongs to it and once, but for sessions and moods older than a full page; nothing is
\* that was asked for on none of them, also when the day ends or a row changes between the
\* handler and the query (tasks.go:24, others.go:75, 135, 193, 223).
ListAnswersTheQuestion ==
    [][\A r \in Requests : reply[r] = 0 /\ reply'[r] = 200 =>
         LET listed == {list'[r][k].id : k \in DOMAIN list'[r]}
             days == DayIn(Local, sent[r])..DayIn(Local, clock)
         IN
         /\ Len(list'[r]) = Cardinality(listed)
         /\ \A i \in Ids : rows[i] # Gone =>
              /\ (\A d \in days : Wanted(rows[i], req[r], d)) =>
                   i \in listed \/ Full(list'[r], req[r], rows[i])
              /\ i \in listed => \E d \in days : Wanted(rows[i], req[r], d)
         /\ \A k \in DOMAIN list'[r] :
              LET row == rows[list'[r][k].id] IN
              /\ row # Gone
              /\ table = "tasks" => list'[r][k].of = row.tags
              /\ table = "habits" => \A d \in row.days :
                   d \in list'[r][k].of <=> SameWeek(d, DayIn(Session, clock))]_vars

\* The most urgent first: nothing of higher priority, and of equal priority nothing due
\* earlier or dated at all, comes after (tasks.go:52); finished wishes come last
\* (others.go:20), notes, sessions and moods the newest first (others.go:77, 194, 226).
MostUrgentFirst ==
    [][\A r \in Requests : reply[r] = 0 /\ reply'[r] = 200 =>
         \A j, k \in DOMAIN list'[r] : j < k =>
           LET x == rows[list'[r][j].id]  y == rows[list'[r][k].id] IN
           /\ table = "tasks" =>
                /\ y.priority = "high" => x.priority = "high"
                /\ x.priority = "low" => y.priority = "low"
                /\ x.priority = y.priority /\ y.due # None => x.due # None /\ x.due <= y.due
           /\ table = "bucket" => (x.is_done => y.is_done)
           /\ table \in {"notes", "focus", "mood"} => x.at >= y.at]_vars

\* A session or a mood whose creation was answered is on the lists that follow, also when
\* its time is one the client made up or left out, until newer ones fill the page
\* (others.go:208, 239; features.go:219, 246).
SavedIsListed ==
    [][\A r, q \in Requests : reply[r] = 0 /\ reply'[r] = 200 /\ reply[q] = 201 =>
         \/ \E k \in DOMAIN list'[r] : list'[r][k].id = list[q][1].id
         \/ Full(list'[r], req[r], [at |-> TimeOf(req[q])])
         \/ ~Wanted([at |-> TimeOf(req[q])], req[r], 0)]_vars
=============================================================================
