# Maradhi API: specifications, model checking and proofs

The Maradhi API is a Go server (`cmd/api`, `internal/...`) over a PostgreSQL database
(`migrations/001_schema.sql`): tasks with tags, a bucket list, notes, habits, focus sessions,
moods, accounts, and two endpoints that ask a language model. This directory holds TLA+ models of
it, the TLC configurations that check them, and TLAPS proofs.

`go test` finds no test files in the repository; `test.sh` is a smoke test that sends one request
at a time. What the models look for is what such a script cannot reach: statements of concurrent
requests in every order, errors and crashes between two statements, answers that get lost, a
midnight in the middle of a request.

## 1. The system

net/http runs each request in a goroutine of its own. The goroutines share nothing in memory but
the connection pool; everything they have in common is in the database.

| Component | State | Operations | Hard part | What makes it correct |
|---|---|---|---|---|
| Tasks and tags (`repository/tasks.go`, `handler/tasks.go`) | tables `tasks`, `tags`, `task_tags` | List, Create, GetByID, Update, Delete, ListTags, CreateTag, DeleteTag | Create is a transaction followed by a read; Update is a statement, then a transaction whose errors are ignored, then a read; row locks, cascades | links keep both ends; a task appears with its tags; replacements are exact; answers agree with effects; every request ends |
| Bucket list and notes (`others.go`, `features.go`) | `bucket_list_items`, `notes` | List, Create, Update, Delete, GetNote | partial patches from several devices; `is_done` and `completed_at`; `updated_at` is the time a statement started | patches merge; the two columns agree; deleted is deleted |
| Habits and logs | `habits`, `habit_logs` | ListWithWeekLogs, Create, Delete, Log | logging against deletion, switching a day on and off at once, statements that outlive their handler | one log a day; no log without a habit; an answer is the truth |
| Focus sessions, moods | `focus_sessions`, `mood_logs` | List, Create | limits; the time of a row is the client's | a list is the newest rows; what was saved is found |
| Accounts (`handler/auth.go`, `auth/auth.go`, `users.go`, `middleware/auth.go`) | `users`; signed tokens | Register, Login, Me, Auth | one name registered twice; times in whole seconds | a name has one owner; nobody gets in on another's password; a token lives its seven days |
| Process (`cmd/api/main.go`) | server, pool of 20 connections | start, serve, drain, close | Shutdown's timeout, the deferred Close, waiters | nothing is cut in the middle of a statement; the process ends |
| Configuration (`config.go`, `loadDotEnv`) | environment | loadDotEnv, Load, newPool | precedence of file and environment; a start that fails half way | settings come from the right place; nothing is served before all is ready |
| Middleware (`middleware.go`) | none | Chain, Logger, Recovery, CORS | a panic on its way out; who sets which header | every request is answered and logged as it was answered |
| AI (`handler/ai.go`) | none | AISuggestTasks, AISummariseDay | no deadline on the call | a hanging call blocks nobody else |

They meet in three places: the handlers take connections of the pool (`ServerLifecycle`), their
statements meet in the tables (`TaskStore`, `ItemStore`, `HabitStore`, `Accounts`, `Lists`), and every
request passes the middlewares on its way to a handler and back (`Pipeline`, on top of `Startup`).
No statement of one group of tables refers to another group, so that the groups are checked one by one.

## 2. Modules

| Module | What it is | For TLC | Proofs |
|---|---|---|---|
| `TaskService` | abstract: what the task and tag endpoints promise, each effect at once | | |
| `TaskStore` | the statements of the task and tag repository, concurrent; implements `TaskService` | `MCTaskStore` | `TaskStoreProofs`, `TaskServiceProofs` |
| `ItemService` | abstract: rows of fields; each request changes one at one moment | | |
| `ItemStore` | bucket items and notes: one statement a request; implements `ItemService` | `MCItemStore` | `ItemStoreProofs` |
| `HabitService` | abstract: a set of logged days; each request changes it at one moment | | |
| `HabitStore` | the statements on habits and logs; implements `HabitService` | `MCHabitStore` | `HabitStoreProofs` |
| `Accounts` | registration, login, the Auth middleware, tokens against a clock | `MCAccounts` | `AccountsProofs` |
| `Lists` | the queries of all lists; sessions and moods | `MCLists` | `ListsProofs` |
| `ServerLifecycle` | the main goroutine, request goroutines and the connection pool | `MCServerLifecycle` | `ServerLifecycleProofs` |
| `Startup` | loadDotEnv, Load, newPool, the listener | with `Pipeline` | `PipelineProofs` |
| `Pipeline` | a request through the middlewares to a handler and back; extends `Startup` | `MCPipeline` | `PipelineProofs` |

A module's mutants are operators beside the original, named for the mistake they make. What pgx,
puddle, net/http and PostgreSQL do is modelled from how the program calls them and marked external
in `PROJECT.json`.

### TaskStore

`owner` and `links` are what is committed; `work[r]` is what the transaction of request `r` has done
and not committed: the task it inserted, the links it deleted and inserted, the rows it has locked.
`pc[r]` names the next statement. One action is one statement together with what the handler does
until the next one, so that every place where another goroutine can come in is a state.

| Code | Actions |
|---|---|
| `decode` and the checks of the handlers | `Receive`, `Reject` |
| `Update`: the UPDATE | `UpdateFields` |
| `Update`: the tag replacement | `Begin`, `Clear`, `DeleteLinks`, `Attach`, `AttachFails`, `Commit` |
| `Create` | `Begin`, `InsertTask`, `Attach`, `AttachFails`, `Commit` |
| `GetByID` | `Read` |
| `Delete`, `DeleteTag` | `LockRow`, `DeleteMissing`, `Cascade` |
| `CreateTag` | `InsertTag`, `DuplicateTag` |
| an error anywhere, a panic, the deferred Rollback | `Fail`, by way of `StatementFails`, `AttachFails`, `DeadlockDetected` |
| the process dies | `Crash` |

A DELETE of links takes two steps, its snapshot (`Clear`) and the rows (`DeleteLinks`), because at
READ COMMITTED another transaction may commit in between. A DELETE of a row takes two, because it
locks the row and then waits for the links it cascades to. `Holds(s, r)` says when `r` must wait for
`s`; `OnCycle` is a deadlock. The abstract inputs leave out titles, notes, dates and names; that a
second tag of one name is refused is a choice (`DuplicateTag`). A committed effect may be reported
as failed, together with the commit; a commit that becomes visible only after the failure was
answered is modelled in `ItemStore`, `HabitStore`, `Accounts` and `Lists`, and not here.

`did`, `alone` are history variables: the effects a request has committed, and whether any other
commit has touched the task's links since the replacement took its snapshot.

`TaskService` has the same tables and requests, and no statements: `CreateTask`, `CreateTag`, `SetFields`,
`ReplaceTags` and `Delete` are effects at one moment, the last three on the user's own rows only, and
`Agrees` says which answer may be given to what a request has done, with the rows as they are when it is
given. The schema lets users manage the links of their own tasks (`001_schema.sql:132`), and so does
`ReplaceTags`. The code does not ask whose the task is when it replaces tags, so `TaskStore` implements
`TaskService` as long as nobody sends tags for another user's task (`RetagsOwn`), and the run `others_tags`
shows what happens when somebody does. The tags that are named need not be the user's own: neither
`attachTags` nor the policy asks for that, and the service does not either.

### ItemStore

A statement `Start`s (its snapshot `seen` and its time `began`), and later takes effect on the row as
it is then: `Create`, `Update`, `UpdateMissing`, `Delete`, `Get`. Between the two it may be waiting
for another statement on the row. `CutOff` is a handler that answers with an error while PostgreSQL
still has the statement, which then runs or is cancelled (`OrphanCancelled`). Rows carry one text
field standing for title, description, category, content and label (they are all treated alike by
COALESCE), `done`, and `stamp`: `completed_at` of an item, `updated_at` of a note. Other users' rows
are left out: every statement has `user_id=$2` in its WHERE clause, which makes them missing rows. `ItemService` sees no statements, times or snapshots: a request has its effect
on the row as it is at one moment and at most once, a good answer comes with it, after a 500 it may still
come, and a note that is answered with 200 was there when the request looked (`Look`).

### HabitStore

Each request is one statement, in the steps in which others can come between. `Log` with `done`
takes its place in the unique index (`Insert`; ON CONFLICT DO NOTHING when the day is there, waiting
when it is being inserted) and then its foreign key check waits for a DELETE of the habit (`Check`).
`Log` without `done` finds a row in its snapshot (`Undo`) and removes that row (`Undoing`), which may have
been replaced by another meanwhile. `Delete` locks the habit (`LockHabit`), then removes it with its
logs (`Cascade`). A row remembers which request inserted it, because the two rows that a day can have
one after the other are different rows. `CutOff` and `OrphanCancelled` are as in `ItemStore`. A
request refers to a habit that exists or existed, so that logging a deleted one is covered.
`HabitService` sees neither rows nor steps: a set of logged days, and each request's effect at one
moment, at most once. Its `held` says whether since the request came its day has at some
moment been as it asked for, which is what a 204 tells the client.

### Accounts

Register inserts and issues a token (`Insert`, `Issue`); Login selects, compares, issues
(`Select`, `Compare`, `Issue`); for Me a token is verified, then the account fetched (`Verify`,
`Fetch`). The clock ticks between any two steps, `Second` ticks to a second, and `iat`
and `exp` round it down as `Unix()` does. The signature is abstract: a token is one that was handed
out. A registration whose handler gave up may still be inserted (`Orphan`). The migrations have no
table `users`; that its name column is unique is taken from what Register answers to a failed
INSERT, and marked external.

### Lists

A request is sent (`Receive`), and its handler turns filters into conditions with numbered parameters,
and due=today into the day it is for the process. Later PostgreSQL `Run`s the query on the rows and at
the time of that moment; rows change (`Write`) and days end (`Tick`) in between. Joins, GROUP BY, array_agg, ORDER BY with its
place of NULLs, and LIMIT are operators on sets and sequences of rows, put together as the SQL
puts them together, and compared with what the request asked for, stated without them.
`Save` inserts a session or a mood with the time the client sent, or with Go's zero time.

### ServerLifecycle

`main` goes from starting through serving, draining and closing to exited; `at[r]` is where a
request is and `left[r]` how many more times it takes a connection. A handler holds a connection
only during a turn: no handler asks for a second one while it holds the first, which is why the
pool cannot block, and which `EveryDatabaseRequestEnds` would notice if it changed. After `ClosePool`
nobody is given a connection; `Exit` waits for those in use, as pgxpool's Close does.

### Startup and Pipeline

`Startup` reads `.env` line by line (`ReadLine`, with `Value` for the trimming and the comment, `SetIfEmpty`
for the precedence), loads the configuration, makes the pool, pings, and starts the listener in a
goroutine of its own; each step can fail. `Pipeline` takes one request through the chain: `stack` is the
middlewares entered and not yet left, a panic unwinds it to Recovery, and `wire`, `log` and `shown` are
what was sent, what was logged and whether CORS's header went with it. Handlers answer any of their
statuses (`Outcomes`). Requests share nothing on this way, so one is enough.

## 3. What is checked

| Run | Instance | Distinct states | Question |
|---|---|---|---|
| `tags_replaced` (`TaskStoreReplace.cfg`) | 2 users, 1 task, 3 tags, 3 requests, 1 fault | 215,442 | Do replacements, deletes, errors and a crash keep links whole, replacements exact and locks released, do they implement `TaskService`, and does every request end, deadlocks included? |
| `tasks_created` (`TaskStoreCreate.cfg`) | 2 users, 4 tasks, 4 tags, 2 requests, 1 fault | 17,024 | Does a task appear with all its tags, repeated ones included? Do all operations implement `TaskService`? |
| `items` (`ItemStore.cfg`) | 2 items, 2 notes, 3 requests (symmetric), 2 times, 1 fault | 517,475 | Do overlapping patches merge, do columns agree, is deleted deleted, does the order of notes follow the answers; do the statements implement `ItemService`? |
| `habits` (`HabitStore.cfg`) | 2 habits, 2 days, 3 requests, 1 fault | 70,809 | One log a day, none without its habit; do the statements implement `HabitService`; does everything end? |
| `accounts` (`Accounts.cfg`) | 1 name, 2 passwords, 4 requests (symmetric), 5 half seconds, 1 fault | 447,169 | Has a name one owner, who gets in, how long does a token live? |
| `lists` (`Lists.cfg`) | every table of up to 2 rows, 3 requests, a day that ends, 1 write, 1 fault | 1,321,829 | Does every list answer the question it was asked? |
| `lifecycle` (`ServerLifecycle.cfg`) | 4 requests, 2 connections | 43,040 | Who may be dropped at shutdown, and does everything end? |
| `server` (`Pipeline.cfg`) | files of up to 2 lines, 2 keys, every kind of request | 844,376 | Where do settings come from, when is a request served, what is sent and logged for it? |

Three requests are the smallest number with which two that conflict can be disturbed by a third
(a tag that goes away during two crossed replacements; a patch that overwrites another in the face
of a third that has read its answer; a day that is logged anew between the two steps of an undo). One
task and two tags that are named (a third is only there to be cleared) are enough for a conflict on
a link, on a tag and on a task, and for lock cycles of two and of three. One fault can fall between any
two steps; a second one only repeats what the first has shown, since an error ends a request. Four
registrations and logins are two that race, one that is lost and one that asks afterwards. A second user patches, reads and deletes
the first one's task and tag, all of it refused, and replaces the tags of a task of their own. Four
requests on two connections fill the pool and leave two waiting. The clock of `ItemStore` has two
times, so that a statement may start before and take effect after a tick; that of `Accounts` goes on for
twice the life of a token, in half seconds, so that rounding shows; that of `Lists` crosses from Sunday
to Monday. Two rows are enough for an order, a page of one, and for a row that a join repeats or drops.
Two lines of a file are enough for a key given twice.

The properties, by what they guard:

- `ReferentialIntegrity`, `NothingHeldAtTheEnd`: the foreign keys under every overlap of deletes and
  attachments; no transaction or lock survives its request.
- `CreatedWithItsTags`, `RetagExact`: the two transactions have exactly the effect asked for, the
  second one unless somebody else commits to the same task's links (at READ COMMITTED the result may
  then be the union of two replacements).
- `ImplementsTaskService`, `ImplementsItemService`, `ImplementsHabitService`: refinement. A request has each effect at most
  once and its answer agrees: 200 means the fields were written, 201 and 204 that the row was created
  or deleted or the day is as asked for; 500 promises nothing. 404 of an item or a habit means that nothing
  was written (of GetNote nothing at all). 404 of a task means that the row is not the user's when the
  answer is given: either it never was, and then nothing was written, or it was deleted after the request
  had written fields or tags, and they went with it. That nothing was written to another user's task
  holds while tags are sent for own tasks only, as the requests of the two runs do. The mapping is the identity for tasks; for items and notes it forgets the times of a row
  (`Content`) and calls a request open until its statement is over; for habits the abstract set of days is that of the rows (`Logged`).
- `DoneHasItsTime`, `PatchesMerge`, `DeletedForGood`, `ListFollowsAnswers`: patches from several
  devices. The last one says that a patch sent after another was answered is not listed as older. It excepts
  notes with a patch that names no field: such a patch still writes `updated_at`, and when it started
  first and commits last it takes the note back.
- `OneLogADay`, `LogsHaveHabits`: the unique index and the cascade.
- `NamesHaveOneOwner`, `LoginsAreRight`, `TokenLivesItsSevenDays`: a 201 is the truth and is said to one
  request a name; an account whose row could be read is not refused, and a wrong password is; a token is
  accepted for all of its time to live, and for less than a second more.
- `ListAnswersTheQuestion`, `MostUrgentFirst`, `SavedIsListed`: the queries against their meaning; a
  saved row is on the page unless newer ones fill it.
- `DroppedOnlyAfterTimeout`, `ExitWaitsForStatements`, `QueueIsTheWaiters`: shutdown and pool.
- `SettingsComeFromTheirSource`, `ListensOnlyWhenReady`, `LoggedAsSent`, `AllowedOriginReadsEveryAnswer`:
  the start of the process and the order of the middlewares.
- `EveryRequestEnds`, `EveryDatabaseRequestEnds`, `SignalEndsTheProcess`: liveness, below.

### Where the code does not do what it says

Four runs each end in a violation of what a message of the code or a comment of the schema promises.

| Run | What happens |
|---|---|
| `create_answers_500` | Create commits, the task is deleted, Create's own read does not find it: 500 "failed to create task", and the task was created |
| `update_answers_200` | a tag of the list has been deleted: the replacement is rolled back, the answer is 200 |
| `others_tags` | a user sends tags for another user's task: neither `DELETE FROM task_tags` (`tasks.go:149`) nor `attachTags` (`tasks.go:203`) looks at `user_id`, and both run although the UPDATE found no row. The other's tags are replaced, and the answer is 404. The policy of `task_tags` (`001_schema.sql:133`) forbids it, but goes by `auth.uid()`, which the server never sets |
| `taken_or_not` | a registration whose statement failed is answered with 409 "username already taken"; nobody has the name |

Seen while modelling, with no run of their own, because one step shows them or because the model has
the behaviour and no property speaks of it:

- a patch of a deleted bucket item or note is answered with 500: the handlers wait for model.ErrNotFound to
  answer "item not found" (`features.go:47`, `117`), and the repository returns the pgx.ErrNoRows of Scan
  (`others.go:59`). `ItemStore!UpdateMissing` answers so, and `ItemService` lets a 500 promise nothing.
- a repeated PATCH with `is_done: true` moves `completed_at` to the time of the repetition
  (`others.go:47`), while the schema says that it "is set when is_done flips to true"
  (`001_schema.sql:141`). `ItemStore!Stamp` does the same.
- GetNote answers 404 "note not found" for any failed read (`others.go:97`, `features.go:103`); Login
  and Me answer 401 and 404 when the account cannot be read (`users.go:44`, `auth.go:22` and `69`).
  `ItemStore` and `Accounts` answer so.
- a mood or a session sent without a time is stored with Go's zero time, not with the DEFAULT NOW() of
  its column (`001_schema.sql:280`), and is the last of its list for ever. `Lists!Save` does so, and
  `SavedIsListed` allows for it: the row is where its time puts it.
- WriteTimeout is 10 seconds (`main.go:58`), callClaude has no deadline (`ai.go:205`): when the model takes
  longer, the answer, and also the 502 "AI service unavailable" (`ai.go:76`), is written to a connection
  that is closed.
- a line `KEY= # comment` of `.env` sets the variable to `# comment`, because the blank in front of the
  mark is trimmed before the mark is searched for (`main.go:100`). `Startup!Value` does so.

### Fairness

`TaskStore`: weak fairness of each request's statements (goroutines are scheduled, PostgreSQL
answers) and of the deadlock detector. `HabitStore`: weak fairness of each request's steps; its waits
cannot form a cycle, which the liveness property would show. `ServerLifecycle`: weak fairness of the
main goroutine, of the steps of a request's goroutine and of its statements. None anywhere for
clients, faults, crashes, the signal, or the Anthropic API, because callClaude sets no deadline:
`SignalEndsTheProcess` holds because of Shutdown's own timeout. `ItemStore`, `Accounts`, `Lists` and
`Pipeline` state no liveness: there a request is a statement or two that wait for nobody but those ahead.

Deadlock is checked where the states in which all is done have an explicit stutter (`AllAnswered`,
`Exited`, `Stopped`). `Accounts` and `Lists` have none and stop when the clock and the requests have run
out, so their configurations say CHECK_DEADLOCK FALSE.

## 4. What is proved

For all values of the constants, under the ASSUMEs of the modules (sentinels differ from the values
they stand beside, menus hold well-formed requests, the database starts consistent; TLC evaluates them
in every run):

| Theorem | Statement |
|---|---|
| `TaskStoreProofs!TypeCorrect` | `Spec => []TypeOK` |
| `TaskStoreProofs!LinksHaveBothEnds` | `Spec => []ReferentialIntegrity` |
| `TaskStoreProofs!RequestsEndClean` | `Spec => []NothingHeldAtTheEnd` |
| `TaskServiceProofs!TasksAppearWhole` | `Spec => CreatedWithItsTags` |
| `TaskServiceProofs!ReplacementsAreExact` | `Spec => RetagExact` |
| `TaskServiceProofs!Implementation` | `Spec /\ []RetagsOwn => ImplementsTaskService` |
| `ItemStoreProofs!TypeCorrect` | `Spec => []TypeOK` |
| `ItemStoreProofs!ColumnsAgree` | `Spec => []DoneHasItsTime` |
| `ItemStoreProofs!NoPatchIsLost` | `Spec => []PatchesMerge` |
| `ItemStoreProofs!DeletedStaysDeleted` | `Spec => DeletedForGood` |
| `ItemStoreProofs!ListsFollow` | `Spec => []ListFollowsAnswers` |
| `ItemStoreProofs!Implementation` | `Spec => ImplementsItemService` |
| `HabitStoreProofs!TypeCorrect` | `Spec => []TypeOK` |
| `HabitStoreProofs!OneLogPerDay` | `Spec => []OneLogADay` |
| `HabitStoreProofs!NoLogWithoutHabit` | `Spec => []LogsHaveHabits` |
| `HabitStoreProofs!Implementation` | `Spec => ImplementsHabitService` |
| `AccountsProofs!TypeCorrect` | `Spec => []TypeOK` |
| `AccountsProofs!OneOwner` | `Spec => []NamesHaveOneOwner` |
| `AccountsProofs!RightLogins` | `Spec => []LoginsAreRight` |
| `AccountsProofs!TokensLive` | `Spec => TokenLivesItsSevenDays` |
| `ServerLifecycleProofs!TypeCorrect` | `Spec => []TypeOK` |
| `ServerLifecycleProofs!NobodyIsForgotten` | `Spec => []QueueIsTheWaiters` |
| `ServerLifecycleProofs!ShutdownIsGraceful` | `Spec => []DroppedOnlyAfterTimeout` |
| `ServerLifecycleProofs!NoStatementIsCut` | `Spec => ExitWaitsForStatements` |
| `ListsProofs!TypeCorrect` | `Spec => []TypeOK` |
| `ListsProofs!ListsAnswerTheQuestion` | `Spec => ListAnswersTheQuestion` |
| `ListsProofs!ListsAreInOrder` | `Spec => MostUrgentFirst` |
| `ListsProofs!SavedMeansListed` | `Spec => SavedIsListed` |
| `PipelineProofs!TypeCorrect` | `Spec => []TypeOK` |
| `PipelineProofs!SettingsHaveTheirSource` | `Spec => []SettingsComeFromTheirSource` |
| `PipelineProofs!ListeningMeansReady` | `Spec => []ListensOnlyWhenReady` |
| `PipelineProofs!LogIsTrue` | `Spec => []LoggedAsSent` |
| `PipelineProofs!OriginReadsEveryAnswer` | `Spec => []AllowedOriginReadsEveryAnswer` |

*TaskStore.* Referential integrity is not inductive: a link in a transaction's `work` becomes visible
later, and its task or tag must still be there. `IInv` adds `ControlOK` (what each `pc` says about
the transaction, its target and its work) and `LocksOK`: ids of uncommitted tasks are used once
(`IdsOK`); rows locked by foreign key checks exist and are not being deleted by anyone else (`ShareOK`);
links inserted and not committed have both ends locked or new (`InsOK`); one DELETE at a time holds a
row, and its snapshot of links covers all committed ones (`ExclOK`). With these, `Cascade` removes a
row only together with its links, and `Publish` adds links only between live rows.

*TaskStore implements TaskService.* `RInv` adds to `IInv` what each request knows of its own work: what
it has done and answered so far (`DoneOK`); that the row a client names was there once, so that no
uncommitted task has its id, and that a row which the UPDATE did not find is not found later either, as
ids do not come back (`TargetOK`); that uncommitted links are the task's and were asked for
(`WithinOK`); and that every tag asked for is inserted or still to be inserted, and, while nobody else
commits to the task, every old link is deleted (`ExactOK`). Steps of other requests keep these by
one lemma (`OthersServed`, from the conditions `Frame` and `Ids`), steps that commit nothing by another
(`LocalServed`). Each action is then a step of `TaskService` or changes nothing it sees: the one commit of
a transaction is its effect, and the two action properties are about that commit (`PublishExact`). The one place that needs
`RetagsOwn` is the commit of a replacement (`PublishServes`): a transaction that has deleted or inserted a
link proves, by the locks it holds, that the task is there, and nothing proves whose it is. Without the
hypothesis the theorem is false (`others_tags`). That a 404 is the truth needs no hypothesis: `Read`
and `DeleteMissing` see the row as it is when they answer.

*ItemStore.* `PatchesMerge` needs that whoever has seen a request succeed did so after it was over
(`HistoryOK`), that a request that has not ended has not succeeded (`RequestsOK`) and that writers have
ended (`WritersOK`). `DeletedForGood` needs that an id is inserted once (`CreatesOK`). `DoneHasItsTime`
needs the time of a statement to be a time (`RequestsOK`) and a lemma about `Patch`. `ListFollowsAnswers`
needs that a statement sent after an answer starts no earlier than the one answered (`TimesOK`), and that
a note stands where the start of its last writer puts it, unless a patch without fields moved it (`StampsOK`).
For the refinement, `GoneOK` says that a row which a statement's snapshot did not have is gone when the
statement comes to it, because ids do not come back: so a DELETE's 404 is true of the row as it is, though
the statement looked earlier. A patch is a step of the service because `Patch` looks at nothing but the
row as it is (`UpdateServes`).

*HabitStore.* `IInv` says what a step knows of rows that others may change before its next one: a
place in the index is taken by one request and no row is there yet (`CheckOK`); a locked habit has no
log that its DELETE did not see (`CascadeOK`); the id of a create is free (`FreshOK`); and (`UndoOK`) an
undo whose day has at no moment been off since it was sent still has the day's row in its snapshot, so
that its 204 is the truth after all.

*Accounts.* `IInv` says what each step has in hand: an account of the name asked for, the account itself
once the password matched, a token that was handed out. That rounding both ends of a token's life down
to whole seconds costs it nothing and gives it less than a second is the arithmetic lemma `RoundedAges`.

*ServerLifecycle.* The queue of the pool holds each waiter once through every way in and out
(`Joins`, `HeadLeaves`, and `Leaves` for a waiter that is cancelled in the middle); the stages of `main`
say what may still run at each of them.

*Lists.* What a list answers is put together from the parts of the query. The conditions that a handler
appends, each with its number, hold of a row exactly when the row is `Wanted`: arguments added later leave
the earlier ones in their places, so that every number still points at its value (`AndIs`, `QuerySays`).
The groups of the left join are one for each selected row, with all that belongs to it (`JoinIs`,
`GroupsAre`). A sorting of a finite set has each element once (`SortedIs`), and the first n of it leave out only
what no kept row comes after (`PageIs`). A day on the clock never comes before an earlier one (`DaysFollow`),
and seven days from a Monday are a week (`WeekIs`). Over time, `IInv` says that the query is the one made of
the request when it came (`AskedOK`), that what a 201 answered is in the table, as it was sent (`SavedOK`), and that
what is executed late is an INSERT (`LateOK`); the three action properties are then about `Run` (`RunIs`).

*Startup and Pipeline.* That settings come from their source is inductive with `StagesOK`, what `main` has
behind it at each stage: the first line that gives a key something remains the first when more are read
(`ReadLineSettings`, with `MinIs`). For the way of a request, `AppIs` computes from Chain's fold which function
is where; the stack is always the outer part of that chain (`StackOK`). On the way in nothing has been sent,
and CORS has set its header before anything inside it can answer (`InOK`); on the way out the answer has been
sent, and the wrapper, from when the logger is entered until it is left, knows the status (`OutOK`). A panic
starts inside Recovery, and so meets it on its way.

The inductive invariants were also checked with TLC on the instances above. Every invariant and action
property of the passing runs is stated by one of the theorems. Only model-checked: the three liveness
properties and all that rests on fairness, which are out of the prover's reach, and the violations.

## 5. Not modelled

- The policies, trigger, profile table and indexes of the schema belong to the hosted database; foreign
  keys, unique and check constraints are modelled where a statement meets them. The table `users` is in no
  migration.
- `internal/db` is an unused twin of `main.newPool`. The build files, `test.sh` and the module cache in
  `.gopath` (third-party code, and by far the most of the lines) are no part of the program's logic.
- Of `handler/ai.go`: the prompts and the parsing of the model's answer are string handling without
  state. Of net/http: WriteTimeout and the errors of Accept other than those at the start.
- Formatting and parsing of JSON and of times, logging but for the status, and the splitting of
  ALLOWED_ORIGINS.
- The time zones of the process and of the database are parameters of `Lists` (`Local`, `Session`) and equal
  in its run. Were they not, due=today would name another day than the database's, and the code has
  nothing against it but the deployment.

Left for later: a composition of `ServerLifecycle` with the statements of `TaskStore`, so that a
shutdown's cancelled contexts are the faults of the requests.
