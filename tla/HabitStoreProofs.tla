-------------------------- MODULE HabitStoreProofs --------------------------
(***************************************************************************)
(* HabitStore implements HabitService, and its tables agree, for any       *)
(* habits, days, requests and faults.                                      *)
(***************************************************************************)
EXTENDS HabitStore, TLAPS

OpAt == [create |-> "create", delete |-> "delete", cascade |-> "delete", insert |-> "done",
         check |-> "done", undo |-> "undo", undoing |-> "undo"]

\* What the program counter says of a request: only an active one may still take effect.
ControlOK == \A r \in Requests :
    /\ pc[r] = "idle" => req[r] = NoInput /\ reply[r] = 0 /\ r \notin did
    /\ pc[r] = "done" => reply[r] # 0
    /\ Active(r) => /\ req[r] \in Menu /\ req[r].op = OpAt[pc[r]]
                    /\ r \notin did /\ reply[r] \in {0, 500, Lost}

\* Two creates have two ids, and the id of a create is free until its row is there.
Creates(r, h) == req[r] # NoInput /\ req[r].op = "create" /\ req[r].habit = h
FreshOK ==
    /\ \A h \in Habits : name[h] # NoName => h \in used
    /\ \A r \in Requests : pc[r] = "create" => req[r].habit \notin used
    /\ \A r, s \in Requests : \A h \in Habits : Creates(r, h) /\ Creates(s, h) => r = s

\* While a habit is locked it is there, and no log of it is new to the DELETE.
CascadeOK ==
    /\ \A r \in Requests : pc[r] = "cascade" =>
         /\ name[req[r].habit] # NoName
         /\ \A x \in rows : x[1] = req[r].habit => x \in seen[r]
         /\ \A x \in seen[r] : x[1] = req[r].habit
    /\ \A r, s \in Requests :
         pc[r] = "cascade" /\ pc[s] = "cascade" /\ req[r].habit = req[s].habit => r = s

\* A place in the unique index is taken by one request, and no row is there yet.
CheckOK ==
    /\ \A r \in Requests : pc[r] = "check" => RowsOf(r) = {}
    /\ \A r, s \in Requests :
         pc[r] = "check" /\ pc[s] = "check" /\ DayOf(r) = DayOf(s) => r = s

\* An undo whose day has not been off since it was sent still has in its snapshot the row
\* that is there.
UndoOK == \A r \in Requests : pc[r] = "undoing" =>
    /\ \A x \in seen[r] : <<x[1], x[2]>> = DayOf(r)
    /\ reply[r] = 0 /\ r \notin held => RowsOf(r) # {} /\ RowsOf(r) \subseteq seen[r]

IInv == TypeOK /\ ControlOK /\ FreshOK /\ CascadeOK /\ CheckOK /\ UndoOK
        /\ OneLogADay /\ LogsHaveHabits

-----------------------------------------------------------------------------
LEMMA InitInv == Init => IInv
<1>. SUFFICES ASSUME Init PROVE IInv
  OBVIOUS
<1>. USE DEF Init
<1>1. TypeOK
  BY InitAssumption, ConstantsAssumption DEF TypeOK, Rows
<1>2. ControlOK /\ CascadeOK /\ CheckOK /\ UndoOK
  BY DEF ControlOK, CascadeOK, CheckOK, UndoOK, Active
<1>3. FreshOK
  BY DEF FreshOK, Creates
<1>4. OneLogADay /\ LogsHaveHabits
  BY InitAssumption DEF OneLogADay, LogsHaveHabits
<1>. QED BY <1>1, <1>2, <1>3, <1>4 DEF IInv

\* Watching the days changes nothing that the types do not allow.
LEMMA ObserveType == TypeOK /\ Observe => held' \subseteq Requests
BY DEF TypeOK, Observe

-----------------------------------------------------------------------------
\* Steps of one request that leave the tables alone: what the others know stays true, so
\* that only what the request now claims for itself is to be shown.
LEMMA QuietStep ==
    ASSUME IInv, TypeOK', Observe, UNCHANGED <<tables, req, did>>,
           NEW r \in Requests,
           \A s \in Requests \ {r} : pc'[s] = pc[s] /\ reply'[s] = reply[s] /\ seen'[s] = seen[s],
           pc'[r] # "idle", pc'[r] = "done" => reply'[r] # 0,
           pc'[r] # "done" => /\ Active(r) /\ OpAt[pc'[r]] = OpAt[pc[r]]
                              /\ reply'[r] \in {0, 500, Lost},
           pc'[r] = "create" => pc[r] = "create",
           pc'[r] = "cascade" =>
             /\ name[req[r].habit] # NoName
             /\ \A x \in rows : x[1] = req[r].habit => x \in seen'[r]
             /\ \A x \in seen'[r] : x[1] = req[r].habit
             /\ \A s \in Requests \ {r} : pc[s] = "cascade" => req[s].habit # req[r].habit,
           pc'[r] = "check" =>
             /\ RowsOf(r) = {}
             /\ \A s \in Requests \ {r} : pc[s] = "check" => DayOf(s) # DayOf(r),
           pc'[r] = "undoing" =>
             /\ \A x \in seen'[r] : <<x[1], x[2]>> = DayOf(r)
             /\ reply'[r] = 0 /\ r \notin held' => RowsOf(r) # {} /\ RowsOf(r) \subseteq seen'[r]
    PROVE  IInv'
<1>. USE DEF IInv, tables
<1>1. ControlOK'
  BY DEF ControlOK, Active, TypeOK
<1>2. FreshOK'
  BY DEF FreshOK, Creates
<1>3. CascadeOK'
  <2>1. \A s \in Requests \ {r} : pc'[s] = "cascade" => pc[s] = "cascade"
    OBVIOUS
  <2>. QED BY <2>1 DEF CascadeOK
<1>4. CheckOK'
  BY DEF CheckOK, RowsOf, DayOf
<1>5. UndoOK'
  <2>1. held \subseteq held'
    BY DEF Observe
  <2>. QED BY <2>1 DEF UndoOK, RowsOf, DayOf
<1>6. OneLogADay' /\ LogsHaveHabits'
  BY DEF OneLogADay, LogsHaveHabits
<1>. QED BY <1>1, <1>2, <1>3, <1>4, <1>5, <1>6

LEMMA RejectInv == ASSUME NEW r \in Requests, IInv, Reject(r), Observe PROVE IInv'
<1>. USE DEF Reject, Answer
<1>1. TypeOK'
  BY ObserveType DEF IInv, TypeOK, tables
<1>. QED BY <1>1, QuietStep DEF IInv, TypeOK

LEMMA StatementFailsInv == ASSUME NEW r \in Requests, IInv, StatementFails(r), Observe PROVE IInv'
<1>. USE DEF StatementFails, Answer, Fault
<1>1. TypeOK'
  BY ObserveType, ConstantsAssumption DEF IInv, TypeOK, tables
<1>. QED BY <1>1, QuietStep DEF IInv, TypeOK

LEMMA OrphanCancelledInv == ASSUME NEW r \in Requests, IInv, OrphanCancelled(r), Observe PROVE IInv'
<1>. USE DEF OrphanCancelled
<1>1. TypeOK'
  BY ObserveType DEF IInv, TypeOK, tables
<1>. QED BY <1>1, QuietStep DEF IInv, TypeOK

LEMMA CutOffInv == ASSUME NEW r \in Requests, IInv, CutOff(r), Observe PROVE IInv'
<1>. USE DEF CutOff, Fault
<1>1. TypeOK'
  BY ObserveType, ConstantsAssumption DEF IInv, TypeOK, tables
<1>2. pc'[r] = pc[r] /\ pc[r] \notin {"idle", "done"} /\ seen'[r] = seen[r] /\ reply'[r] = 500
  BY DEF Active, IInv, TypeOK
<1>. QED BY <1>1, <1>2, QuietStep DEF IInv, TypeOK, CascadeOK, CheckOK, UndoOK

LEMMA UndoInv == ASSUME NEW r \in Requests, IInv, Undo(r), Observe PROVE IInv'
<1>. USE DEF Undo, Goto
<1>1. TypeOK'
  BY ObserveType DEF IInv, TypeOK, tables, RowsOf
<1>2. reply'[r] = 0 /\ RowsOf(r) = {} => r \in held'
  <2>1. req[r] # NoInput /\ req[r].op = "undo" /\ Active(r)
    BY MenuAssumption, ConstantsAssumption DEF IInv, ControlOK, Active, OpAt
  <2>. QED BY <2>1 DEF Observe, AsAsked, Logged, RowsOf, DayOf, tables
<1>3. pc'[r] = "undoing" /\ seen'[r] = RowsOf(r) /\ Active(r) /\ reply'[r] \in {0, 500, Lost}
  BY DEF IInv, ControlOK, Active, TypeOK
<1>. QED BY <1>1, <1>2, <1>3, QuietStep DEF OpAt, IInv, TypeOK, RowsOf

LEMMA LockHabitInv == ASSUME NEW r \in Requests, IInv, LockHabit(r), Observe PROVE IInv'
<1>. USE DEF LockHabit
<1>1. TypeOK'
  BY ObserveType DEF IInv, TypeOK, tables, Goto, Answer
<1>2. Active(r) /\ reply[r] \in {0, 500, Lost}
  BY DEF IInv, ControlOK, Active
<1>3. CASE name[req[r].habit] = NoName
  BY <1>1, <1>3, QuietStep DEF IInv, TypeOK, Answer
<1>4. CASE name[req[r].habit] # NoName
  BY <1>1, <1>2, <1>4, QuietStep DEF IInv, TypeOK, Goto, OpAt, Deleting
<1>. QED BY <1>3, <1>4

LEMMA InsertInv == ASSUME NEW r \in Requests, IInv, Insert(r), Observe PROVE IInv'
<1>. USE DEF Insert
<1>1. TypeOK'
  BY ObserveType DEF IInv, TypeOK, tables, Goto, Answer
<1>2. Active(r) /\ reply[r] \in {0, 500, Lost}
  BY DEF IInv, ControlOK, Active
<1>3. CASE RowsOf(r) # {}
  BY <1>1, <1>3, QuietStep DEF IInv, TypeOK, Answer
<1>4. CASE RowsOf(r) = {}
  BY <1>1, <1>2, <1>4, QuietStep DEF IInv, TypeOK, Goto, OpAt, Inserting
<1>. QED BY <1>3, <1>4

-----------------------------------------------------------------------------
\* Taking rows away keeps what the undoing requests know: the one whose day is off now
\* has been held.
LEMMA FewerRows ==
    ASSUME IInv, Observe, rows' \subseteq rows, req' = req, seen' = seen,
           \A s \in Requests : pc'[s] = "undoing" => pc[s] = "undoing" /\ reply'[s] = reply[s]
    PROVE  UndoOK'
<1>. SUFFICES ASSUME NEW s \in Requests, pc'[s] = "undoing"
     PROVE  /\ \A x \in seen'[s] : <<x[1], x[2]>> = DayOf(s)'
            /\ reply'[s] = 0 /\ s \notin held' => RowsOf(s)' # {} /\ RowsOf(s)' \subseteq seen'[s]
  BY DEF UndoOK
<1>1. pc[s] = "undoing" /\ reply'[s] = reply[s] /\ DayOf(s)' = DayOf(s) /\ RowsOf(s)' \subseteq RowsOf(s)
  BY DEF DayOf, RowsOf
<1>2. reply[s] = 0 /\ RowsOf(s)' = {} => s \in held'
  <2>1. req'[s] # NoInput /\ req'[s].op = "undo"
    BY <1>1, MenuAssumption, ConstantsAssumption DEF IInv, ControlOK, Active, OpAt
  <2>. QED BY <2>1 DEF Observe, AsAsked, Logged, RowsOf, DayOf
<1>3. s \notin held' => s \notin held
  BY DEF Observe
<1>. QED BY <1>1, <1>2, <1>3 DEF IInv, UndoOK

LEMMA ReceiveInv == ASSUME NEW r \in Requests, IInv, Receive(r), Observe PROVE IInv'
<1>. PICK in \in Menu :
       /\ IF in.op = "create"
          THEN in.habit \notin used \cup {req[s].habit : s \in {s \in Requests : req[s] # NoInput}}
          ELSE in.habit \in used
       /\ req' = [req EXCEPT ![r] = in] /\ Goto(r, FirstStep[in.op])
  BY DEF Receive
<1>. in \in Inputs /\ in # NoInput
  BY MenuAssumption, ConstantsAssumption
<1>1. pc[r] = "idle" /\ req[r] = NoInput /\ reply[r] = 0 /\ r \notin did
  BY DEF Receive, IInv, ControlOK
<1>2. UNCHANGED <<tables, seen, did, faults, reply>> /\ pc' = [pc EXCEPT ![r] = FirstStep[in.op]]
  BY DEF Receive, Goto
<1>3. FirstStep[in.op] \in {"create", "delete", "insert", "undo"} /\ OpAt[FirstStep[in.op]] = in.op
      /\ (FirstStep[in.op] = "create" => in.op = "create")
  BY DEF Inputs, FirstStep, OpAt
<1>4. TypeOK'
  BY <1>2, <1>3, ObserveType DEF IInv, TypeOK, tables, Rows
<1>5. ControlOK'
  BY <1>1, <1>2, <1>3 DEF ControlOK, Active, IInv, TypeOK
<1>6. FreshOK'
  <2>1. \A s \in Requests \ {r} : req'[s] = req[s] /\ pc'[s] = pc[s]
    BY <1>2 DEF IInv, TypeOK
  <2>2. req'[r] = in /\ pc'[r] = FirstStep[in.op]
    BY <1>2 DEF IInv, TypeOK
  <2>3. \A s \in Requests \ {r} : \A h \in Habits : ~(Creates(r, h)' /\ Creates(s, h)')
    BY <2>1, <2>2 DEF Creates
  <2>. QED BY <1>2, <1>3, <2>1, <2>2, <2>3 DEF IInv, FreshOK, Creates, tables
<1>7. \A s \in Requests : pc'[s] \in {"cascade", "check", "undoing"} =>
        s # r /\ pc[s] = pc'[s] /\ req'[s] = req[s]
  BY <1>2, <1>3 DEF IInv, TypeOK
<1>8. CascadeOK' /\ CheckOK'
  BY <1>2, <1>7 DEF IInv, CascadeOK, CheckOK, RowsOf, DayOf, tables
<1>9. UndoOK'
  BY <1>2, <1>7 DEF IInv, UndoOK, RowsOf, DayOf, tables, Observe
<1>10. OneLogADay' /\ LogsHaveHabits'
  BY <1>2 DEF IInv, OneLogADay, LogsHaveHabits, tables
<1>. QED BY <1>4, <1>5, <1>6, <1>8, <1>9, <1>10 DEF IInv

\* A request that ends with its statement: what it leaves to the others.
LEMMA EndControl ==
    ASSUME IInv, NEW r \in Requests, NEW code \in {201, 204, 404, 500}, Answer(r, code),
           req' = req, did' \subseteq did \cup {r}, Active(r)
    PROVE  /\ ControlOK'
           /\ reply' \in [Requests -> {0, Lost, 201, 204, 400, 404, 500}]
           /\ pc' = [pc EXCEPT ![r] = "done"]
           /\ \A s \in Requests \ {r} : pc'[s] = pc[s] /\ reply'[s] = reply[s]
<1>1. /\ pc' = [pc EXCEPT ![r] = "done"]
      /\ \A s \in Requests \ {r} : pc'[s] = pc[s] /\ reply'[s] = reply[s]
      /\ pc'[r] = "done" /\ reply'[r] # 0
      /\ reply' \in [Requests -> {0, Lost, 201, 204, 400, 404, 500}]
  BY DEF Answer, IInv, TypeOK
<1>2. ControlOK'
  BY <1>1 DEF ControlOK, Active, IInv
<1>. QED BY <1>1, <1>2

LEMMA CreateInv == ASSUME NEW r \in Requests, IInv, Create(r), Observe PROVE IInv'
<1>. DEFINE h == req[r].habit
            taken == {g \in Habits : name[g] = req[r].name}
<1>1. Active(r) /\ req[r] \in Menu /\ req[r] \in Inputs /\ req[r].op = "create" /\ req[r] # NoInput
  BY MenuAssumption, ConstantsAssumption DEF Create, IInv, ControlOK, Active, OpAt
<1>2. CASE taken # {}
  <2>1. Answer(r, 500) /\ UNCHANGED <<tables, did, req, seen, faults>> /\ pc[r] = "create"
    BY <1>2 DEF Create
  <2>2. TypeOK'
    BY <2>1, ObserveType DEF IInv, TypeOK, tables, Answer
  <2>. QED BY <2>1, <2>2, QuietStep DEF IInv, TypeOK, Answer
<1>3. CASE taken = {}
  <2>1. /\ name' = [name EXCEPT ![h] = req[r].name] /\ used' = used \cup {h}
        /\ did' = did \cup {r} /\ Answer(r, 201) /\ UNCHANGED <<rows, req, seen, faults>>
    BY <1>3 DEF Create
  <2>2. req[r].name \in Names /\ req[r].name # NoName /\ h \in Habits
    BY <1>1, MenuAssumption, ConstantsAssumption DEF Inputs
  <2>3. /\ ControlOK' /\ pc' = [pc EXCEPT ![r] = "done"]
        /\ \A s \in Requests \ {r} : pc'[s] = pc[s] /\ reply'[s] = reply[s]
        /\ reply' \in [Requests -> {0, Lost, 201, 204, 400, 404, 500}]
    BY <1>1, <2>1, EndControl
  <2>4. TypeOK'
    BY <2>1, <2>2, <2>3, ObserveType DEF IInv, TypeOK
  <2>5. \A s \in Requests : pc'[s] # "done" => s # r /\ pc[s] = pc'[s]
    BY <2>3 DEF IInv, TypeOK
  <2>6. FreshOK'
    <3>1. \A s \in Requests : pc'[s] = "create" => req[s].habit # h
      <4>. SUFFICES ASSUME NEW s \in Requests, pc'[s] = "create", req[s].habit = h PROVE FALSE
        OBVIOUS
      <4>1. s # r /\ Creates(s, h)
        BY <2>5, MenuAssumption, ConstantsAssumption DEF IInv, ControlOK, Active, OpAt, Creates
      <4>2. Creates(r, h)
        BY <1>1 DEF Creates
      <4>. QED BY <4>1, <4>2, <2>2 DEF IInv, FreshOK
    <3>2. \A g \in Habits : name'[g] # NoName => g \in used'
      BY <2>1, <2>2 DEF IInv, FreshOK, TypeOK
    <3>. QED BY <3>1, <3>2, <2>1, <2>5 DEF IInv, FreshOK, Creates
  <2>7. \A g \in Habits : name[g] # NoName => name'[g] # NoName
    BY <2>1, <2>2 DEF IInv, TypeOK
  <2>8. CascadeOK' /\ CheckOK'
    <3>1. \A s \in Requests : pc'[s] = "cascade" => req[s].habit \in Habits
      BY <2>5, MenuAssumption DEF IInv, ControlOK, Active, Inputs
    <3>. QED BY <2>1, <2>5, <2>7, <3>1 DEF IInv, CascadeOK, CheckOK, RowsOf, DayOf
  <2>9. UndoOK'
    BY <2>1, <2>3, <2>5, FewerRows
  <2>10. OneLogADay' /\ LogsHaveHabits'
    BY <2>1, <2>7 DEF IInv, OneLogADay, LogsHaveHabits, TypeOK, Rows
  <2>. QED BY <2>3, <2>4, <2>6, <2>8, <2>9, <2>10 DEF IInv
<1>. QED BY <1>2, <1>3

LEMMA CascadeInv == ASSUME NEW r \in Requests, IInv, Cascade(r), Observe PROVE IInv'
<1>. DEFINE h == req[r].habit
<1>1. Active(r) /\ req[r] \in Inputs /\ h \in Habits /\ pc[r] = "cascade"
  BY MenuAssumption DEF Cascade, IInv, ControlOK, Active, Inputs
<1>2. /\ name' = [name EXCEPT ![h] = NoName] /\ rows' = rows \ seen[r] /\ did' = did \cup {r}
      /\ Answer(r, 204) /\ UNCHANGED <<used, req, seen, faults>>
  BY DEF Cascade
<1>3. /\ ControlOK' /\ pc' = [pc EXCEPT ![r] = "done"]
      /\ \A s \in Requests \ {r} : pc'[s] = pc[s] /\ reply'[s] = reply[s]
      /\ reply' \in [Requests -> {0, Lost, 201, 204, 400, 404, 500}]
  BY <1>1, <1>2, EndControl
<1>4. TypeOK'
  <2>1. name' \in [Habits -> Names \cup {NoName}] /\ rows' \subseteq Rows
    BY <1>1, <1>2 DEF IInv, TypeOK
  <2>2. UNCHANGED <<used, req, seen, faults>> /\ did' \subseteq Requests /\ held' \subseteq Requests
    BY <1>2, ObserveType DEF IInv, TypeOK
  <2>. QED BY <1>3, <2>1, <2>2 DEF IInv, TypeOK
<1>5. \A s \in Requests : pc'[s] # "done" => s # r /\ pc[s] = pc'[s]
  BY <1>3 DEF IInv, TypeOK
<1>6. FreshOK'
  BY <1>2, <1>5 DEF IInv, FreshOK, Creates, TypeOK
<1>7. CascadeOK' /\ CheckOK'
  <2>1. \A s \in Requests : pc'[s] = "cascade" => req[s].habit # h /\ req[s].habit \in Habits
    BY <1>1, <1>5, MenuAssumption DEF IInv, ControlOK, Active, Inputs, CascadeOK
  <2>2. \A s \in Requests : pc'[s] = "cascade" => name'[req[s].habit] # NoName
    BY <1>2, <1>5, <2>1 DEF IInv, CascadeOK, TypeOK
  <2>3. CascadeOK'
    BY <1>2, <1>5, <2>2 DEF IInv, CascadeOK
  <2>4. CheckOK'
    BY <1>2, <1>5 DEF IInv, CheckOK, RowsOf, DayOf
  <2>. QED BY <2>3, <2>4
<1>8. UndoOK'
  BY <1>2, <1>3, <1>5, FewerRows
<1>9. OneLogADay' /\ LogsHaveHabits'
  BY <1>1, <1>2 DEF IInv, OneLogADay, LogsHaveHabits, TypeOK, Rows, CascadeOK
<1>. QED BY <1>3, <1>4, <1>6, <1>7, <1>8, <1>9 DEF IInv

LEMMA CheckInv == ASSUME NEW r \in Requests, IInv, Check(r), Observe PROVE IInv'
<1>. DEFINE h == req[r].habit
            new == <<req[r].habit, req[r].day, r>>
<1>1. Active(r) /\ req[r] \in Inputs /\ pc[r] = "check"
  BY MenuAssumption DEF Check, IInv, ControlOK, Active
<1>2. CASE name[h] = NoName
  <2>1. Answer(r, 500) /\ UNCHANGED <<tables, did, req, seen, faults>>
    BY <1>2 DEF Check, tables
  <2>2. TypeOK'
    BY <2>1, ObserveType DEF IInv, TypeOK, tables, Answer
  <2>. QED BY <1>1, <2>1, <2>2, QuietStep DEF IInv, TypeOK, Answer
<1>3. CASE name[h] # NoName
  <2>1. /\ rows' = rows \cup {new} /\ did' = did \cup {r}
        /\ Answer(r, 204) /\ UNCHANGED <<name, used, req, seen, faults>>
    BY <1>3 DEF Check
  <2>2. /\ ControlOK' /\ pc' = [pc EXCEPT ![r] = "done"]
        /\ \A s \in Requests \ {r} : pc'[s] = pc[s] /\ reply'[s] = reply[s]
        /\ reply' \in [Requests -> {0, Lost, 201, 204, 400, 404, 500}]
    BY <1>1, <2>1, EndControl
  <2>3. new \in Rows
    BY <1>1 DEF Rows, Inputs
  <2>4. TypeOK'
    BY <2>1, <2>2, <2>3, ObserveType DEF IInv, TypeOK
  <2>5. \A s \in Requests : pc'[s] # "done" => s # r /\ pc[s] = pc'[s]
    BY <2>2 DEF IInv, TypeOK
  <2>6. FreshOK'
    BY <2>1, <2>5 DEF IInv, FreshOK, Creates
  <2>7. CascadeOK'
    <3>1. \A s \in Requests : pc'[s] = "cascade" => req[s].habit # h
      BY <2>5 DEF Check, Deleting
    <3>. QED BY <2>1, <2>5, <3>1 DEF IInv, CascadeOK
  <2>8. \A s \in Requests : RowsOf(s)' = IF DayOf(s) = DayOf(r) THEN RowsOf(s) \cup {new} ELSE RowsOf(s)
    BY <2>1 DEF RowsOf, DayOf
  <2>9. CheckOK'
    <3>1. \A s \in Requests : pc'[s] = "check" => pc[s] = "check" /\ DayOf(s) # DayOf(r)
      BY <1>1, <2>5 DEF IInv, CheckOK
    <3>. QED BY <2>1, <2>8, <3>1 DEF IInv, CheckOK, DayOf
  <2>10. UndoOK'
    <3>1. \A s \in Requests : DayOf(s) = DayOf(r) => RowsOf(s) = {}
      BY <1>1 DEF IInv, CheckOK, RowsOf
    <3>2. \A s \in Requests : pc'[s] = "undoing" => pc[s] = "undoing" /\ reply'[s] = reply[s] /\ seen'[s] = seen[s]
      BY <2>1, <2>2, <2>5
    <3>3. \A s \in Requests : DayOf(s)' = DayOf(s) /\ (s \in held => s \in held')
      BY <2>1 DEF DayOf, Observe
    <3>. QED BY <2>8, <3>1, <3>2, <3>3 DEF IInv, UndoOK
  <2>11. OneLogADay'
    <3>1. \A x \in rows : <<x[1], x[2]>> # <<new[1], new[2]>>
      BY <1>1 DEF IInv, CheckOK, RowsOf, DayOf
    <3>. QED BY <2>1, <3>1 DEF IInv, OneLogADay
  <2>12. LogsHaveHabits'
    BY <1>3, <2>1 DEF IInv, LogsHaveHabits
  <2>. QED BY <2>2, <2>4, <2>6, <2>7, <2>9, <2>10, <2>11, <2>12 DEF IInv
<1>. QED BY <1>2, <1>3

LEMMA UndoingInv == ASSUME NEW r \in Requests, IInv, Undoing(r), Observe PROVE IInv'
<1>1. Active(r)
  BY DEF Undoing, Active
<1>2. /\ rows' = rows \ seen[r] /\ did' \subseteq did \cup {r} /\ did \subseteq did'
      /\ Answer(r, 204) /\ UNCHANGED <<name, used, req, seen, faults>>
  BY DEF Undoing
<1>3. /\ ControlOK' /\ pc' = [pc EXCEPT ![r] = "done"]
      /\ \A s \in Requests \ {r} : pc'[s] = pc[s] /\ reply'[s] = reply[s]
      /\ reply' \in [Requests -> {0, Lost, 201, 204, 400, 404, 500}]
  BY <1>1, <1>2, EndControl
<1>4. TypeOK'
  BY <1>2, <1>3, ObserveType DEF IInv, TypeOK
<1>5. \A s \in Requests : pc'[s] # "done" => s # r /\ pc[s] = pc'[s]
  BY <1>3 DEF IInv, TypeOK
<1>6. FreshOK' /\ CascadeOK' /\ CheckOK'
  BY <1>2, <1>5 DEF IInv, FreshOK, Creates, CascadeOK, CheckOK, RowsOf, DayOf
<1>7. UndoOK'
  BY <1>2, <1>3, <1>5, FewerRows
<1>8. OneLogADay' /\ LogsHaveHabits'
  BY <1>2 DEF IInv, OneLogADay, LogsHaveHabits
<1>. QED BY <1>3, <1>4, <1>6, <1>7, <1>8 DEF IInv

LEMMA CrashInv == ASSUME IInv, Crash, Observe PROVE IInv'
<1>1. UNCHANGED <<tables, req, pc, seen, did>> /\ faults' \in 0..MaxFaults
  BY ConstantsAssumption DEF Crash, Fault, IInv, TypeOK
<1>2. /\ reply' \in [Requests -> {0, Lost, 201, 204, 400, 404, 500}]
      /\ \A s \in Requests : reply'[s] = IF Active(s) /\ reply[s] = 0 THEN Lost ELSE reply[s]
  BY DEF Crash, IInv, TypeOK
<1>3. TypeOK'
  BY <1>1, <1>2, ObserveType DEF IInv, TypeOK, tables
<1>4. ControlOK'
  BY <1>1, <1>2 DEF IInv, ControlOK, Active
<1>5. FreshOK' /\ CascadeOK' /\ CheckOK' /\ OneLogADay' /\ LogsHaveHabits'
  BY <1>1 DEF IInv, FreshOK, Creates, CascadeOK, CheckOK, OneLogADay, LogsHaveHabits, RowsOf, DayOf, tables
<1>6. UndoOK'
  <2>1. \A s \in Requests : pc[s] = "undoing" => reply'[s] # 0
    BY <1>2 DEF Active, Lost
  <2>. QED BY <1>1, <2>1 DEF IInv, UndoOK, DayOf
<1>. QED BY <1>3, <1>4, <1>5, <1>6 DEF IInv

LEMMA AllAnsweredInv == ASSUME IInv, AllAnswered, Observe PROVE IInv'
<1>1. UNCHANGED <<tables, req, pc, seen, reply, did, faults>> /\ \A r \in Requests : pc[r] = "done"
  BY DEF AllAnswered
<1>2. TypeOK'
  BY <1>1, ObserveType DEF IInv, TypeOK, tables
<1>. QED BY <1>1, <1>2 DEF IInv, ControlOK, Active, FreshOK, Creates, CascadeOK, CheckOK, UndoOK,
       OneLogADay, LogsHaveHabits, RowsOf, DayOf, tables

LEMMA NextInv == IInv /\ [Next]_vars => IInv'
<1>. SUFFICES ASSUME IInv, [Next]_vars PROVE IInv'
  OBVIOUS
<1>1. CASE UNCHANGED vars
  BY <1>1 DEF vars, tables, IInv, TypeOK, ControlOK, Active, FreshOK, Creates, CascadeOK, CheckOK,
       UndoOK, OneLogADay, LogsHaveHabits, RowsOf, DayOf
<1>2. CASE Crash /\ Observe
  BY <1>2, CrashInv
<1>3. CASE AllAnswered /\ Observe
  BY <1>3, AllAnsweredInv
<1>4. ASSUME NEW r \in Requests, Observe,
             Receive(r) \/ Reject(r) \/ Step(r) \/ StatementFails(r) \/ CutOff(r) \/ OrphanCancelled(r)
      PROVE  IInv'
  BY <1>4, ReceiveInv, RejectInv, CreateInv, LockHabitInv, CascadeInv, InsertInv, CheckInv, UndoInv,
     UndoingInv, StatementFailsInv, CutOffInv, OrphanCancelledInv DEF Step
<1>. QED BY <1>1, <1>2, <1>3, <1>4 DEF Next

\* The inductive invariant holds in every reachable state.
THEOREM Invariance == Spec => []IInv
BY InitInv, NextInv, PTL DEF Spec

\* The variables keep their types: every status is one of the handlers' (features.go
\* 79-130).
THEOREM TypeCorrect == Spec => []TypeOK
BY Invariance, PTL DEF IInv

\* However often and from wherever a day is logged at once, it has one row ("One row per
\* (habit, user, date)", 001_schema.sql:225).
THEOREM OneLogPerDay == Spec => []OneLogADay
BY Invariance, PTL DEF IInv

\* A log never outlives its habit, nor is one inserted behind the DELETE that removes the
\* habit (ON DELETE CASCADE against a concurrent INSERT).
THEOREM NoLogWithoutHabit == Spec => []LogsHaveHabits
BY Invariance, PTL DEF IInv

-----------------------------------------------------------------------------
(***************************************************************************)
(* The refinement: every step is one of the service, or changes nothing of *)
(* it.  The invariant supplies what the steps alone do not say: that a     *)
(* request still active has not taken effect, that the rows removed with a *)
(* habit are all of its logs, that an undo with an old snapshot is right.  *)
(***************************************************************************)
LEMMA SameWatch == Observe => Service!Observe
BY DEF Observe, Service!Observe, AsAsked, Service!AsAsked, DayOf, Service!DayOf

LEMMA InitImplements == Init => Service!Init
<1>. SUFFICES ASSUME Init PROVE Service!Init
  OBVIOUS
<1>1. Logged = InitDays
  <2>1. \A p \in InitDays : p = <<p[1], p[2]>>
    BY InitAssumption
  <2>2. \A x \in rows : \E p \in InitDays : x = <<p[1], p[2], Seeder>>
    BY DEF Init
  <2>3. \A p \in InitDays : <<p[1], p[2], Seeder>> \in rows
    BY DEF Init
  <2>4. Logged \subseteq InitDays
    BY <2>1, <2>2 DEF Logged
  <2>5. \A x \in rows : <<x[1], x[2]>> \in Logged
    BY DEF Logged
  <2>6. ASSUME NEW p \in InitDays PROVE p \in Logged
    <3>. DEFINE x == <<p[1], p[2], Seeder>>
    <3>1. x \in rows /\ <<x[1], x[2]>> = p
      BY <2>1, <2>3
    <3>. QED BY <2>5, <3>1
  <2>. QED BY <2>4, <2>6
<1>. QED BY <1>1 DEF Init, Service!Init

LEMMA AnswerServes ==
    ASSUME NEW r \in Requests, NEW code \in {201, 204, 400, 404, 500}, Answer(r, code),
           reply[r] = 0 => Service!Justified(r, code)
    PROVE  Service!Answer(r) \/ UNCHANGED reply
<1>1. CASE reply[r] = 0
  <2>1. reply' = [reply EXCEPT ![r] = code]
    BY <1>1 DEF Answer
  <2>2. Service!Justified(r, code)
    BY <1>1
  <2>3. CASE code = 201
    BY <1>1, <2>1, <2>2, <2>3, SMT DEF Service!Answer, Service!Justified
  <2>4. CASE code = 204
    BY <1>1, <2>1, <2>2, <2>4, SMT DEF Service!Answer, Service!Justified
  <2>5. CASE code = 400
    BY <1>1, <2>1, <2>2, <2>5, SMT DEF Service!Answer, Service!Justified
  <2>6. CASE code = 404
    BY <1>1, <2>1, <2>2, <2>6, SMT DEF Service!Answer, Service!Justified
  <2>7. CASE code = 500
    BY <1>1, <2>1, <2>2, <2>7, SMT DEF Service!Answer, Service!Justified
  <2>. QED BY <2>3, <2>4, <2>5, <2>6, <2>7
<1>2. CASE reply[r] # 0
  BY <1>2 DEF Answer
<1>. QED BY <1>1, <1>2

\* Steps that leave the tables and what was done alone.
LEMMA QuietServes ==
    ASSUME NEW r \in Requests, UNCHANGED <<tables, req, did>>, Observe,
           Service!Answer(r) \/ UNCHANGED reply
    PROVE  Service!Next
<1>1. UNCHANGED <<name, Logged, did, req>>
  BY DEF Logged, tables
<1>. QED BY <1>1, SameWatch DEF Service!Next, Service!Serve

LEMMA EffectServes ==
    ASSUME NEW r \in Requests, IInv, Active(r), Observe, req' = req, did' = did \cup {r},
           Service!Effect(r), Service!Answer(r) \/ UNCHANGED reply
    PROVE  Service!Next
<1>1. req[r] # NoInput /\ r \notin did /\ reply[r] \in {0, 500, Service!Lost}
  BY ConstantsAssumption, MenuAssumption DEF IInv, ControlOK, Lost, Service!Lost
<1>. QED BY <1>1, SameWatch DEF Service!Next, Service!Serve, Service!TakeEffect

LEMMA ReceiveServes == ASSUME NEW r \in Requests, IInv, Receive(r), Observe PROVE Service!Next
<1>1. req[r] = NoInput /\ reply[r] = 0
  BY DEF Receive, IInv, ControlOK
<1>2. UNCHANGED <<name, Logged, reply, did>> /\ \E in \in Menu : req' = [req EXCEPT ![r] = in]
  BY DEF Receive, Goto, Logged, tables
<1>. QED BY <1>1, <1>2, SameWatch DEF Service!Next, Service!Receive

LEMMA RejectServes == ASSUME NEW r \in Requests, IInv, Reject(r), Observe PROVE Service!Next
<1>1. req[r] = NoInput
  BY DEF Reject, IInv, ControlOK
<1>2. Service!Answer(r) \/ UNCHANGED reply
  BY <1>1, AnswerServes DEF Reject, Service!Justified
<1>. QED BY <1>2, QuietServes DEF Reject

LEMMA FailuresServe ==
    ASSUME NEW r \in Requests, IInv, Observe,
           StatementFails(r) \/ CutOff(r) \/ OrphanCancelled(r)
    PROVE  Service!Next
<1>1. Service!Answer(r) \/ UNCHANGED reply
  <2>1. CASE StatementFails(r)
    BY <2>1, AnswerServes DEF StatementFails, Service!Justified
  <2>2. CASE CutOff(r)
    BY <2>2 DEF CutOff, Service!Answer, Service!Justified
  <2>3. CASE OrphanCancelled(r)
    BY <2>3 DEF OrphanCancelled
  <2>. QED BY <2>1, <2>2, <2>3
<1>2. UNCHANGED <<tables, req, did>>
  BY DEF StatementFails, CutOff, OrphanCancelled
<1>. QED BY <1>1, <1>2, QuietServes

LEMMA CreateServes == ASSUME NEW r \in Requests, IInv, Create(r), Observe PROVE Service!Next
<1>1. Active(r) /\ req[r] \in Inputs /\ req[r].op = "create" /\ req[r] # NoInput
  BY MenuAssumption, ConstantsAssumption DEF Create, IInv, ControlOK, Active, OpAt
<1>2. CASE {g \in Habits : name[g] = req[r].name} # {}
  <2>1. Answer(r, 500) /\ UNCHANGED <<tables, did, req>>
    BY <1>2 DEF Create
  <2>. QED BY <2>1, AnswerServes, QuietServes DEF Service!Justified
<1>3. CASE {g \in Habits : name[g] = req[r].name} = {}
  <2>1. /\ name' = [name EXCEPT ![req[r].habit] = req[r].name]
        /\ did' = did \cup {r} /\ Answer(r, 201) /\ UNCHANGED <<rows, req>>
    BY <1>3 DEF Create
  <2>2. Service!Answer(r) \/ UNCHANGED reply
    BY <1>1, <2>1, AnswerServes DEF Service!Justified
  <2>3. name[req[r].habit] = NoName
    BY <1>1 DEF IInv, FreshOK, Create, Inputs
  <2>4. Service!Effect(r)
    BY <1>1, <1>3, <2>1, <2>3 DEF Service!Effect, Logged
  <2>. QED BY <1>1, <2>1, <2>2, <2>4, EffectServes
<1>. QED BY <1>2, <1>3

LEMMA LockHabitServes == ASSUME NEW r \in Requests, IInv, LockHabit(r), Observe PROVE Service!Next
<1>1. Active(r) /\ req[r].op = "delete" /\ req[r] # NoInput /\ r \notin did
  BY MenuAssumption, ConstantsAssumption DEF LockHabit, IInv, ControlOK, Active, OpAt
<1>2. UNCHANGED <<tables, req, did>>
  BY DEF LockHabit
<1>3. Service!Answer(r) \/ UNCHANGED reply
  BY <1>1, <1>2, AnswerServes DEF LockHabit, Goto, Service!Justified
<1>. QED BY <1>2, <1>3, QuietServes

LEMMA CascadeServes == ASSUME NEW r \in Requests, IInv, Cascade(r), Observe PROVE Service!Next
<1>1. Active(r) /\ req[r].op = "delete" /\ req[r] # NoInput /\ pc[r] = "cascade"
  BY MenuAssumption, ConstantsAssumption DEF Cascade, IInv, ControlOK, Active, OpAt
<1>2. /\ name' = [name EXCEPT ![req[r].habit] = NoName] /\ rows' = rows \ seen[r]
      /\ did' = did \cup {r} /\ Answer(r, 204) /\ req' = req
  BY DEF Cascade
<1>3. \A x \in rows : x \in seen[r] <=> x[1] = req[r].habit
  BY <1>1 DEF IInv, CascadeOK
<1>4. Logged' = {p \in Logged : p[1] # req[r].habit}
  BY <1>2, <1>3 DEF Logged
<1>5. name[req[r].habit] # NoName
  BY <1>1 DEF IInv, CascadeOK
<1>6. Service!Effect(r)
  BY <1>1, <1>2, <1>4, <1>5 DEF Service!Effect
<1>7. Service!Answer(r) \/ UNCHANGED reply
  BY <1>1, <1>2, AnswerServes DEF Service!Justified
<1>. QED BY <1>1, <1>2, <1>6, <1>7, EffectServes

LEMMA InsertServes == ASSUME NEW r \in Requests, IInv, Insert(r), Observe PROVE Service!Next
<1>1. Active(r) /\ req[r].op = "done" /\ req[r] # NoInput
  BY MenuAssumption, ConstantsAssumption DEF Insert, IInv, ControlOK, Active, OpAt
<1>2. UNCHANGED <<tables, req, did>>
  BY DEF Insert
<1>3. CASE RowsOf(r) # {}
  <2>1. reply[r] = 0 => r \in held'
    <3>1. DayOf(r)' \in Logged'
      BY <1>2, <1>3 DEF RowsOf, DayOf, Logged, tables
    <3>. QED BY <1>1, <1>2, <3>1 DEF Observe, AsAsked
  <2>. QED BY <1>1, <1>2, <1>3, <2>1, AnswerServes, QuietServes DEF Insert, Service!Justified
<1>4. CASE RowsOf(r) = {}
  BY <1>2, <1>4, QuietServes DEF Insert, Goto
<1>. QED BY <1>3, <1>4

LEMMA CheckServes == ASSUME NEW r \in Requests, IInv, Check(r), Observe PROVE Service!Next
<1>1. Active(r) /\ req[r].op = "done" /\ req[r] # NoInput
  BY MenuAssumption, ConstantsAssumption DEF Check, IInv, ControlOK, Active, OpAt
<1>2. CASE name[req[r].habit] = NoName
  <2>1. Answer(r, 500) /\ UNCHANGED <<tables, did, req>>
    BY <1>2 DEF Check, tables
  <2>. QED BY <2>1, AnswerServes, QuietServes DEF Service!Justified
<1>3. CASE name[req[r].habit] # NoName
  <2>1. /\ rows' = rows \cup {<<req[r].habit, req[r].day, r>>} /\ did' = did \cup {r}
        /\ Answer(r, 204) /\ UNCHANGED <<name, req>>
    BY <1>3 DEF Check
  <2>2. Logged' = Logged \cup {DayOf(r)}
    <3>. DEFINE new == <<req[r].habit, req[r].day, r>>
    <3>1. <<new[1], new[2]>> = DayOf(r) /\ \A x : x \in rows' <=> x \in rows \/ x = new
      BY <2>1 DEF DayOf
    <3>. HIDE DEF new
    <3>2. \A p : p \in Logged' <=> \E x \in rows' : p = <<x[1], x[2]>>
      BY DEF Logged
    <3>3. \A p : p \in Logged <=> \E x \in rows : p = <<x[1], x[2]>>
      BY DEF Logged
    <3>4. \A p : p \in Logged' <=> p \in Logged \/ p = DayOf(r)
      BY <3>1, <3>2, <3>3
    <3>. QED BY <3>4
  <2>3. reply[r] = 0 => r \in held'
    BY <1>1, <2>1, <2>2 DEF Observe, AsAsked, DayOf
  <2>4. Service!Answer(r) \/ UNCHANGED reply
    BY <1>1, <2>1, <2>3, AnswerServes DEF Service!Justified
  <2>5. Service!Effect(r)
    BY <1>1, <1>3, <2>1, <2>2 DEF Service!Effect, DayOf, Service!DayOf
  <2>. QED BY <1>1, <2>1, <2>4, <2>5, EffectServes
<1>. QED BY <1>2, <1>3

LEMMA UndoServes == ASSUME NEW r \in Requests, IInv, Undo(r), Observe PROVE Service!Next
BY QuietServes DEF Undo, Goto

LEMMA UndoingServes == ASSUME NEW r \in Requests, IInv, Undoing(r), Observe PROVE Service!Next
<1>1. Active(r) /\ req[r].op = "undo" /\ req[r] # NoInput /\ pc[r] = "undoing"
  BY MenuAssumption, ConstantsAssumption DEF Undoing, IInv, ControlOK, Active, OpAt
<1>2. /\ rows' = rows \ seen[r] /\ Answer(r, 204) /\ UNCHANGED <<name, used, req>>
      /\ did' = IF seen[r] \cap rows # {} THEN did \cup {r} ELSE did
  BY DEF Undoing
<1>3. \A x \in seen[r] : <<x[1], x[2]>> = DayOf(r)
  BY <1>1 DEF IInv, UndoOK
<1>4. reply[r] = 0 => r \in held'
  <2>1. CASE r \in held
    BY <2>1 DEF Observe
  <2>2. CASE reply[r] = 0 /\ r \notin held
    <3>1. RowsOf(r) \subseteq seen[r]
      BY <1>1, <2>2 DEF IInv, UndoOK
    <3>2. DayOf(r)' \notin Logged'
      BY <1>2, <3>1 DEF Logged, RowsOf, DayOf
    <3>. QED BY <1>1, <1>2, <2>2, <3>2 DEF Observe, AsAsked
  <2>. QED BY <2>1, <2>2
<1>5. Service!Answer(r) \/ UNCHANGED reply
  BY <1>1, <1>2, <1>4, AnswerServes DEF Service!Justified
<1>6. CASE seen[r] \cap rows = {}
  <2>1. UNCHANGED <<tables, req, did>>
    BY <1>2, <1>6 DEF tables
  <2>. QED BY <1>5, <2>1, QuietServes
<1>7. CASE seen[r] \cap rows # {}
  <2>1. \A x \in rows : x \in seen[r] <=> <<x[1], x[2]>> = DayOf(r)
    BY <1>3, <1>7 DEF IInv, OneLogADay
  <2>2. Logged' = Logged \ {DayOf(r)}
    BY <1>2, <2>1 DEF Logged
  <2>3. Service!Effect(r)
    BY <1>1, <1>2, <2>2 DEF Service!Effect, DayOf, Service!DayOf
  <2>. QED BY <1>1, <1>2, <1>5, <1>7, <2>3, EffectServes
<1>. QED BY <1>6, <1>7

LEMMA CrashServes ==
    ASSUME IInv, Observe, UNCHANGED <<tables, req, did>>,
           reply' = [r \in Requests |-> IF Active(r) /\ reply[r] = 0 THEN Lost ELSE reply[r]]
    PROVE  Service!Next
<1>1. \A r \in Requests : Active(r) /\ reply[r] = 0 <=> reply[r] = 0 /\ req[r] # NoInput
  BY MenuAssumption, ConstantsAssumption DEF IInv, ControlOK, Active
<1>2. reply' = [r \in Requests |-> IF reply[r] = 0 /\ req[r] # NoInput THEN Service!Lost ELSE reply[r]]
  BY <1>1 DEF Lost, Service!Lost
<1>3. UNCHANGED <<name, Logged, req, did>>
  BY DEF Logged, tables
<1>. QED BY <1>2, <1>3, SameWatch DEF Service!Next, Service!Crash

LEMMA NextImplements == IInv /\ [Next]_vars => [Service!Next]_(Service!vars)
<1>. SUFFICES ASSUME IInv, [Next]_vars PROVE [Service!Next]_(Service!vars)
  OBVIOUS
<1>1. CASE UNCHANGED vars
  BY <1>1 DEF vars, tables, Service!vars, Logged
<1>2. CASE Crash /\ Observe
  BY <1>2, CrashServes DEF Crash
<1>3. CASE AllAnswered /\ Observe
  <2>1. reply' = [r \in Requests |-> IF Active(r) /\ reply[r] = 0 THEN Lost ELSE reply[r]]
    BY <1>3 DEF AllAnswered, Active, IInv, TypeOK
  <2>. QED BY <1>3, <2>1, CrashServes DEF AllAnswered
<1>4. ASSUME NEW r \in Requests, Observe,
             Receive(r) \/ Reject(r) \/ Step(r) \/ StatementFails(r) \/ CutOff(r) \/ OrphanCancelled(r)
      PROVE  Service!Next
  BY <1>4, ReceiveServes, RejectServes, CreateServes, LockHabitServes, CascadeServes, InsertServes,
     CheckServes, UndoServes, UndoingServes, FailuresServe DEF Step
<1>. QED BY <1>1, <1>2, <1>3, <1>4 DEF Next

\* Whatever the interleaving of the statements, the broken connections and the crashes,
\* the handlers of features.go keep what the service promises: each request has its
\* effect at one moment, at most once, and its answer agrees with it.
THEOREM Implementation == Spec => ImplementsHabitService
<1>1. IInv /\ [Next]_vars => [Service!Next]_Service!vars
  BY NextImplements
<1>. QED BY <1>1, InitImplements, Invariance, PTL DEF Spec, ImplementsHabitService, Service!Spec
=============================================================================
