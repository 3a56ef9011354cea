---------------------------- MODULE HabitService ----------------------------
(***************************************************************************)
(* What the habit endpoints promise: a habit has a name of its own and a   *)
(* set of days; each request takes effect at one moment, at most once, and *)
(* not after a good answer.  A day is a register that requests switch on   *)
(* and off: 204 says that it stood as asked at some moment of the request. *)
(***************************************************************************)
EXTENDS Integers

CONSTANTS Habits, NoName, Requests, Menu, NoInput, InitName, InitDays

Lost == -1   \* the process died before it answered

VARIABLES name,   \* the name of each habit, NoName when there is none
          days,   \* the pairs of a habit and a day on which it was done
          req, reply,
          did,    \* the requests that have taken effect
          held    \* those whose day has stood as they ask since they were sent

vars == <<name, days, req, reply, did, held>>

Init ==
    /\ name = InitName /\ days = InitDays
    /\ req = [r \in Requests |-> NoInput]
    /\ reply = [r \in Requests |-> 0]
    /\ did = {} /\ held = {}

DayOf(r) == <<req[r].habit, req[r].day>>
AsAsked(r) ==
    /\ req[r] # NoInput
    /\ \/ req[r].op = "done" /\ DayOf(r) \in days
       \/ req[r].op = "undo" /\ DayOf(r) \notin days

Receive(r) ==
    /\ req[r] = NoInput /\ reply[r] = 0
    /\ \E in \in Menu : req' = [req EXCEPT ![r] = in]
    /\ UNCHANGED <<name, days, reply, did>>

Effect(r) ==
    LET h == req[r].habit IN
    \/ /\ req[r].op = "create" /\ name[h] = NoName /\ \A g \in Habits : name[g] # req[r].name
       /\ name' = [name EXCEPT ![h] = req[r].name] /\ UNCHANGED days
    \/ /\ req[r].op = "delete" /\ name[h] # NoName
       /\ name' = [name EXCEPT ![h] = NoName] /\ days' = {p \in days : p[1] # h}
    \/ /\ req[r].op = "done" /\ name[h] # NoName
       /\ days' = days \cup {DayOf(r)} /\ UNCHANGED name
    \/ /\ req[r].op = "undo"
       /\ days' = days \ {DayOf(r)} /\ UNCHANGED name

\* A request whose answer was bad, or never came, may still take effect.
TakeEffect(r) ==
    /\ req[r] # NoInput /\ r \notin did /\ reply[r] \in {0, 500, Lost}
    /\ Effect(r) /\ did' = did \cup {r}

\* What an answer says of the request, its own step included.
Justified(r, code) ==
    \/ code = 500
    \/ code = 400 /\ req[r] = NoInput
    \/ /\ req[r] # NoInput
       /\ \/ code = 201 /\ req[r].op = "create" /\ r \in did'
          \/ code = 204 /\ req[r].op = "delete" /\ r \in did'
          \/ code = 204 /\ req[r].op \in {"done", "undo"} /\ r \in held'
          \/ code = 404 /\ req[r].op = "delete" /\ r \notin did' /\ name[req[r].habit] = NoName

Answer(r) ==
    /\ reply[r] = 0
    /\ \E code \in {201, 204, 400, 404, 500} :
         Justified(r, code) /\ reply' = [reply EXCEPT ![r] = code]

Serve(r) ==
    /\ TakeEffect(r) \/ UNCHANGED <<name, days, did>>
    /\ Answer(r) \/ UNCHANGED reply
    /\ UNCHANGED req

Crash ==
    /\ reply' = [r \in Requests |-> IF reply[r] = 0 /\ req[r] # NoInput THEN Lost ELSE reply[r]]
    /\ UNCHANGED <<name, days, req, did>>

Observe == held' = held \cup {r \in Requests : reply[r] = 0 /\ AsAsked(r)'}

Next == (Crash \/ \E r \in Requests : Receive(r) \/ Serve(r)) /\ Observe

Spec == Init /\ [][Next]_vars
=============================================================================
