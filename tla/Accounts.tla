------------------------------ MODULE Accounts ------------------------------
(***************************************************************************)
(* Registration, login and tokens: internal/handler/auth.go, UserRepository*)
(* (internal/repository/users.go), internal/auth/auth.go and the Auth      *)
(* middleware.  The clock runs in ticks, Second of them to a second; hash- *)
(* ing and comparing passwords take a while, statements may fail, and one  *)
(* whose handler has given it up may still be executed.  The table users   *)
(* is not among the migrations: that its username is unique is what the    *)
(* answer to a failed INSERT says.  Nothing removes or changes an account. *)
(***************************************************************************)
EXTENDS Integers

CONSTANTS Requests,          \* a request is also the id of the account it creates
          Names, Passwords,
          Menu,              \* what clients send
          NoInput, NoUser, NoToken,
          Second, TTL,       \* ticks in a second, tokenTTL in seconds
          MaxClock, MaxFaults   \* bounds on the clock and on failures

Account == [name : Names, password : Passwords]
Inputs == [op : {"register", "login", "me"}, name : Names, password : Passwords]

ASSUME ConstantsAssumption ==
    /\ Menu \subseteq Inputs
    /\ NoInput \notin Inputs /\ NoUser \notin Account /\ NoUser \notin Requests
    /\ Second \in Nat \ {0} /\ TTL \in Nat \ {0}
    /\ MaxClock \in Nat /\ MaxFaults \in Nat

\* The claims that are used; iat is the moment of issue in ticks.
Token == [sub : Requests, iat : Nat, exp : Nat]
ASSUME TokenAssumption == NoToken \notin Token

VARIABLES
    clock,
    users,    \* the committed row of each id, or NoUser
    req, pc,
    user,     \* the id of the row that the handler has in hand, or NoUser
    bearer,   \* the token that came with the request
    tokens,   \* tokens handed out
    reply,    \* the status answered, 0 if none, Lost if the process died first
    known,    \* history: requests whose account was there, with that password, when sent
    failed,   \* history: requests whose statement failed
    faults

vars == <<clock, users, req, pc, user, bearer, tokens, reply, known, failed, faults>>
history == <<known, failed, faults>>

Lost == -1
Unix == clock \div Second

Init ==
    /\ clock = 0
    /\ users = [r \in Requests |-> NoUser]
    /\ req = [r \in Requests |-> NoInput]
    /\ pc = [r \in Requests |-> "idle"]
    /\ user = [r \in Requests |-> NoUser]
    /\ bearer = [r \in Requests |-> NoToken]
    /\ tokens = {}
    /\ reply = [r \in Requests |-> 0]
    /\ known = {} /\ failed = {} /\ faults = 0

Holds(i, name) == users[i] # NoUser /\ users[i].name = name
Named(name) == {i \in Requests : Holds(i, name)}
AccountOf(in) == [name |-> in.name, password |-> in.password]

Goto(r, p) == pc' = [pc EXCEPT ![r] = p] /\ UNCHANGED reply
Answer(r, code) == pc' = [pc EXCEPT ![r] = "done"] /\ reply' = [reply EXCEPT ![r] = code]

Tick == clock < MaxClock /\ clock' = clock + 1
        /\ UNCHANGED <<users, req, pc, user, bearer, tokens, reply, history>>

FirstStep == [register |-> "insert", login |-> "select", me |-> "verify"]

Receive(r) ==
    /\ pc[r] = "idle"
    /\ \E in \in Menu :
         /\ req' = [req EXCEPT ![r] = in]
         /\ Goto(r, FirstStep[in.op])
         /\ IF in.op = "me" THEN \E t \in tokens : bearer' = [bearer EXCEPT ![r] = t]
                            ELSE UNCHANGED bearer
         /\ known' = IF in.op = "me" \/ \E i \in Requests : users[i] = AccountOf(in)
                     THEN known \cup {r} ELSE known
    /\ UNCHANGED <<clock, users, user, tokens, failed, faults>>

\* A body or a password that will not do; no token, or none of this server's; no
\* administrator's secret.
Reject(r) ==
    /\ pc[r] = "idle"
    /\ \E code \in {400, 401, 403} : Answer(r, code)
    /\ UNCHANGED <<clock, users, req, user, bearer, tokens, history>>

-----------------------------------------------------------------------------
\* Mutant: INSERT ... ON CONFLICT (username) DO UPDATE.
Upsert(r) ==
    /\ pc[r] = "insert"
    /\ LET i == IF Named(req[r].name) = {} THEN r ELSE CHOOSE i \in Named(req[r].name) : TRUE IN
       /\ users' = [users EXCEPT ![i] = AccountOf(req[r])]
       /\ user' = [user EXCEPT ![r] = i]
    /\ Goto(r, "issue")
    /\ UNCHANGED <<clock, req, bearer, tokens, history>>

Insert(r) ==
    /\ pc[r] = "insert"
    /\ IF Named(req[r].name) # {}
       THEN Answer(r, 409) /\ UNCHANGED <<users, user>>
       ELSE /\ users' = [users EXCEPT ![r] = AccountOf(req[r])]
            /\ user' = [user EXCEPT ![r] = r]
            /\ Goto(r, "issue")
    /\ UNCHANGED <<clock, req, bearer, tokens, history>>

Select(r) ==
    /\ pc[r] = "select"
    /\ IF Named(req[r].name) = {}
       THEN Answer(r, 401) /\ UNCHANGED user
       ELSE \E i \in Named(req[r].name) : user' = [user EXCEPT ![r] = i] /\ Goto(r, "compare")
    /\ UNCHANGED <<clock, users, req, bearer, tokens, history>>

\* Mutant: the password is not looked at.
CompareNothing(r) ==
    /\ pc[r] = "compare"
    /\ Goto(r, "issue")
    /\ UNCHANGED <<clock, users, req, user, bearer, tokens, history>>

Compare(r) ==
    /\ pc[r] = "compare"
    /\ IF users[user[r]].password = req[r].password THEN Goto(r, "issue") ELSE Answer(r, 401)
    /\ UNCHANGED <<clock, users, req, user, bearer, tokens, history>>

Issue(r) ==
    /\ pc[r] = "issue"
    /\ tokens' = tokens \cup {[sub |-> user[r], iat |-> clock, exp |-> Unix + TTL]}
    /\ Answer(r, IF req[r].op = "register" THEN 201 ELSE 200)
    /\ UNCHANGED <<clock, users, req, user, bearer, history>>

\* Mutant: a token is refused in its last second.
ExpiredEarly(t) == Unix >= t.exp
Expired(t) == Unix > t.exp

Verify(r) ==
    /\ pc[r] = "verify"
    /\ IF Expired(bearer[r]) THEN Answer(r, 401) ELSE Goto(r, "fetch")
    /\ UNCHANGED <<clock, users, req, user, bearer, tokens, history>>

Fetch(r) ==
    /\ pc[r] = "fetch"
    /\ user' = [user EXCEPT ![r] = bearer[r].sub]
    /\ Answer(r, IF users[bearer[r].sub] = NoUser THEN 404 ELSE 200)
    /\ UNCHANGED <<clock, users, req, bearer, tokens, history>>

-----------------------------------------------------------------------------
\* Mutant: a failure is told from an absence.
CodeUnavailable == [insert |-> 503, select |-> 503, fetch |-> 503]

\* Every error of the repository, whatever its cause.
CodeOfFailure == [insert |-> 409, select |-> 401, fetch |-> 404]

\* An INSERT that has been sent may be executed all the same.
Abandon(r) == pc' = [pc EXCEPT ![r] = IF @ = "insert" THEN "orphan" ELSE "done"]

StatementFails(r) ==
    /\ pc[r] \in DOMAIN CodeOfFailure /\ faults < MaxFaults
    /\ faults' = faults + 1 /\ failed' = failed \cup {r}
    /\ Abandon(r) /\ reply' = [reply EXCEPT ![r] = CodeOfFailure[pc[r]]]
    /\ UNCHANGED <<clock, users, req, user, bearer, tokens, known>>

Crash ==
    LET dying == {r \in Requests : pc[r] \notin {"idle", "done", "orphan"}} IN
    /\ faults < MaxFaults /\ faults' = faults + 1
    /\ pc' = [r \in Requests |-> IF r \notin dying THEN pc[r]
                                 ELSE IF pc[r] = "insert" THEN "orphan" ELSE "done"]
    /\ reply' = [r \in Requests |-> IF r \in dying THEN Lost ELSE reply[r]]
    /\ UNCHANGED <<clock, users, req, user, bearer, tokens, known, failed>>

Orphan(r) ==
    /\ pc[r] = "orphan"
    /\ \/ Named(req[r].name) = {} /\ users' = [users EXCEPT ![r] = AccountOf(req[r])]
       \/ UNCHANGED users
    /\ pc' = [pc EXCEPT ![r] = "done"]
    /\ UNCHANGED <<clock, req, user, bearer, tokens, reply, history>>

Next ==
    \/ Tick \/ Crash
    \/ \E r \in Requests :
         \/ Receive(r) \/ Reject(r) \/ Insert(r) \/ Select(r) \/ Compare(r) \/ Issue(r)
         \/ Verify(r) \/ Fetch(r) \/ StatementFails(r) \/ Orphan(r)

Spec == Init /\ [][Next]_vars

-----------------------------------------------------------------------------
TypeOK ==
    /\ clock \in 0..MaxClock
    /\ users \in [Requests -> Account \cup {NoUser}]
    /\ req \in [Requests -> Menu \cup {NoInput}]
    /\ pc \in [Requests -> {"idle", "insert", "select", "compare", "issue", "verify",
                            "fetch", "orphan", "done"}]
    /\ user \in [Requests -> Requests \cup {NoUser}]
    /\ bearer \in [Requests -> Token \cup {NoToken}]
    /\ tokens \subseteq Token
    /\ reply \in [Requests -> {0, Lost, 200, 201, 400, 401, 403, 404, 409}]
    /\ known \subseteq Requests /\ failed \subseteq Requests
    /\ faults \in 0..MaxFaults

\* Of all who ask for a name, at once or after a lost answer, one has it, and whoever
\* was told 201 is that one, with the password he gave (auth.go:53, users.go:28).
NamesHaveOneOwner ==
    /\ \A i, j \in Requests : users[i] # NoUser /\ users[j] # NoUser
                              /\ users[i].name = users[j].name => i = j
    /\ \A r \in Requests : reply[r] = 201 => users[r] = AccountOf(req[r])

\* An account that was there when the login was sent is let in unless the statement
\* fails, and nobody is let in on another's password (auth.go:20 to 28).
LoginsAreRight ==
    \A r \in Requests : pc[r] = "done" /\ req[r] # NoInput /\ req[r].op = "login" =>
        /\ reply[r] = 401 => r \notin known \/ r \in failed
        /\ reply[r] = 200 => users[user[r]] = AccountOf(req[r])

\* A token is good for tokenTTL from the moment it was made, and never a second longer
\* (auth.go:30 rounds down, auth.go:64 compares with >).
TokenLivesItsSevenDays ==
    [][\A r \in Requests : pc[r] = "verify" =>
         LET age == clock - bearer[r].iat IN
         /\ reply'[r] = 401 => age > TTL * Second
         /\ pc'[r] = "fetch" => age < (TTL + 1) * Second]_vars

\* "username already taken" (auth.go:55).
TakenMeansTaken ==
    \A r \in Requests : reply[r] = 409 => \E i \in Requests \ {r} : Holds(i, req[r].name)
=============================================================================
