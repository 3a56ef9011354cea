---------------------------- MODULE AccountsProofs ----------------------------
(***************************************************************************)
(* The theorems of Accounts: who owns a name, who is let in, and how long  *)
(* a token lives, for any clock, any number of requests and any failures.  *)
(***************************************************************************)
EXTENDS Accounts, TLAPS

-----------------------------------------------------------------------------
(* Whole seconds.                                                          *)

LEMMA DivBounds ==
  ASSUME NEW c \in Nat, NEW s \in Nat \ {0}
  PROVE  c \div s \in Nat /\ s * (c \div s) <= c /\ c < s * (c \div s) + s
OBVIOUS

LEMMA TimesMonotonic ==
  ASSUME NEW s \in Nat, NEW a \in Int, NEW b \in Int, a <= b
  PROVE  s * a <= s * b
OBVIOUS

\* More than n seconds by the rounded clock is more than n seconds, and at most n by the
\* rounded clock less than one more.
LEMMA RoundedAges ==
  ASSUME NEW now \in Nat, NEW then \in Nat, NEW s \in Nat \ {0}, NEW n \in Nat
  PROVE  /\ now \div s > then \div s + n => now - then > n * s
         /\ ~(now \div s > then \div s + n) => now - then < (n + 1) * s
<1>. DEFINE u == now \div s
            v == then \div s
<1>1. u \in Nat /\ s * u <= now /\ now < s * u + s
  BY DivBounds
<1>2. v \in Nat /\ s * v <= then /\ then < s * v + s
  BY DivBounds
<1>. HIDE DEF u, v
<1>3. ASSUME u > v + n PROVE now - then > n * s
  <2>1. s * (v + n + 1) <= s * u
    BY <1>1, <1>2, <1>3, TimesMonotonic
  <2>2. s * (v + n + 1) = s * v + n * s + s
    BY <1>2
  <2>3. s * v \in Int /\ s * u \in Int /\ n * s \in Int
    BY <1>1, <1>2
  <2>. QED BY <1>1, <1>2, <2>1, <2>2, <2>3
<1>4. ASSUME ~(u > v + n) PROVE now - then < (n + 1) * s
  <2>1. s * u <= s * (v + n)
    BY <1>1, <1>2, <1>4, TimesMonotonic
  <2>2. s * (v + n) = s * v + n * s /\ (n + 1) * s = n * s + s
    BY <1>2
  <2>3. s * v \in Int /\ s * u \in Int /\ n * s \in Int
    BY <1>1, <1>2
  <2>. QED BY <1>1, <1>2, <2>1, <2>2, <2>3
<1>. QED BY <1>3, <1>4 DEF u, v

-----------------------------------------------------------------------------
(* The inductive invariant: what each control state has in hand.           *)

\* The kinds of request that reach a control state.
OpsAt == [insert |-> {"register"}, orphan |-> {"register"}, select |-> {"login"},
          compare |-> {"login"}, issue |-> {"register", "login"}, verify |-> {"me"},
          fetch |-> {"me"}]

Served(r) == pc[r] \in DOMAIN OpsAt => req[r] \in Menu /\ req[r].op \in OpsAt[pc[r]]

\* Nothing is answered yet, and an INSERT still to be made has made no row.
Open(r) ==
    /\ pc[r] \notin {"done", "orphan"} => reply[r] = 0
    /\ pc[r] \in {"idle", "insert", "select", "compare", "verify", "fetch", "orphan"} => users[r] = NoUser
    /\ pc[r] = "idle" => req[r] = NoInput

\* The row in hand: of the name asked for, and once compared or inserted, the account itself.
InHand(r) ==
    /\ pc[r] = "compare" => user[r] \in Requests /\ Holds(user[r], req[r].name)
    /\ pc[r] = "issue" => /\ user[r] \in Requests /\ users[user[r]] = AccountOf(req[r])
                          /\ req[r].op = "register" => user[r] = r
    /\ pc[r] \in {"verify", "fetch"} => bearer[r] \in tokens
    /\ reply[r] = 200 => user[r] \in Requests

\* What a history variable says of a request remains true: nothing removes an account.
KnownOK(r) ==
    r \in known => req[r] \in Menu
                   /\ (req[r].op = "me" \/ \E i \in Requests : users[i] = AccountOf(req[r]))

Control == \A r \in Requests : Served(r) /\ Open(r) /\ InHand(r) /\ KnownOK(r)

Stamped == \A t \in tokens : t.exp = t.iat \div Second + TTL

IInv == TypeOK /\ Control /\ Stamped /\ NamesHaveOneOwner /\ LoginsAreRight

LEMMA Kinds ==
  /\ \A in \in Menu : /\ in \in Inputs /\ in # NoInput /\ AccountOf(in) \in Account
                       /\ AccountOf(in).name = in.name /\ AccountOf(in).password = in.password
                       /\ AccountOf(in) # NoUser /\ in.op \in {"register", "login", "me"}
  /\ NoUser \notin Requests
BY ConstantsAssumption DEF Inputs, Account, AccountOf

LEMMA InitInv == Init => IInv
<1>. SUFFICES ASSUME Init PROVE IInv
  OBVIOUS
<1>1. TypeOK
  BY ConstantsAssumption DEF Init, TypeOK
<1>2. Control
  <2>. SUFFICES ASSUME NEW r \in Requests PROVE Served(r) /\ Open(r) /\ InHand(r) /\ KnownOK(r)
    BY DEF Control
  <2>1. pc[r] = "idle" /\ reply[r] = 0 /\ users[r] = NoUser /\ req[r] = NoInput /\ known = {}
    BY DEF Init
  <2>. QED BY <2>1 DEF Served, OpsAt, Open, InHand, KnownOK
<1>3. Stamped /\ NamesHaveOneOwner /\ LoginsAreRight
  BY DEF Init, Stamped, NamesHaveOneOwner, LoginsAreRight
<1>. QED BY <1>1, <1>2, <1>3 DEF IInv

\* A step of r leaves what another request q has in hand as it is, also when it adds an
\* account or hands out a token.
Grows(r) ==
    \/ users' = users
    \/ users[r] = NoUser /\ req[r] \in Menu /\ users' = [users EXCEPT ![r] = AccountOf(req[r])]

Same(q) == pc'[q] = pc[q] /\ reply'[q] = reply[q] /\ req'[q] = req[q] /\ user'[q] = user[q]
           /\ bearer'[q] = bearer[q] /\ (q \in known' => q \in known)
           /\ (q \in failed => q \in failed')

LEMMA OthersKeep ==
  ASSUME IInv, NEW r \in Requests, NEW q \in Requests, q # r,
         Grows(r), Same(q), tokens \subseteq tokens'
  PROVE  (Served(q) /\ Open(q) /\ InHand(q) /\ KnownOK(q))'
<1>. USE DEF IInv, Same
<1>1. users'[q] = users[q] /\ \A i \in Requests : users[i] # NoUser => users'[i] = users[i]
  BY DEF Grows, TypeOK
<1>2. Served(q)' /\ Open(q)'
  BY <1>1 DEF Control, Served, Open
<1>3. InHand(q)'
  <2>1. pc[q] = "issue" => AccountOf(req[q]) # NoUser
    BY Kinds DEF Control, Served, OpsAt
  <2>2. CASE pc[q] = "compare"
    BY <1>1, <2>2 DEF Control, InHand, Holds
  <2>3. CASE pc[q] = "issue"
    BY <1>1, <2>1, <2>3 DEF Control, InHand, AccountOf
  <2>. QED BY <2>2, <2>3 DEF Control, InHand
<1>4. KnownOK(q)'
  <2>. SUFFICES ASSUME q \in known', req[q].op # "me" PROVE KnownOK(q)'
    BY DEF Control, KnownOK
  <2>1. PICK i \in Requests : users[i] = AccountOf(req[q])
    BY DEF Control, KnownOK
  <2>2. users'[i] = AccountOf(req[q])
    BY <1>1, <2>1, Kinds DEF Control, KnownOK
  <2>. QED BY <2>2 DEF Control, KnownOK, AccountOf
<1>. QED BY <1>2, <1>3, <1>4

\* What has been answered stays true of the accounts.
LEMMA AnswersKeep ==
  ASSUME IInv, NEW r \in Requests, Grows(r), \A q \in Requests \ {r} : Same(q),
         TypeOK',
         users' = users \/ \A i \in Requests : users[i] # NoUser => users[i].name # req[r].name,
         reply'[r] = 201 => users'[r] = AccountOf(req'[r]),
         pc'[r] = "done" /\ req'[r] # NoInput /\ req'[r].op = "login" =>
             /\ reply'[r] = 401 => r \notin known' \/ r \in failed'
             /\ reply'[r] = 200 => users'[user'[r]] = AccountOf(req'[r])
  PROVE  (NamesHaveOneOwner /\ LoginsAreRight)'
<1>. USE DEF IInv
<1>1. \A i \in Requests : users[i] # NoUser => users'[i] = users[i]
  BY DEF Grows, TypeOK
<1>2. \A i, j \in Requests : users'[i] # NoUser /\ users'[j] # NoUser
                              /\ users'[i].name = users'[j].name => i = j
  <2>1. CASE users' = users
    BY <2>1 DEF NamesHaveOneOwner
  <2>2. CASE users' # users
    <3>1. /\ users' = [users EXCEPT ![r] = AccountOf(req[r])] /\ AccountOf(req[r]).name = req[r].name
          /\ \A i \in Requests : users[i] # NoUser => users[i].name # req[r].name
      BY <2>2, Kinds DEF Grows
    <3>2. \A i \in Requests : users'[i] = IF i = r THEN AccountOf(req[r]) ELSE users[i]
      BY <3>1 DEF TypeOK
    <3>. QED BY <3>1, <3>2 DEF NamesHaveOneOwner
  <2>. QED BY <2>1, <2>2
<1>3. ASSUME NEW q \in Requests, reply'[q] = 201 PROVE users'[q] = AccountOf(req'[q])
  <2>1. CASE q # r
    <3>1. Same(q) /\ users[q] = AccountOf(req[q])
      BY <2>1, <1>3 DEF NamesHaveOneOwner, Same
    <3>2. users'[q] = users[q]
      BY <2>1 DEF Grows, TypeOK
    <3>. QED BY <3>1, <3>2 DEF Same, AccountOf
  <2>. QED BY <2>1, <1>3
<1>4. ASSUME NEW q \in Requests, pc'[q] = "done", req'[q] # NoInput, req'[q].op = "login"
      PROVE  /\ reply'[q] = 401 => q \notin known' \/ q \in failed'
             /\ reply'[q] = 200 => users'[user'[q]] = AccountOf(req'[q])
  <2>1. CASE q # r
    <3>1. Same(q)
      BY <2>1
    <3>2. /\ reply[q] = 401 => q \notin known \/ q \in failed
          /\ reply[q] = 200 => users[user[q]] = AccountOf(req[q])
      BY <3>1, <1>4 DEF LoginsAreRight, Same
    <3>3. req[q] \in Menu
      BY <3>1, <1>4 DEF TypeOK, Same
    <3>4. ASSUME reply[q] = 200 PROVE users'[user[q]] = users[user[q]]
      <4>1. AccountOf(req[q]) # NoUser /\ user[q] \in Requests /\ users[user[q]] = AccountOf(req[q])
        BY <3>2, <3>3, <3>4, Kinds DEF Control, InHand
      <4>. QED BY <4>1, <1>1
    <3>. QED BY <3>1, <3>2, <3>4 DEF Same, AccountOf
  <2>. QED BY <2>1, <1>4
<1>. QED BY <1>2, <1>3, <1>4 DEF NamesHaveOneOwner, LoginsAreRight

\* A step of r that grows the accounts and says the truth keeps the invariant.
LEMMA StepKeeps ==
  ASSUME IInv, NEW r \in Requests, TypeOK', Grows(r), tokens \subseteq tokens',
         \A q \in Requests \ {r} : Same(q),
         users' = users \/ \A i \in Requests : users[i] # NoUser => users[i].name # req[r].name,
         (Served(r) /\ Open(r) /\ InHand(r) /\ KnownOK(r))', Stamped',
         reply'[r] = 201 => users'[r] = AccountOf(req'[r]),
         pc'[r] = "done" /\ req'[r] # NoInput /\ req'[r].op = "login" =>
             /\ reply'[r] = 401 => r \notin known' \/ r \in failed'
             /\ reply'[r] = 200 => users'[user'[r]] = AccountOf(req'[r])
  PROVE  IInv'
<1>1. (NamesHaveOneOwner /\ LoginsAreRight)'
  BY AnswersKeep
<1>2. \A q \in Requests \ {r} : (Served(q) /\ Open(q) /\ InHand(q) /\ KnownOK(q))'
  BY OthersKeep
<1>3. Control'
  BY <1>2 DEF Control
<1>. QED BY <1>1, <1>3 DEF IInv

-----------------------------------------------------------------------------
(* The steps.                                                              *)

LEMMA TickInv == IInv /\ Tick => IInv'
<1>. SUFFICES ASSUME IInv, Tick PROVE IInv'
  OBVIOUS
<1>1. TypeOK'
  BY ConstantsAssumption DEF IInv, TypeOK, Tick, history
<1>2. Control' /\ Stamped' /\ NamesHaveOneOwner' /\ LoginsAreRight'
  BY DEF IInv, Tick, history, Control, Served, Open, InHand, KnownOK, Holds, Stamped,
         NamesHaveOneOwner, LoginsAreRight
<1>. QED BY <1>1, <1>2 DEF IInv

LEMMA CrashInv == IInv /\ Crash => IInv'
<1>. SUFFICES ASSUME IInv, Crash PROVE IInv'
  OBVIOUS
<1>1. TypeOK'
  BY ConstantsAssumption DEF IInv, TypeOK, Crash, Lost
<1>2. \A r \in Requests :
        IF pc[r] \in {"idle", "done", "orphan"} THEN pc'[r] = pc[r] /\ reply'[r] = reply[r]
        ELSE pc'[r] = (IF pc[r] = "insert" THEN "orphan" ELSE "done") /\ reply'[r] = -1
  BY DEF IInv, TypeOK, Crash, Lost
<1>3. Control'
  <2>. SUFFICES ASSUME NEW r \in Requests PROVE (Served(r) /\ Open(r) /\ InHand(r) /\ KnownOK(r))'
    BY DEF Control
  <2>1. Served(r) /\ Open(r) /\ InHand(r) /\ KnownOK(r)
    BY DEF IInv, Control
  <2>. QED BY <1>2, <2>1 DEF Crash, Served, OpsAt, Open, InHand, KnownOK, Holds, AccountOf
<1>4. Stamped' /\ NamesHaveOneOwner'
  BY <1>2 DEF IInv, Crash, Stamped, NamesHaveOneOwner, AccountOf
<1>5. LoginsAreRight'
  BY <1>2 DEF IInv, Crash, LoginsAreRight, AccountOf
<1>. QED BY <1>1, <1>3, <1>4, <1>5 DEF IInv

LEMMA ReceiveInv == ASSUME IInv, NEW r \in Requests, Receive(r) PROVE IInv'
<1>. USE DEF IInv
<1>1. PICK in \in Menu :
         /\ req' = [req EXCEPT ![r] = in]
         /\ Goto(r, FirstStep[in.op])
         /\ IF in.op = "me" THEN \E t \in tokens : bearer' = [bearer EXCEPT ![r] = t]
                            ELSE UNCHANGED bearer
         /\ known' = IF in.op = "me" \/ \E i \in Requests : users[i] = AccountOf(in)
                     THEN known \cup {r} ELSE known
  BY DEF Receive
<1>2. /\ in.op \in {"register", "login", "me"} /\ in # NoInput
      /\ FirstStep[in.op] = IF in.op = "register" THEN "insert"
                            ELSE IF in.op = "login" THEN "select" ELSE "verify"
  BY Kinds DEF FirstStep
<1>3. /\ pc[r] = "idle" /\ reply[r] = 0 /\ users[r] = NoUser
      /\ pc'[r] = FirstStep[in.op] /\ req'[r] = in /\ reply' = reply
      /\ UNCHANGED <<clock, users, user, tokens, failed, faults>>
  BY <1>1 DEF Receive, Goto, TypeOK, Control, Open
<1>4. TypeOK'
  BY <1>1, <1>2, <1>3 DEF TypeOK, Goto
<1>5. Grows(r) /\ \A q \in Requests \ {r} : Same(q)
  BY <1>1, <1>3 DEF Grows, Same, TypeOK, Goto
<1>6. (Served(r) /\ Open(r))'
  BY <1>2, <1>3 DEF Served, Open, OpsAt
<1>7. InHand(r)'
  BY <1>1, <1>2, <1>3 DEF InHand, TypeOK
<1>8. KnownOK(r)'
  <2>1. KnownOK(r) /\ req[r] = NoInput /\ NoInput \notin Menu
    BY <1>3, Kinds DEF Control, Open
  <2>. QED BY <1>1, <1>3, <2>1 DEF KnownOK, AccountOf
<1>9. Stamped'
  BY <1>3 DEF Stamped
<1>. QED BY <1>2, <1>3, <1>4, <1>5, <1>6, <1>7, <1>8, <1>9, StepKeeps

LEMMA RejectInv == ASSUME IInv, NEW r \in Requests, Reject(r) PROVE IInv'
<1>. USE DEF IInv
<1>1. PICK code \in {400, 401, 403} : Answer(r, code)
  BY DEF Reject
<1>2. /\ pc[r] = "idle" /\ req[r] = NoInput
      /\ pc'[r] = "done" /\ reply'[r] = code
      /\ UNCHANGED <<clock, users, req, user, bearer, tokens, known, failed, faults>>
  BY <1>1 DEF Reject, Answer, TypeOK, Control, Open, history
<1>3. TypeOK'
  BY <1>1, <1>2 DEF TypeOK, Answer
<1>4. Grows(r) /\ \A q \in Requests \ {r} : Same(q)
  BY <1>1, <1>2 DEF Grows, Same, TypeOK, Answer
<1>5. (Served(r) /\ Open(r) /\ InHand(r) /\ KnownOK(r))'
  BY <1>2 DEF Control, Served, Open, InHand, KnownOK, OpsAt, AccountOf
<1>6. Stamped'
  BY <1>2 DEF Stamped
<1>. QED BY <1>2, <1>3, <1>4, <1>5, <1>6, StepKeeps

\* What is known of a request at work: it is of its kind, unanswered, and its name and
\* password are those of an account.
LEMMA AtWork ==
  ASSUME IInv, NEW r \in Requests, pc[r] \in DOMAIN OpsAt
  PROVE  /\ req[r] \in Menu /\ req[r] # NoInput /\ req[r].op \in OpsAt[pc[r]]
         /\ AccountOf(req[r]) \in Account /\ AccountOf(req[r]) # NoUser
         /\ AccountOf(req[r]).name = req[r].name /\ AccountOf(req[r]).password = req[r].password
         /\ pc[r] # "orphan" => reply[r] = 0
BY Kinds DEF IInv, Control, Served, Open, OpsAt

LEMMA InsertInv == ASSUME IInv, NEW r \in Requests, Insert(r) PROVE IInv'
<1>. USE DEF IInv
<1>1. /\ pc[r] = "insert" /\ users[r] = NoUser
      /\ UNCHANGED <<clock, req, bearer, tokens, known, failed, faults>>
  BY DEF Insert, history, Control, Open
<1>2. /\ req[r] \in Menu /\ req[r].op = "register" /\ AccountOf(req[r]) \in Account
      /\ AccountOf(req[r]) # NoUser /\ AccountOf(req[r]).name = req[r].name /\ reply[r] = 0
  BY <1>1, AtWork DEF OpsAt
<1>3. CASE Named(req[r].name) # {}
  <2>1. pc'[r] = "done" /\ reply'[r] = 409 /\ UNCHANGED <<users, user>>
    BY <1>3 DEF Insert, Answer, TypeOK
  <2>2. TypeOK'
    BY <1>1, <1>3, <2>1 DEF TypeOK, Insert, Answer
  <2>3. Grows(r) /\ \A q \in Requests \ {r} : Same(q)
    BY <1>1, <1>3, <2>1 DEF Grows, Same, TypeOK, Insert, Answer
  <2>4. (Served(r) /\ Open(r) /\ InHand(r) /\ KnownOK(r))' /\ Stamped'
    BY <1>1, <2>1 DEF Control, Served, Open, InHand, KnownOK, OpsAt, AccountOf, Stamped
  <2>. QED BY <1>1, <1>2, <2>1, <2>2, <2>3, <2>4, StepKeeps
<1>4. CASE Named(req[r].name) = {}
  <2>1. /\ pc'[r] = "issue" /\ reply' = reply /\ user'[r] = r
        /\ users' = [users EXCEPT ![r] = AccountOf(req[r])] /\ users'[r] = AccountOf(req[r])
    BY <1>4 DEF Insert, Goto, TypeOK
  <2>2. TypeOK'
    BY <1>1, <1>2, <1>4, <2>1 DEF TypeOK, Insert, Goto
  <2>3. Grows(r) /\ \A q \in Requests \ {r} : Same(q)
    BY <1>1, <1>2, <1>4, <2>1 DEF Grows, Same, TypeOK, Insert, Goto
  <2>4. \A i \in Requests : users[i] # NoUser => users[i].name # req[r].name
    BY <1>4 DEF Named, Holds
  <2>5. (Served(r) /\ Open(r) /\ InHand(r))' /\ Stamped'
    BY <1>1, <1>2, <2>1 DEF Served, Open, InHand, OpsAt, AccountOf, Stamped
  <2>6. KnownOK(r)'
    BY <1>1, <1>2, <2>1 DEF Control, KnownOK, AccountOf
  <2>. QED BY <1>1, <1>2, <2>1, <2>2, <2>3, <2>4, <2>5, <2>6, StepKeeps
<1>. QED BY <1>3, <1>4

LEMMA SelectInv == ASSUME IInv, NEW r \in Requests, Select(r) PROVE IInv'
<1>. USE DEF IInv
<1>1. /\ pc[r] = "select"
      /\ UNCHANGED <<clock, users, req, bearer, tokens, known, failed, faults>>
  BY DEF Select, history
<1>2. /\ req[r] \in Menu /\ req[r].op = "login" /\ AccountOf(req[r]) # NoUser
      /\ AccountOf(req[r]).name = req[r].name /\ reply[r] = 0
  BY <1>1, AtWork DEF OpsAt
<1>3. Grows(r)
  BY <1>1 DEF Grows
<1>4. CASE Named(req[r].name) = {}
  <2>1. pc'[r] = "done" /\ reply'[r] = 401 /\ UNCHANGED user
    BY <1>4 DEF Select, Answer, TypeOK
  <2>2. TypeOK' /\ \A q \in Requests \ {r} : Same(q)
    BY <1>1, <1>4, <2>1 DEF TypeOK, Same, Select, Answer
  <2>3. r \notin known
    BY <1>2, <1>4 DEF Control, KnownOK, Named, Holds
  <2>4. (Served(r) /\ Open(r) /\ InHand(r) /\ KnownOK(r))' /\ Stamped'
    BY <1>1, <2>1, <2>3 DEF Served, Open, InHand, KnownOK, OpsAt, Stamped
  <2>. QED BY <1>1, <1>3, <2>1, <2>2, <2>3, <2>4, StepKeeps
<1>5. CASE Named(req[r].name) # {}
  <2>1. PICK i \in Named(req[r].name) : user' = [user EXCEPT ![r] = i] /\ Goto(r, "compare")
    BY <1>5 DEF Select
  <2>2. /\ i \in Requests /\ Holds(i, req[r].name)
        /\ pc'[r] = "compare" /\ reply' = reply /\ user'[r] = i
    BY <2>1 DEF Named, Goto, TypeOK
  <2>3. TypeOK' /\ \A q \in Requests \ {r} : Same(q)
    BY <1>1, <2>1, <2>2 DEF TypeOK, Same, Goto
  <2>4. (Served(r) /\ Open(r) /\ InHand(r) /\ KnownOK(r))' /\ Stamped'
    BY <1>1, <1>2, <2>2 DEF Control, Served, Open, InHand, KnownOK, Holds, OpsAt, AccountOf, Stamped
  <2>. QED BY <1>1, <1>2, <1>3, <2>2, <2>3, <2>4, StepKeeps
<1>. QED BY <1>4, <1>5

LEMMA CompareInv == ASSUME IInv, NEW r \in Requests, Compare(r) PROVE IInv'
<1>. USE DEF IInv
<1>1. /\ pc[r] = "compare"
      /\ UNCHANGED <<clock, users, req, user, bearer, tokens, known, failed, faults>>
  BY DEF Compare, history
<1>2. /\ req[r] \in Menu /\ req[r].op = "login" /\ AccountOf(req[r]) # NoUser
      /\ AccountOf(req[r]).name = req[r].name /\ AccountOf(req[r]).password = req[r].password
      /\ reply[r] = 0
  BY <1>1, AtWork DEF OpsAt
<1>3. user[r] \in Requests /\ users[user[r]] \in Account /\ users[user[r]].name = req[r].name
  BY <1>1 DEF Control, InHand, Holds, TypeOK
<1>4. Grows(r) /\ Stamped'
  BY <1>1 DEF Grows, Stamped
<1>5. CASE users[user[r]].password = req[r].password
  <2>1. pc'[r] = "issue" /\ reply' = reply
    BY <1>5 DEF Compare, Goto, TypeOK
  <2>2. TypeOK' /\ \A q \in Requests \ {r} : Same(q)
    BY <1>1, <1>5, <2>1 DEF TypeOK, Same, Compare, Goto
  <2>3. users[user[r]] = AccountOf(req[r])
    BY <1>3, <1>5 DEF Account, AccountOf
  <2>4. (Served(r) /\ Open(r) /\ InHand(r) /\ KnownOK(r))'
    BY <1>1, <1>2, <1>3, <2>1, <2>3 DEF Control, Served, Open, InHand, KnownOK, OpsAt, AccountOf
  <2>. QED BY <1>1, <1>2, <1>4, <2>1, <2>2, <2>4, StepKeeps
<1>6. CASE users[user[r]].password # req[r].password
  <2>1. pc'[r] = "done" /\ reply'[r] = 401
    BY <1>6 DEF Compare, Answer, TypeOK
  <2>2. TypeOK' /\ \A q \in Requests \ {r} : Same(q)
    BY <1>1, <1>6, <2>1 DEF TypeOK, Same, Compare, Answer
  <2>3. r \notin known
    <3>. SUFFICES ASSUME r \in known PROVE FALSE
      OBVIOUS
    <3>1. PICK i \in Requests : users[i] = AccountOf(req[r])
      BY <1>2 DEF Control, KnownOK
    <3>2. i = user[r]
      BY <1>2, <1>3, <3>1, ConstantsAssumption DEF NamesHaveOneOwner
    <3>. QED BY <1>2, <1>6, <3>1, <3>2
  <2>4. (Served(r) /\ Open(r) /\ InHand(r) /\ KnownOK(r))'
    BY <1>1, <2>1, <2>3 DEF Served, Open, InHand, KnownOK, OpsAt
  <2>. QED BY <1>1, <1>4, <2>1, <2>2, <2>3, <2>4, StepKeeps
<1>. QED BY <1>5, <1>6

LEMMA IssueInv == ASSUME IInv, NEW r \in Requests, Issue(r) PROVE IInv'
<1>. USE DEF IInv
<1>. DEFINE t == [sub |-> user[r], iat |-> clock, exp |-> Unix + TTL]
<1>1. /\ pc[r] = "issue" /\ tokens' = tokens \cup {t}
      /\ UNCHANGED <<clock, users, req, user, bearer, known, failed, faults>>
  BY DEF Issue, history
<1>2. req[r] \in Menu /\ req[r].op \in {"register", "login"}
  BY <1>1, AtWork DEF OpsAt
<1>3. /\ user[r] \in Requests /\ users[user[r]] = AccountOf(req[r])
      /\ req[r].op = "register" => user[r] = r
  BY <1>1 DEF Control, InHand
<1>4. pc'[r] = "done" /\ reply'[r] = IF req[r].op = "register" THEN 201 ELSE 200
  BY DEF Issue, Answer, TypeOK
<1>5. t \in Token
  <2>1. clock \in Nat /\ Unix \in Nat /\ TTL \in Nat
    BY ConstantsAssumption, DivBounds DEF TypeOK, Unix
  <2>. QED BY <1>3, <2>1 DEF Token
<1>6. TypeOK'
  BY <1>1, <1>4, <1>5 DEF TypeOK, Issue, Answer
<1>7. Grows(r) /\ \A q \in Requests \ {r} : Same(q)
  BY <1>1, <1>4 DEF Grows, Same, TypeOK, Issue, Answer
<1>8. (Served(r) /\ Open(r) /\ InHand(r) /\ KnownOK(r))'
  BY <1>1, <1>3, <1>4 DEF Control, Served, Open, InHand, KnownOK, OpsAt, AccountOf
<1>9. Stamped'
  BY <1>1 DEF Stamped, Unix
<1>. QED BY <1>1, <1>2, <1>3, <1>4, <1>6, <1>7, <1>8, <1>9, StepKeeps DEF AccountOf

LEMMA VerifyInv == ASSUME IInv, NEW r \in Requests, Verify(r) PROVE IInv'
<1>. USE DEF IInv
<1>1. /\ pc[r] = "verify"
      /\ UNCHANGED <<clock, users, req, user, bearer, tokens, known, failed, faults>>
  BY DEF Verify, history
<1>2. req[r] \in Menu /\ req[r].op = "me" /\ reply[r] = 0
  BY <1>1, AtWork DEF OpsAt
<1>3. \/ pc'[r] = "done" /\ reply'[r] = 401
      \/ pc'[r] = "fetch" /\ reply' = reply
  BY DEF Verify, Answer, Goto, TypeOK
<1>4. TypeOK' /\ \A q \in Requests \ {r} : Same(q)
  BY <1>1, <1>3 DEF TypeOK, Same, Verify, Answer, Goto
<1>5. Grows(r) /\ Stamped'
  BY <1>1 DEF Grows, Stamped
<1>6. (Served(r) /\ Open(r) /\ InHand(r) /\ KnownOK(r))'
  BY <1>1, <1>2, <1>3 DEF Control, Served, Open, InHand, KnownOK, OpsAt, AccountOf
<1>. QED BY <1>1, <1>2, <1>3, <1>4, <1>5, <1>6, StepKeeps

LEMMA FetchInv == ASSUME IInv, NEW r \in Requests, Fetch(r) PROVE IInv'
<1>. USE DEF IInv
<1>1. /\ pc[r] = "fetch" /\ user' = [user EXCEPT ![r] = bearer[r].sub]
      /\ UNCHANGED <<clock, users, req, bearer, tokens, known, failed, faults>>
  BY DEF Fetch, history
<1>2. req[r] \in Menu /\ req[r].op = "me"
  BY <1>1, AtWork DEF OpsAt
<1>3. bearer[r].sub \in Requests
  BY <1>1 DEF Control, InHand, TypeOK, Token
<1>4. pc'[r] = "done" /\ reply'[r] \in {200, 404}
  BY DEF Fetch, Answer, TypeOK
<1>5. TypeOK' /\ \A q \in Requests \ {r} : Same(q)
  BY <1>1, <1>3, <1>4 DEF TypeOK, Same, Fetch, Answer
<1>6. Grows(r) /\ Stamped'
  BY <1>1 DEF Grows, Stamped
<1>7. (Served(r) /\ Open(r) /\ InHand(r) /\ KnownOK(r))'
  BY <1>1, <1>2, <1>3, <1>4 DEF Control, TypeOK, Served, Open, InHand, KnownOK, OpsAt, AccountOf
<1>. QED BY <1>1, <1>2, <1>4, <1>5, <1>6, <1>7, StepKeeps

LEMMA StatementFailsInv == ASSUME IInv, NEW r \in Requests, StatementFails(r) PROVE IInv'
<1>. USE DEF IInv
<1>1. /\ pc[r] \in {"insert", "select", "fetch"} /\ failed' = failed \cup {r}
      /\ faults < MaxFaults /\ faults' = faults + 1
      /\ UNCHANGED <<clock, users, req, user, bearer, tokens, known>>
  BY DEF StatementFails, CodeOfFailure
<1>2. req[r] \in Menu /\ req[r].op \in OpsAt[pc[r]]
  BY <1>1, AtWork DEF OpsAt
<1>3. /\ pc'[r] = IF pc[r] = "insert" THEN "orphan" ELSE "done"
      /\ reply'[r] \in {409, 401, 404}
  BY <1>1 DEF StatementFails, Abandon, CodeOfFailure, TypeOK
<1>4. \A q \in Requests \ {r} : Same(q)
  BY <1>1 DEF Same, TypeOK, StatementFails, Abandon
<1>5. TypeOK'
  <2>1. faults' \in 0..MaxFaults
    BY <1>1, ConstantsAssumption DEF TypeOK
  <2>. QED BY <1>1, <1>3, <2>1 DEF TypeOK, StatementFails, Abandon
<1>6. Grows(r) /\ Stamped'
  BY <1>1 DEF Grows, Stamped
<1>7. (Served(r) /\ Open(r) /\ InHand(r) /\ KnownOK(r))'
  BY <1>1, <1>2, <1>3 DEF Control, Served, Open, InHand, KnownOK, OpsAt, AccountOf
<1>. QED BY <1>1, <1>3, <1>4, <1>5, <1>6, <1>7, StepKeeps

LEMMA OrphanInv == ASSUME IInv, NEW r \in Requests, Orphan(r) PROVE IInv'
<1>. USE DEF IInv
<1>1. /\ pc[r] = "orphan" /\ users[r] = NoUser /\ pc' = [pc EXCEPT ![r] = "done"] /\ pc'[r] = "done"
      /\ UNCHANGED <<clock, req, user, bearer, tokens, reply, known, failed, faults>>
  BY DEF Orphan, history, Control, Open, TypeOK
<1>2. /\ req[r] \in Menu /\ req[r].op = "register" /\ AccountOf(req[r]) \in Account
      /\ AccountOf(req[r]) # NoUser /\ AccountOf(req[r]).name = req[r].name
  BY <1>1, AtWork DEF OpsAt
<1>3. reply[r] # 201
  BY <1>1, <1>2 DEF NamesHaveOneOwner
<1>4. /\ Grows(r)
      /\ users' = users \/ \A i \in Requests : users[i] # NoUser => users[i].name # req[r].name
  <2>1. CASE users' = users
    BY <2>1 DEF Grows
  <2>2. CASE Named(req[r].name) = {} /\ users' = [users EXCEPT ![r] = AccountOf(req[r])]
    <3>1. Grows(r)
      BY <1>1, <1>2, <2>2 DEF Grows
    <3>2. \A i \in Requests : users[i] # NoUser => users[i].name # req[r].name
      BY <2>2 DEF Named, Holds
    <3>. QED BY <3>1, <3>2
  <2>. QED BY <2>1, <2>2 DEF Orphan
<1>5. TypeOK'
  BY <1>1, <1>2, <1>4 DEF TypeOK, Grows
<1>6. Stamped' /\ \A q \in Requests \ {r} : Same(q)
  BY <1>1 DEF Stamped, Same, TypeOK
<1>7. (Served(r) /\ Open(r) /\ InHand(r) /\ KnownOK(r))'
  <2>1. \A i \in Requests : users[i] # NoUser => users'[i] = users[i]
    BY <1>1, <1>4 DEF Grows, TypeOK
  <2>2. KnownOK(r)'
    BY <1>1, <1>2, <2>1 DEF Control, KnownOK, AccountOf
  <2>3. (Served(r) /\ Open(r) /\ InHand(r))'
    BY <1>1, <1>2 DEF Control, Served, Open, InHand, OpsAt
  <2>. QED BY <2>2, <2>3
<1>. QED BY <1>1, <1>2, <1>3, <1>4, <1>5, <1>6, <1>7, StepKeeps

-----------------------------------------------------------------------------
(* The theorems.                                                           *)

\* The invariant is inductive.
LEMMA NextInv == IInv /\ [Next]_vars => IInv'
<1>. SUFFICES ASSUME IInv, [Next]_vars PROVE IInv'
  OBVIOUS
<1>1. CASE UNCHANGED vars
  BY <1>1 DEF vars, IInv, TypeOK, Control, Served, Open, InHand, KnownOK, Holds, Stamped,
              NamesHaveOneOwner, LoginsAreRight
<1>2. CASE Tick \/ Crash
  BY <1>2, TickInv, CrashInv
<1>3. ASSUME NEW r \in Requests,
             \/ Receive(r) \/ Reject(r) \/ Insert(r) \/ Select(r) \/ Compare(r) \/ Issue(r)
             \/ Verify(r) \/ Fetch(r) \/ StatementFails(r) \/ Orphan(r)
      PROVE  IInv'
  BY <1>3, ReceiveInv, RejectInv, InsertInv, SelectInv, CompareInv, IssueInv, VerifyInv,
     FetchInv, StatementFailsInv, OrphanInv
<1>. QED BY <1>1, <1>2, <1>3 DEF Next

\* Every step of the specification starts from the invariant.
THEOREM Invariance == Spec => []IInv
BY InitInv, NextInv, PTL DEF Spec

\* Statuses, rows and tokens are what the code declares.
THEOREM TypeCorrect == Spec => []TypeOK
<1>1. IInv => TypeOK
  BY DEF IInv
<1>. QED BY <1>1, Invariance, PTL

\* A name has one owner, and 201 is the truth (auth.go:53, users.go:28), whichever of the
\* registrations of that name fail, are repeated, or are executed after their answer.
THEOREM OneOwner == Spec => []NamesHaveOneOwner
<1>1. IInv => NamesHaveOneOwner
  BY DEF IInv
<1>. QED BY <1>1, Invariance, PTL

\* Who has an account is let in, and nobody else (auth.go:20 to 28).
THEOREM RightLogins == Spec => []LoginsAreRight
<1>1. IInv => LoginsAreRight
  BY DEF IInv
<1>. QED BY <1>1, Invariance, PTL

\* A token is good for tokenTTL seconds and less than one more (auth.go:30, auth.go:64), at
\* any resolution of the clock.
THEOREM TokensLive == Spec => TokenLivesItsSevenDays
<1>. DEFINE Life == \A r \in Requests : pc[r] = "verify" =>
                      LET age == clock - bearer[r].iat IN
                      /\ reply'[r] = 401 => age > TTL * Second
                      /\ pc'[r] = "fetch" => age < (TTL + 1) * Second
<1>1. ASSUME IInv, [Next]_vars PROVE [Life]_vars
  <2>. SUFFICES ASSUME NEW r \in Requests, pc[r] = "verify", Next,
                       reply'[r] = 401 \/ pc'[r] = "fetch"
                PROVE  LET age == clock - bearer[r].iat IN
                       /\ reply'[r] = 401 => age > TTL * Second
                       /\ pc'[r] = "fetch" => age < (TTL + 1) * Second
    BY <1>1
  <2>1. reply[r] = 0
    BY <1>1 DEF IInv, Control, Open
  <2>2. Verify(r)
    <3>1. ~Tick
      BY <1>1, <2>1 DEF Tick, IInv, TypeOK
    <3>2. ~Crash
      BY <1>1, <2>1 DEF Crash, IInv, TypeOK, Lost
    <3>3. ASSUME NEW q \in Requests,
                 \/ Receive(q) \/ Reject(q) \/ Insert(q) \/ Select(q) \/ Compare(q) \/ Issue(q)
                 \/ Verify(q) \/ Fetch(q) \/ StatementFails(q) \/ Orphan(q)
          PROVE  q = r /\ Verify(q)
      <4>1. q # r => pc'[r] = pc[r] /\ reply'[r] = reply[r]
        <5>1. pc \in [Requests -> {"idle", "insert", "select", "compare", "issue", "verify",
                                   "fetch", "orphan", "done"}]
              /\ reply \in [Requests -> {0, Lost, 200, 201, 400, 401, 403, 404, 409}]
          BY <1>1 DEF IInv, TypeOK
        <5>2. CASE Receive(q) \/ Reject(q)
          BY <5>1, <5>2 DEF Receive, Reject, Goto, Answer
        <5>3. CASE Insert(q) \/ Select(q) \/ Compare(q) \/ Issue(q) \/ Verify(q) \/ Fetch(q)
          BY <5>1, <5>3 DEF Insert, Select, Compare, Issue, Verify, Fetch, Goto, Answer
        <5>4. CASE StatementFails(q) \/ Orphan(q)
          BY <5>1, <5>4 DEF StatementFails, Orphan, Abandon
        <5>. QED BY <3>3, <5>2, <5>3, <5>4
      <4>2. q = r
        BY <2>1, <4>1
      <4>. QED BY <3>3, <4>2 DEF Receive, Reject, Insert, Select, Compare, Issue, Fetch,
                                 StatementFails, Orphan, CodeOfFailure
    <3>. QED BY <3>1, <3>2, <3>3 DEF Next
  <2>3. /\ clock \in Nat /\ bearer[r].iat \in Nat /\ Second \in Nat \ {0} /\ TTL \in Nat
        /\ bearer[r].exp = bearer[r].iat \div Second + TTL
    BY <1>1, ConstantsAssumption DEF IInv, TypeOK, Control, InHand, Stamped, Token
  <2>4. /\ reply'[r] = 401 => Expired(bearer[r])
        /\ pc'[r] = "fetch" => ~Expired(bearer[r])
    BY <1>1, <2>1, <2>2 DEF Verify, Answer, Goto, IInv, TypeOK
  <2>5. /\ Expired(bearer[r]) => clock - bearer[r].iat > TTL * Second
        /\ ~Expired(bearer[r]) => clock - bearer[r].iat < (TTL + 1) * Second
    <3>1. Expired(bearer[r]) <=> clock \div Second > bearer[r].iat \div Second + TTL
      BY <2>3 DEF Expired, Unix
    <3>. QED BY <2>3, <3>1, RoundedAges
  <2>. QED BY <2>4, <2>5
<1>2. Spec => [][Life]_vars
  BY <1>1, Invariance, PTL DEF Spec
<1>. QED BY <1>2 DEF TokenLivesItsSevenDays
=============================================================================
