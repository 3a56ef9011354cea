------------------------------ MODULE Pipeline ------------------------------
(***************************************************************************)
(* The way of one request through the server that Startup brings up: the   *)
(* chain of middlewares that main builds around the mux, the Auth middle-  *)
(* ware around a handler, the statuses the handlers answer with, and the   *)
(* way back, with a panic or without.  The functions on the stack are kept *)
(* as they are entered.  Requests share nothing here, so one is enough.    *)
(***************************************************************************)
EXTENDS Startup

CONSTANT NoRequest

ASSUME KeyAssumption == "ANTHROPIC_API_KEY" \in Keys

\* What the handlers of a route may answer, and which routes there are.
Outcomes ==
    [health   |-> {200},
     login    |-> {200, 400, 401, 500},
     register |-> {201, 400, 403, 409, 500},
     me       |-> {200, 404},
     data     |-> {200, 201, 204, 400, 404, 409, 500},
     ai       |-> {200, 400, 502}]
Public == {"health", "login", "register"}
Requests == [path : DOMAIN Outcomes \cup {"unknown"}, method : {"right", "wrong", "OPTIONS"},
             allowed : BOOLEAN,   \* its Origin is one of ALLOWED_ORIGINS
             token : BOOLEAN]     \* it carries a token that verifies

VARIABLES
    req,
    mode,     \* idle, call, auth, handle, return, panic, done
    stack,    \* the middlewares entered and not yet left
    headers,  \* whether Access-Control-Allow-Origin has been set
    status,   \* rw.status
    wire,     \* the status sent, 0 if none
    shown,    \* whether the header went with it
    log

wayVars == <<req, mode, stack, headers, status, wire, shown, log>>
vars == <<bootVars, wayVars>>

\* Mutant: the loop runs upwards.
ChainUpwards(h, mws) == FoldLeft(LAMBDA inner, mw : <<mw>> \o inner, <<h>>, mws)
\* for i := len(mws) - 1; i >= 0; i-- { h = mws[i](h) }, the outermost first.
Chain(h, mws) == FoldRight(LAMBDA mw, inner : <<mw>> \o inner, mws, <<h>>)
App == Chain("mux", <<"logger", "recovery", "cors">>)

Init ==
    /\ BootInit
    /\ req = NoRequest /\ mode = "idle" /\ stack = <<>>
    /\ headers = FALSE /\ status = 200 /\ wire = 0 /\ shown = FALSE
    /\ log = <<>>

Wrapped == req.path # "health" /\ Contains(stack, "logger")

\* WriteHeader: through rw when the logger is outside, and only once to the connection.
Write(code) ==
    /\ status' = IF Wrapped THEN code ELSE status
    /\ IF wire # 0 THEN UNCHANGED <<wire, shown>> ELSE wire' = code /\ shown' = headers'
Silent == UNCHANGED <<status, wire, shown>>

IsNext(frame) == mode = "call" /\ App[Len(stack) + 1] = frame
Enter(frame) == stack' = Append(stack, frame)

-----------------------------------------------------------------------------
Accept ==
    /\ listener = "listening" /\ mode = "idle" /\ mode' = "call"
    /\ req' \in Requests
    /\ UNCHANGED <<stack, headers, log>> /\ Silent

\* Mutant: rw without a status of its own.
LoggerWithoutStatus ==
    /\ IsNext("logger") /\ Enter("logger") /\ status' = 0
    /\ UNCHANGED <<req, mode, headers, wire, shown, log>>

Logger ==
    /\ IsNext("logger") /\ Enter("logger") /\ status' = 200
    /\ UNCHANGED <<req, mode, headers, wire, shown, log>>

Recovery ==
    /\ IsNext("recovery") /\ Enter("recovery")
    /\ UNCHANGED <<req, mode, headers, log>> /\ Silent

\* Mutant: the origin is named to a preflight request only.
CORSForPreflight ==
    /\ IsNext("cors") /\ Enter("cors")
    /\ headers' = (req.allowed /\ req.method = "OPTIONS")
    /\ IF req.method = "OPTIONS" THEN Write(204) /\ mode' = "return" ELSE Silent /\ UNCHANGED mode
    /\ UNCHANGED <<req, log>>

CORS ==
    /\ IsNext("cors") /\ Enter("cors")
    /\ headers' = req.allowed
    /\ IF req.method = "OPTIONS" THEN Write(204) /\ mode' = "return" ELSE Silent /\ UNCHANGED mode
    /\ UNCHANGED <<req, log>>

\* The mux; the AI routes are there only with a key.
Route ==
    /\ IsNext("mux") /\ Enter("mux") /\ UNCHANGED headers
    /\ IF req.path = "unknown" \/ (req.path = "ai" /\ env["ANTHROPIC_API_KEY"] = <<>>) THEN Write(404) /\ mode' = "return"
       ELSE IF req.method # "right" THEN Write(405) /\ mode' = "return"
       ELSE Silent /\ mode' = IF req.path \in Public THEN "handle" ELSE "auth"
    /\ UNCHANGED <<req, log>>

Auth ==
    /\ mode = "auth" /\ UNCHANGED headers
    /\ IF req.token THEN Silent /\ mode' = "handle" ELSE Write(401) /\ mode' = "return"
    /\ UNCHANGED <<req, stack, log>>

Handle ==
    /\ mode = "handle" /\ UNCHANGED headers
    /\ \E code \in Outcomes[req.path] : Write(code)
    /\ mode' = "return"
    /\ UNCHANGED <<req, stack, log>>

\* Update goes on with the nil transaction of a Begin that failed (tasks.go:148).
Panic ==
    /\ mode = "handle" /\ req.path = "data" /\ mode' = "panic"
    /\ UNCHANGED <<req, stack, headers, log>> /\ Silent

-----------------------------------------------------------------------------
Return ==
    /\ mode = "return"
    /\ IF stack = <<>> THEN mode' = "done" /\ UNCHANGED <<stack, log>>
       ELSE /\ stack' = Front(stack) /\ UNCHANGED mode
            /\ log' = IF Last(stack) = "logger" /\ req.path # "health" THEN Append(log, status) ELSE log
    /\ UNCHANGED <<req, headers>> /\ Silent

\* A panic leaves one function after the other, until it meets recover().
Unwind ==
    /\ mode = "panic" /\ UNCHANGED headers
    /\ IF stack = <<>> THEN mode' = "done" /\ UNCHANGED stack /\ Silent
       ELSE IF Last(stack) = "recovery" THEN mode' = "return" /\ stack' = Front(stack) /\ Write(500)
       ELSE UNCHANGED mode /\ stack' = Front(stack) /\ Silent
    /\ UNCHANGED <<req, log>>

Way ==
    \/ Accept \/ Logger \/ Recovery \/ CORS \/ Route \/ Auth \/ Handle \/ Panic
    \/ Return \/ Unwind

\* The process has ended, or goes on in ServerLifecycle.
Stopped ==
    /\ main = "exited" \/ listener = "closed"
    /\ mode \in {"idle", "done"} /\ UNCHANGED vars

Next == (BootNext /\ UNCHANGED wayVars) \/ (Way /\ UNCHANGED bootVars) \/ Stopped

Spec == Init /\ [][Next]_vars

-----------------------------------------------------------------------------
TypeOK ==
    /\ BootTypeOK
    /\ req \in Requests \cup {NoRequest}
    /\ mode \in {"idle", "call", "auth", "handle", "return", "panic", "done"}
    /\ stack \in Seq({"logger", "recovery", "cors", "mux"}) /\ Len(stack) <= Len(App)
    /\ headers \in BOOLEAN /\ shown \in BOOLEAN
    /\ status \in 200..502 /\ wire \in {0} \cup 200..502
    /\ log \in Seq(200..502)

\* Every request gets an answer, also one whose handler panics, and every one but those
\* for /health is logged once, with the status that was sent (middleware.go:30, 42;
\* main.go:48).
LoggedAsSent ==
    mode = "done" => wire # 0 /\ log = IF req.path = "health" THEN <<>> ELSE <<wire>>

\* A browser shows no answer to a page of an allowed origin unless the answer names the
\* origin: whichever layer answers, the mux with its 404 and 405, Auth, a handler or
\* Recovery, the header is there (middleware.go:58).
AllowedOriginReadsEveryAnswer ==
    mode = "done" => (shown <=> req.allowed)
=============================================================================
