------------------------------ MODULE Startup -------------------------------
(***************************************************************************)
(* From the start of the process to the wait for a signal: loadDotEnv and  *)
(* newPool of cmd/api/main.go, config.Load, and the goroutine that listens *)
(* while main goes on.  A text is a sequence of words, in which "q" stands *)
(* for a quotation mark and "#" for a blank and a number sign.             *)
(***************************************************************************)
EXTENDS Integers, SequencesExt, FiniteSetsExt

CONSTANTS Keys, Required,   \* DATABASE_URL, JWT_SECRET and ADMIN_SECRET
          Files,            \* contents of .env: sequences of lines
          Environments      \* what the platform sets; <<>> is unset or empty

Texts == Seq(STRING)
\* A line is <<>> (blank, a comment, no "="), or a key and the text after the "=".
Line == {<<>>} \cup (Keys \X Texts)
ASSUME FilesAssumption ==
    /\ Required \subseteq Keys
    /\ Files \subseteq Seq(Line)
    /\ Environments \subseteq [Keys -> Texts]

VARIABLES file, given, pos, env, main, pool, listener

bootVars == <<file, given, pos, env, main, pool, listener>>

BootInit ==
    /\ file \in Files /\ given \in Environments
    /\ pos = 1 /\ env = given
    /\ main = "dotenv" /\ pool = "none" /\ listener = "none"

\* strings.Trim(value, `"'`)
Unquoted(v) ==
    LET words == {i \in DOMAIN v : v[i] # "q"} IN
    IF words = {} THEN <<>> ELSE SubSeq(v, Min(words), Max(words))

\* Up to the first " #", then without quotation marks at the ends; the blank of a "#" that
\* comes first has been trimmed away before, so that such a comment is kept.
Value(text) ==
    LET marks == {i \in 2..Len(text) : text[i] = "#"} IN
    Unquoted(IF marks = {} THEN text ELSE SubSeq(text, 1, Min(marks) - 1))

\* Mutant: the file wins.
SetAlways(key, value) == env' = [env EXCEPT ![key] = value]
SetIfEmpty(key, value) == env' = IF env[key] = <<>> THEN [env EXCEPT ![key] = value] ELSE env

ReadLine ==
    /\ main = "dotenv" /\ pos <= Len(file)
    /\ IF file[pos] = <<>> THEN UNCHANGED env ELSE SetIfEmpty(file[pos][1], Value(file[pos][2]))
    /\ pos' = pos + 1
    /\ UNCHANGED <<file, given, main, pool, listener>>

\* Mutant: configuration errors are logged only.
LoadAnyway ==
    /\ main = "dotenv" /\ pos > Len(file) /\ main' = "pool"
    /\ UNCHANGED <<file, given, pos, env, pool, listener>>
Load ==
    /\ main = "dotenv" /\ pos > Len(file)
    /\ main' = IF \E k \in Required : env[k] = <<>> THEN "exited" ELSE "pool"
    /\ UNCHANGED <<file, given, pos, env, pool, listener>>

\* ParseConfig and NewWithConfig, which connects in the background.
NewPool ==
    /\ main = "pool"
    /\ \/ main' = "ping" /\ pool' = "open"
       \/ main' = "exited" /\ UNCHANGED pool
    /\ UNCHANGED <<file, given, pos, env, listener>>

\* Mutant: the ping's error is not looked at.
PingIgnored ==
    /\ main = "ping" /\ pool' \in {"open", "closed"} /\ main' = "wait" /\ listener' = "starting"
    /\ UNCHANGED <<file, given, pos, env>>
Ping ==
    /\ main = "ping"
    /\ \/ main' = "wait" /\ listener' = "starting" /\ UNCHANGED pool
       \/ main' = "exited" /\ pool' = "closed" /\ UNCHANGED listener
    /\ UNCHANGED <<file, given, pos, env>>

\* ListenAndServe; a port that is taken ends the process, whatever main is doing, and
\* after Shutdown it returns ErrServerClosed at once.
Listen ==
    /\ listener = "starting" /\ main # "exited"
    /\ IF main = "shutdown" THEN listener' = "closed" /\ UNCHANGED main
       ELSE \/ listener' = "listening" /\ UNCHANGED main
            \/ listener' = "failed" /\ main' = "exited"
    /\ UNCHANGED <<file, given, pos, env, pool>>

\* Mutant: no signal.Notify.
Killed ==
    /\ main = "wait" /\ main' = "exited"
    /\ UNCHANGED <<file, given, pos, env, pool, listener>>

\* The signal; what follows for the requests is in ServerLifecycle.
Shutdown ==
    /\ main = "wait" /\ main' = "shutdown"
    /\ listener' = IF listener = "listening" THEN "closed" ELSE listener
    /\ UNCHANGED <<file, given, pos, env, pool>>

BootNext == ReadLine \/ Load \/ NewPool \/ Ping \/ Listen \/ Shutdown

BootTypeOK ==
    /\ file \in Files /\ given \in Environments /\ pos \in 1..(Len(file) + 1)
    /\ env \in [Keys -> Texts]
    /\ main \in {"dotenv", "pool", "ping", "wait", "shutdown", "exited"}
    /\ pool \in {"none", "open", "closed"}
    /\ listener \in {"none", "starting", "listening", "failed", "closed"}
    /\ main = "exited" => listener \in {"none", "failed"}

-----------------------------------------------------------------------------
\* The lines read so far that give the key something.
Giving(key) ==
    {i \in 1..(pos - 1) : file[i] # <<>> /\ file[i][1] = key /\ Value(file[i][2]) # <<>>}

\* What the platform sets is never overridden; a key that it leaves out or empty has the
\* first value of the file that is not empty, whatever empty lines come before or other
\* values after (main.go:104).
SettingsComeFromTheirSource ==
    \A k \in Keys :
      env[k] = IF given[k] # <<>> THEN given[k]
               ELSE IF Giving(k) = {} THEN <<>>
               ELSE Value(file[Min(Giving(k))][2])

\* Nothing is accepted without the secrets and a database that has answered (main.go:30 to
\* 42), also when the listener and a signal race.
ListensOnlyWhenReady ==
    listener = "listening" => pool = "open" /\ \A k \in Required : env[k] # <<>>
=============================================================================
