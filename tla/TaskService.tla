---------------------------- MODULE TaskService ----------------------------
(***************************************************************************)
(* What the task and tag endpoints promise, without statements, locks or   *)
(* transactions: each effect of a request happens at once, a request has   *)
(* each of its effects at most once, and the answer agrees with them.      *)
(***************************************************************************)
EXTENDS Integers, SequencesExt

CONSTANTS Users, NoUser, TaskIds, TagIds, Requests, Menu, NoInput, InitOwner, InitLinks

VARIABLES owner,  \* the user_id of each task and tag, NoUser when there is none
          links,  \* the tags of the tasks
          req, did, reply

vars == <<owner, links, req, did, reply>>

Init ==
    /\ owner = InitOwner /\ links = InitLinks
    /\ req = [r \in Requests |-> NoInput]
    /\ did = [r \in Requests |-> {}]
    /\ reply = [r \in Requests |-> 0]

LiveTags == {g \in TagIds : owner[g] # NoUser}
LinksOf(x) == {l \in links : x \in {l[1], l[2]}}

\* The requests that name a row, and whether it is the user's.
Names(in) == in # NoInput /\ in.op \in {"patch", "retag", "get", "delete"}
Mine(own, in) == own[in.id] = in.user

\* When an answer may be given, while the rows belong to own, to a request that has had the
\* effects in done.  200: the row is the user's, and the fields were written; that the tags
\* were replaced is not promised.  404: the row is not the user's, or it is no more, and what
\* was written before has gone with it.
Agrees(in, own, done, code) ==
    \/ code = 500                           \* promises nothing
    \/ code = 400 /\ done = {}
    \/ code = 404 /\ Names(in) /\ ~Mine(own, in) /\ done \cap {"row", "gone"} = {}
    \/ code = 200 /\ Names(in) /\ Mine(own, in) /\ (in.op = "get" \/ "fields" \in done)
    \/ code = 201 /\ "row" \in done
    \/ code = 204 /\ "gone" \in done

Answer(r) == \E code \in {200, 201, 204, 400, 404, 500} :
    /\ Agrees(req[r], owner', did'[r], code)
    /\ reply' = [reply EXCEPT ![r] = code]

\* An effect, perhaps together with the answer.
Effect(r, effect) ==
    /\ reply[r] = 0 /\ effect \notin did[r]
    /\ did' = [did EXCEPT ![r] = @ \cup {effect}]
    /\ UNCHANGED reply \/ Answer(r)
    /\ UNCHANGED req

Accept(r) ==
    /\ req[r] = NoInput /\ reply[r] = 0
    /\ \E in \in Menu : req' = [req EXCEPT ![r] = in]
    /\ UNCHANGED <<owner, links, did, reply>>

Reply(r) ==
    /\ reply[r] = 0
    /\ UNCHANGED <<owner, links, req, did>>
    /\ Answer(r)

\* The task appears with all its tags and no others.
CreateTask(r) ==
    /\ req[r] # NoInput /\ req[r].op = "create"
    /\ ToSet(req[r].tags) \subseteq LiveTags
    /\ \E t \in TaskIds :
         /\ owner[t] = NoUser
         /\ owner' = [owner EXCEPT ![t] = req[r].user]
         /\ links' = links \cup ({t} \X ToSet(req[r].tags))
    /\ Effect(r, "row")

CreateTag(r) ==
    /\ req[r] # NoInput /\ req[r].op = "createTag"
    /\ \E g \in TagIds : owner[g] = NoUser /\ owner' = [owner EXCEPT ![g] = req[r].user]
    /\ UNCHANGED links
    /\ Effect(r, "row")

SetFields(r) ==
    /\ req[r] # NoInput /\ req[r].op \in {"patch", "retag"}
    /\ Mine(owner, req[r])
    /\ UNCHANGED <<owner, links>>
    /\ Effect(r, "fields")

\* The links of a task are changed for its owner only (001_schema.sql:132).  Concurrent
\* replacements may each see only some of the other's tags.
ReplaceTags(r) ==
    /\ req[r] # NoInput /\ req[r].op = "retag"
    /\ \E gone \in SUBSET LinksOf(req[r].id),
          added \in SUBSET ({req[r].id} \X (ToSet(req[r].tags) \cap LiveTags)) :
         /\ gone \cup added # {} => Mine(owner, req[r])
         /\ links' = (links \ gone) \cup added
    /\ UNCHANGED owner
    /\ Effect(r, "tags")

\* A task or a tag goes with every link to it.
Delete(r) ==
    /\ req[r] # NoInput /\ req[r].op = "delete"
    /\ Mine(owner, req[r])
    /\ owner' = [owner EXCEPT ![req[r].id] = NoUser]
    /\ links' = links \ LinksOf(req[r].id)
    /\ Effect(r, "gone")

Next == \E r \in Requests :
    \/ Accept(r) \/ Reply(r) \/ CreateTask(r) \/ CreateTag(r)
    \/ SetFields(r) \/ ReplaceTags(r) \/ Delete(r)

Spec == Init /\ [][Next]_vars
=============================================================================
