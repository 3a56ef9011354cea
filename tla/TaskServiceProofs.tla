------------------------- MODULE TaskServiceProofs -------------------------
(***************************************************************************)
(* TaskStore implements TaskService, and its two transactions have exactly *)
(* the effect that their request asks for: for any users, ids, menu, set   *)
(* of requests, faults and crashes.                                        *)
(***************************************************************************)
EXTENDS TaskStoreProofs

-----------------------------------------------------------------------------
(* What TaskStoreProofs!IInv does not say of a request.                    *)

\* What it has done and answered.
DoneOK(r) ==
    /\ pc[r] = "idle" => req[r] = NoInput /\ did[r] = {}
    /\ pc[r] \notin {"done", "lost"} => reply[r] = 0
    /\ pc[r] \in {"update", "delete", "cascade", "insertTag"} => did[r] = {}
    /\ pc[r] \in {"begin", "insert", "clear", "clearing", "attach", "commit"} => did[r] \subseteq {"fields"}
    /\ pc[r] = "read" => /\ req[r].op \in {"create", "patch", "retag", "get"}
                         /\ IF req[r].op = "create" THEN "row" \in did[r]
                            ELSE did[r] \subseteq {"fields", "tags"}

\* The row that a client names was there once.  When the UPDATE did not find it, no later
\* statement of the request will; a row that is locked for deletion is the client's.
TargetOK(r) ==
    /\ pc[r] \notin Resting /\ req[r].op \notin {"create", "createTag"} =>
         target[r] \in used /\ \A s \in Requests : work[s].new # target[r]
    /\ pc[r] \in {"begin", "clear", "clearing", "attach", "commit", "read"}
         /\ req[r].op \in {"patch", "retag"} =>
         "fields" \in did[r] \/ owner[target[r]] # req[r].user
    /\ pc[r] = "cascade" => owner[target[r]] = req[r].user

Asked(r) == {target[r]} \X ToSet(req[r].tags)
Filling(r) == pc[r] \in {"attach", "commit"} /\ tx[r] = "open"

\* Uncommitted links are the task's, and those inserted were asked for.
WithinOK(r) ==
    /\ pc[r] = "clearing" => \A l \in work[r].todo : l[1] = target[r]
    /\ pc[r] = "cascade" => \A l \in work[r].todo : target[r] \in {l[1], l[2]}
    /\ Filling(r) =>
         /\ work[r].ins \subseteq Asked(r) /\ ToSet(work[r].left) \subseteq ToSet(req[r].tags)
         /\ req[r].op = "retag" => work[r].new = NoRow /\ \A l \in work[r].del : l[1] = target[r]
         /\ req[r].op = "create" => work[r].del = {}
         /\ pc[r] = "commit" => work[r].left = <<>>

\* Those asked for are inserted or still to be inserted; while nobody else commits to the
\* task, all that were there are deleted.
ExactOK(r) ==
    /\ pc[r] = "clearing" /\ alone[r] => LinksOf(target[r]) \subseteq work[r].todo
    /\ Filling(r) /\ req[r].op = "retag" /\ alone[r] => LinksOf(target[r]) \subseteq work[r].del
    /\ Filling(r) /\ (req[r].op = "create" \/ alone[r]) =>
         \A g \in ToSet(req[r].tags) : g \in ToSet(work[r].left) \/ <<target[r], g>> \in work[r].ins

Served(r) == DoneOK(r) /\ TargetOK(r) /\ WithinOK(r) /\ ExactOK(r)

RInv == IInv /\ \A r \in Requests : Served(r)

-----------------------------------------------------------------------------
(* Tags as sequences and as sets.                                          *)

LEMMA ToSetIs ==
    ASSUME NEW tags \in Seq(TagIds)
    PROVE  ToSet(tags) = {tags[i] : i \in 1..Len(tags)} /\ Len(tags) \in Nat
  BY DEF ToSet

LEMMA TagsToSet ==
    ASSUME NEW tags \in Seq(TagIds)
    PROVE  /\ ToSet(tags) \subseteq TagIds
           /\ tags = <<>> => ToSet(tags) = {}
           /\ tags # <<>> => ToSet(tags) = {Head(tags)} \cup ToSet(Tail(tags))
  <1>1. ToSet(tags) = {tags[i] : i \in 1..Len(tags)} /\ Len(tags) \in Nat
    BY ToSetIs
  <1>2. ToSet(tags) \subseteq TagIds
    BY <1>1, ElementOfSeq
  <1>3. tags = <<>> => ToSet(tags) = {}
    BY <1>1
  <1>4. ASSUME tags # <<>> PROVE ToSet(tags) = {Head(tags)} \cup ToSet(Tail(tags))
    <2>1. /\ Tail(tags) \in Seq(TagIds) /\ Len(Tail(tags)) = Len(tags) - 1 /\ Head(tags) = tags[1]
          /\ \A i \in 1..Len(Tail(tags)) : Tail(tags)[i] = tags[i + 1]
      BY <1>4, HeadTailProperties
    <2>2. ToSet(Tail(tags)) = {Tail(tags)[i] : i \in 1..Len(Tail(tags))}
      BY <2>1, ToSetIs
    <2>3. \A g : g \in ToSet(tags) => g \in {Head(tags)} \cup ToSet(Tail(tags))
      <3>. SUFFICES ASSUME NEW i \in 1..Len(tags) PROVE tags[i] \in {Head(tags)} \cup ToSet(Tail(tags))
        BY <1>1
      <3>1. CASE i = 1
        BY <2>1, <3>1
      <3>2. CASE i # 1
        <4>1. i - 1 \in 1..Len(Tail(tags)) /\ Tail(tags)[i - 1] = tags[i]
          BY <1>1, <2>1, <3>2
        <4>. QED BY <2>2, <4>1
      <3>. QED BY <3>1, <3>2
    <2>4. Head(tags) \in ToSet(tags)
      BY <1>1, <1>4, <2>1, EmptySeq
    <2>5. \A g \in ToSet(Tail(tags)) : g \in ToSet(tags)
      <3>. SUFFICES ASSUME NEW i \in 1..Len(Tail(tags)) PROVE Tail(tags)[i] \in ToSet(tags)
        BY <2>2
      <3>1. i + 1 \in 1..Len(tags) /\ Tail(tags)[i] = tags[i + 1]
        BY <1>1, <2>1
      <3>. QED BY <1>1, <3>1
    <2>. QED BY <2>3, <2>4, <2>5
  <1>. QED BY <1>2, <1>3, <1>4

-----------------------------------------------------------------------------
(* The steps of another request.                                           *)

LEMMA FillingTarget ==
    ASSUME IInv, NEW r \in Requests, pc[r] \in {"clear", "clearing", "attach", "commit"}
    PROVE  /\ target[r] \in TaskIds /\ req[r] \in Menu /\ req[r] # NoInput
           /\ req[r].op \in {"create", "retag"} /\ req[r].tags \in Seq(TagIds)
           /\ req[r].op = "retag" => target[r] = req[r].id
           /\ work[r].left \in Seq(TagIds) /\ work[r].ins \subseteq Links
           /\ pc[r] \in {"clear", "clearing"} => req[r].op = "retag"
           /\ req[r].op = "create" => work[r].new = target[r]
  <1>1. /\ req[r] \in Menu /\ req[r].op \in {"create", "retag"}
        /\ pc[r] \in {"clear", "clearing"} => req[r].op = "retag"
        /\ req[r].op = "retag" => target[r] = req[r].id
        /\ req[r].op = "create" => target[r] = work[r].new /\ work[r].new # NoRow
    BY DEF IInv, ControlOK, InputOK, WorkOK, OpsAt, Resting
  <1>2. work[r] \in Work
    BY DEF IInv, TypeOK
  <1>. QED BY <1>1, <1>2, MenuFacts DEF Work

\* Nothing that s has is touched: its work but for links that are gone, rows but for those
\* that are deleted, and its task's links while it is alone.
Frame(r, s) ==
    /\ pc'[s] = pc[s] /\ req'[s] = req[s] /\ target'[s] = target[s] /\ tx'[s] = tx[s]
    /\ did'[s] = did[s] /\ reply'[s] = reply[s]
    /\ work'[s].new = work[s].new /\ work'[s].ins = work[s].ins /\ work'[s].left = work[s].left
    /\ work'[s].del = work[s].del /\ work'[s].todo \subseteq work[s].todo
    /\ alone'[s] => alone[s]
    /\ alone'[s] /\ target[s] \in TaskIds => \A l \in links' : target[s] \in {l[1], l[2]} =>
         l \in links /\ (l \in work[s].todo => l \in work'[s].todo)

\* Ids stay used; rows are deleted, or appear under an id that was new.
Ids(r) ==
    /\ used \subseteq used'
    /\ \A x \in used : owner'[x] \in {owner[x], NoUser} \/ x = work[r].new
    /\ \A q \in Requests : work'[q].new \in {work[q].new, NoRow} \/ work'[q].new \notin used

LEMMA OthersServed ==
    ASSUME RInv, IInv', NEW r \in Requests, NEW s \in Requests, Frame(r, s), Ids(r)
    PROVE  Served(s)'
  <1>. USE DEF Frame
  <1>1. Served(s) /\ IInv
    BY DEF RInv
  <1>2. DoneOK(s)'
    BY <1>1 DEF Served, DoneOK
  <1>3. TargetOK(s)'
    <2>. SUFFICES ASSUME pc[s] \notin Resting, req[s].op \notin {"create", "createTag"} PROVE TargetOK(s)'
      BY <1>1 DEF TargetOK, IInv, ControlOK, InputOK, OpsAt, Resting
    <2>1. target[s] \in used /\ \A q \in Requests : work[q].new # target[s]
      BY <1>1 DEF Served, TargetOK
    <2>2. req[s].user \in Users /\ req[s].user # NoUser /\ target[s] # NoRow
      <3>1. req[s] \in Menu /\ used \subseteq Rows
        BY <1>1 DEF IInv, TypeOK, ControlOK, InputOK
      <3>. QED BY <2>1, <3>1, MenuFacts, ConstantsAssumption
    <2>3. owner'[target[s]] \in {owner[target[s]], NoUser}
      BY <2>1 DEF Ids
    <2>4. pc[s] = "cascade" => owner'[target[s]] # NoUser
      BY <2>2 DEF IInv, ControlOK, WorkOK, LocksOK, ExclOK, Live
    <2>5. target[s] \in used' /\ \A q \in Requests : work'[q].new # target[s]
      BY <2>1, <2>2 DEF Ids
    <2>. QED BY <1>1, <2>2, <2>3, <2>4, <2>5 DEF Served, TargetOK
  <1>4. WithinOK(s)'
    BY <1>1 DEF Served, WithinOK, Asked, Filling
  <1>5. ExactOK(s)'
    <2>1. alone'[s] /\ target[s] \in TaskIds =>
             /\ LinksOf(target[s])' \subseteq LinksOf(target[s])
             /\ \A l \in LinksOf(target[s])' : l \in work[s].todo => l \in work'[s].todo
      BY DEF LinksOf
    <2>2. pc[s] = "clearing" \/ Filling(s) => target[s] \in TaskIds
      BY <1>1, FillingTarget DEF IInv, Filling
    <2>. QED BY <1>1, <2>1, <2>2 DEF Served, ExactOK, Filling, LinksOf
  <1>. QED BY <1>2, <1>3, <1>4, <1>5 DEF Served

\* A step of r that commits nothing.
Local(r) ==
    /\ UNCHANGED <<owner, links>> /\ used \subseteq used'
    /\ work'[r].new \in {work[r].new, NoRow} \/ work'[r].new \notin used
    /\ \A s \in Requests \ {r} :
         /\ pc'[s] = pc[s] /\ req'[s] = req[s] /\ target'[s] = target[s] /\ tx'[s] = tx[s]
         /\ did'[s] = did[s] /\ reply'[s] = reply[s] /\ work'[s] = work[s] /\ alone'[s] = alone[s]

LEMMA LocalServed ==
    ASSUME RInv, IInv', NEW r \in Requests, Local(r), Served(r)'
    PROVE  RInv'
  <1>1. Ids(r)
    BY DEF Local, Ids
  <1>2. \A s \in Requests \ {r} : Frame(r, s)
    BY DEF Local, Frame
  <1>. QED BY <1>1, <1>2, OthersServed DEF RInv

LEMMA RequestType ==
    ASSUME IInv, NEW r \in Requests
    PROVE  /\ pc \in [Requests -> PCs] /\ req \in [Requests -> Menu \cup {NoInput}]
           /\ target \in [Requests -> Rows \cup {NoRow}] /\ tx \in [Requests -> {"none", "open", "aborted"}]
           /\ work \in [Requests -> Work] /\ work[r] \in Work
           /\ reply \in [Requests -> {0, 200, 201, 204, 400, 404, 500}]
           /\ did \in [Requests -> SUBSET {"row", "fields", "tags", "gone"}]
           /\ alone \in [Requests -> BOOLEAN] /\ used \subseteq Rows
           /\ owner \in [Rows -> Users \cup {NoUser}] /\ links \subseteq Links
           /\ pc[r] \notin Resting => req[r] \in Menu /\ req[r] # NoInput /\ req[r].op \in OpsAt(pc[r])
                                     /\ req[r].user \in Users /\ req[r].user # NoUser
                                     /\ req[r].tags \in Seq(TagIds)
                                     /\ (req[r].op \notin {"create", "createTag"} => target[r] = req[r].id)
  BY MenuFacts, ConstantsAssumption DEF IInv, TypeOK, ControlOK, InputOK

LEMMA ReceiveServed == ASSUME RInv, IInv', NEW r \in Requests, Receive(r) PROVE RInv'
  <1>. USE DEF RInv
  <1>1. PICK in \in Menu :
          /\ in.id \in Known \cup {NoRow}
          /\ req' = [req EXCEPT ![r] = in] /\ target' = [target EXCEPT ![r] = in.id]
          /\ pc' = [pc EXCEPT ![r] = FirstStep[in.op]]
    BY DEF Receive, Goto
  <1>2. /\ pc[r] = "idle" /\ UNCHANGED <<owner, links, used, tx, work, reply, did, alone>>
    BY DEF Receive, Goto, database
  <1>3. /\ in.op \in Ops /\ in # NoInput
        /\ FirstStep[in.op] \in {"begin", "update", "delete", "read", "insertTag"}
        /\ FirstStep[in.op] = "begin" => in.op = "create"
        /\ FirstStep[in.op] = "read" => in.op = "get"
        /\ in.op \notin {"create", "createTag"} => in.id \in Rows
    BY MenuFacts DEF FirstStep, Ops, Rows
  <1>4. /\ req'[r] = in /\ target'[r] = in.id /\ pc'[r] = FirstStep[in.op] /\ reply'[r] = 0 /\ did'[r] = {}
    BY <1>1, <1>2, RequestType DEF Served, DoneOK
  <1>5. Local(r)
    BY <1>1, <1>2, RequestType DEF Local
  <1>6. DoneOK(r)'
    BY <1>3, <1>4 DEF DoneOK
  <1>7. TargetOK(r)'
    BY <1>1, <1>2, <1>3, <1>4, ConstantsAssumption DEF TargetOK, Known
  <1>8. WithinOK(r)' /\ ExactOK(r)'
    BY <1>3, <1>4 DEF WithinOK, ExactOK, Filling
  <1>. QED BY <1>5, <1>6, <1>7, <1>8, LocalServed DEF Served

LEMMA EndServed ==
    ASSUME RInv, IInv', NEW r \in Requests, Local(r), pc'[r] \in {"done", "lost"}
    PROVE  RInv'
  <1>1. Served(r)'
    BY DEF Served, DoneOK, TargetOK, WithinOK, ExactOK, Filling, Resting
  <1>. QED BY <1>1, LocalServed

LEMMA AnswersServed ==
    ASSUME RInv, IInv', NEW r \in Requests,
           Reject(r) \/ Read(r) \/ DeleteMissing(r) \/ DuplicateTag(r)
    PROVE  RInv'
  <1>. USE DEF RInv
  <1>1. PICK code : Answer(r, code)
    BY DEF Reject, Read, DeleteMissing, DuplicateTag
  <1>2. UNCHANGED <<owner, links, used, req, target, tx, work, did, alone>>
    BY DEF Reject, Read, DeleteMissing, DuplicateTag, database
  <1>3. Local(r) /\ pc'[r] = "done"
    BY <1>1, <1>2, RequestType DEF Local, Answer
  <1>. QED BY <1>3, EndServed

LEMMA UpdateFieldsServed == ASSUME RInv, IInv', NEW r \in Requests, UpdateFields(r) PROVE RInv'
  <1>. USE DEF RInv
  <1>1. /\ pc[r] = "update" /\ UNCHANGED <<owner, links, used, req, target, tx, work, alone>>
        /\ did' = [did EXCEPT ![r] = @ \cup IF Found(r) THEN {"fields"} ELSE {}]
    BY DEF UpdateFields, Ready, Note, database
  <1>2. /\ req[r].op \in {"patch", "retag"} /\ reply[r] = 0 /\ did[r] = {} /\ target[r] \in Rows
        /\ TargetOK(r)
    BY <1>1, RequestType DEF OpsAt, Resting, Served, DoneOK, TargetOK
  <1>3. CASE Goto(r, IF req[r].op = "retag" THEN "begin" ELSE "read")
    <2>1. /\ pc'[r] = IF req[r].op = "retag" THEN "begin" ELSE "read"
          /\ reply' = reply /\ did'[r] = IF Found(r) THEN {"fields"} ELSE {}
      BY <1>1, <1>2, <1>3, RequestType DEF Goto
    <2>2. Local(r)
      BY <1>1, <1>3, RequestType DEF Local, Goto
    <2>3. DoneOK(r)' /\ WithinOK(r)' /\ ExactOK(r)'
      BY <1>1, <1>2, <2>1 DEF DoneOK, WithinOK, ExactOK, Filling
    <2>4. TargetOK(r)'
      BY <1>1, <1>2, <2>1 DEF TargetOK, Found, Resting
    <2>. QED BY <2>2, <2>3, <2>4, LocalServed DEF Served
  <1>4. CASE Answer(r, 500)
    <2>1. Local(r) /\ pc'[r] = "done"
      BY <1>1, <1>4, RequestType DEF Local, Answer
    <2>. QED BY <2>1, EndServed
  <1>. QED BY <1>3, <1>4 DEF UpdateFields

LEMMA BeginServed == ASSUME RInv, IInv', NEW r \in Requests, Begin(r) PROVE RInv'
  <1>. USE DEF RInv
  <1>1. /\ pc[r] = "begin" /\ UNCHANGED <<owner, links, used, req, target, work, reply, did, alone>>
        /\ tx' = [tx EXCEPT ![r] = "open"]
        /\ pc' = [pc EXCEPT ![r] = IF req[r].op = "create" THEN "insert" ELSE "clear"]
    BY DEF Begin, Goto, database
  <1>2. DoneOK(r) /\ TargetOK(r)
    BY DEF Served
  <1>3. Local(r) /\ pc'[r] = IF req[r].op = "create" THEN "insert" ELSE "clear"
    BY <1>1, RequestType DEF Local
  <1>4. DoneOK(r)' /\ TargetOK(r)' /\ WithinOK(r)' /\ ExactOK(r)'
    BY <1>1, <1>2, <1>3 DEF DoneOK, TargetOK, WithinOK, ExactOK, Filling, Resting
  <1>. QED BY <1>3, <1>4, LocalServed DEF Served

LEMMA InsertTaskServed == ASSUME RInv, IInv', NEW r \in Requests, InsertTask(r) PROVE RInv'
  <1>. USE DEF RInv
  <1>1. PICK t \in TaskIds \ used :
          /\ used' = used \cup {t} /\ target' = [target EXCEPT ![r] = t]
          /\ work' = [work EXCEPT ![r] = [NoWork EXCEPT !.new = t, !.left = req[r].tags]]
    BY DEF InsertTask
  <1>2. /\ pc[r] = "insert" /\ pc' = [pc EXCEPT ![r] = AttachOrCommit(req[r].tags)]
        /\ UNCHANGED <<owner, links, req, tx, reply, did, alone, faults>>
    BY DEF InsertTask, Goto, database
  <1>3. req[r].op = "create" /\ req[r].tags \in Seq(TagIds) /\ DoneOK(r) /\ alone[r] \in BOOLEAN
    BY <1>2, RequestType DEF OpsAt, Resting, Served
  <1>4. /\ work'[r] = [NoWork EXCEPT !.new = t, !.left = req[r].tags]
        /\ target'[r] = t /\ pc'[r] = AttachOrCommit(req[r].tags)
    BY <1>1, <1>2, RequestType
  <1>5. /\ work'[r].new = t /\ work'[r].left = req[r].tags /\ work'[r].ins = {} /\ work'[r].del = {}
    BY <1>4 DEF NoWork
  <1>6. Local(r)
    BY <1>1, <1>2, <1>5, RequestType DEF Local
  <1>7. pc'[r] \in {"attach", "commit"} /\ (pc'[r] = "commit" => req[r].tags = <<>>)
    BY <1>4 DEF AttachOrCommit
  <1>8. DoneOK(r)' /\ TargetOK(r)'
    BY <1>2, <1>3, <1>7 DEF DoneOK, TargetOK
  <1>9. WithinOK(r)' /\ ExactOK(r)'
    BY <1>2, <1>3, <1>5, <1>7 DEF WithinOK, ExactOK, Filling, Asked
  <1>. QED BY <1>6, <1>8, <1>9, LocalServed DEF Served

LEMMA ClearServed == ASSUME RInv, IInv', NEW r \in Requests, Clear(r) PROVE RInv'
  <1>. USE DEF RInv
  <1>1. /\ pc[r] = "clear" /\ UNCHANGED <<owner, links, used, req, target, tx, reply, did>>
        /\ work' = [work EXCEPT ![r] = [NoWork EXCEPT !.todo = LinksOf(target[r])]]
        /\ pc' = [pc EXCEPT ![r] = "clearing"] /\ alone' = [alone EXCEPT ![r] = TRUE]
    BY DEF Clear, Goto, database
  <1>2. DoneOK(r) /\ TargetOK(r) /\ req[r].op = "retag" /\ target[r] \in TaskIds
    BY <1>1, FillingTarget DEF Served
  <1>3. pc'[r] = "clearing" /\ work'[r].todo = LinksOf(target[r]) /\ work'[r].new = NoRow
    BY <1>1, RequestType DEF NoWork
  <1>4. Local(r)
    BY <1>1, <1>3, RequestType DEF Local
  <1>5. \A l \in LinksOf(target[r]) : l[1] = target[r]
    BY <1>2, RequestType, ConstantsAssumption DEF LinksOf, Links
  <1>6. DoneOK(r)' /\ TargetOK(r)'
    <2>1. \A s \in Requests : work[s].new # target[r] /\ work'[s].new # target[r]
      BY <1>1, <1>2, <1>3, RequestType, ConstantsAssumption DEF TargetOK, Resting, Rows
    <2>. QED BY <1>1, <1>2, <1>3, <2>1 DEF DoneOK, TargetOK, Resting
  <1>7. WithinOK(r)' /\ ExactOK(r)'
    BY <1>1, <1>3, <1>5 DEF WithinOK, ExactOK, Filling, LinksOf
  <1>. QED BY <1>4, <1>6, <1>7, LocalServed DEF Served

LEMMA DeleteLinksServed == ASSUME RInv, IInv', NEW r \in Requests, DeleteLinks(r) PROVE RInv'
  <1>. USE DEF RInv
  <1>1. /\ pc[r] = "clearing" /\ UNCHANGED <<owner, links, used, req, target, tx, reply, did, alone>>
        /\ work' = [work EXCEPT ![r].del = work[r].todo, ![r].todo = {}, ![r].left = req[r].tags]
        /\ pc' = [pc EXCEPT ![r] = AttachOrCommit(req[r].tags)]
    BY DEF DeleteLinks, Ready, Goto, database
  <1>2. /\ DoneOK(r) /\ TargetOK(r) /\ WithinOK(r) /\ ExactOK(r) /\ req[r].op = "retag"
        /\ target[r] \in TaskIds /\ work[r].new = NoRow /\ work[r].ins = {}
    BY <1>1, FillingTarget DEF Served, IInv, ControlOK, WorkOK
  <1>3. /\ work'[r].new = work[r].new /\ work'[r].ins = work[r].ins /\ work'[r].del = work[r].todo
        /\ work'[r].left = req[r].tags /\ pc'[r] = AttachOrCommit(req[r].tags)
    BY <1>1, RequestType DEF Work
  <1>4. Local(r)
    BY <1>1, <1>3, RequestType DEF Local
  <1>5. pc'[r] \in {"attach", "commit"} /\ (pc'[r] = "commit" => req[r].tags = <<>>)
    BY <1>3 DEF AttachOrCommit
  <1>6. DoneOK(r)' /\ TargetOK(r)'
    BY <1>1, <1>2, <1>3, <1>4, <1>5 DEF DoneOK, TargetOK, Resting, Local
  <1>7. WithinOK(r)' /\ ExactOK(r)'
    BY <1>1, <1>2, <1>3, <1>5 DEF WithinOK, ExactOK, Filling, Asked, LinksOf
  <1>. QED BY <1>4, <1>6, <1>7, LocalServed DEF Served

\* A task that is being inserted has no committed links.
LEMMA NewHasNoLinks ==
    ASSUME RInv, NEW r \in Requests, pc[r] \in {"attach", "commit"}, req[r].op = "create"
    PROVE  LinksOf(target[r]) = {}
  <1>1. target[r] = work[r].new /\ target[r] \in TaskIds /\ work[r].new # NoRow
    BY FillingTarget, ConstantsAssumption DEF RInv, Rows
  <1>2. ~Live(target[r])
    BY <1>1 DEF RInv, IInv, LocksOK, IdsOK
  <1>. QED BY <1>2 DEF RInv, IInv, ReferentialIntegrity, LinksOf

LEMMA AttachServed == ASSUME RInv, IInv', NEW r \in Requests, Attach(r) PROVE RInv'
  <1>. USE DEF RInv
  <1>. DEFINE g == Head(work[r].left)
              l == <<target[r], g>>
  <1>1. /\ pc[r] = "attach" /\ pc' = [pc EXCEPT ![r] = AttachOrCommit(Tail(work[r].left))]
        /\ UNCHANGED <<owner, links, used, req, target, tx, reply, did, alone>>
    BY DEF Attach, Ready, Goto, database
  <1>2. /\ DoneOK(r) /\ TargetOK(r) /\ WithinOK(r) /\ ExactOK(r) /\ tx[r] = "open"
        /\ work[r].left \in Seq(TagIds) /\ work[r].left # <<>>
        /\ target[r] \in TaskIds /\ req[r].op \in {"create", "retag"}
    BY <1>1, FillingTarget DEF Served, IInv, ControlOK, WorkOK, TxOK
  <1>3. /\ ToSet(work[r].left) = {g} \cup ToSet(Tail(work[r].left)) /\ Tail(work[r].left) \in Seq(TagIds)
    BY <1>2, TagsToSet, HeadTailProperties
  <1>4. /\ work'[r].new = work[r].new /\ work'[r].del = work[r].del
        /\ work'[r].left = Tail(work[r].left)
        /\ \/ work'[r].ins = work[r].ins /\ Present(r, l)
           \/ work'[r].ins = work[r].ins \cup {l}
    <2>. DEFINE checked == IF l[1] = work[r].new THEN {l[2]} ELSE {l[1], l[2]}
    <2>1. \/ Present(r, l) /\ work' = [work EXCEPT ![r].left = Tail(@)]
          \/ work' = [work EXCEPT ![r].left = Tail(@), ![r].ins = @ \cup {l}, ![r].share = @ \cup checked]
      BY DEF Attach, NextLink
    <2>2. work \in [Requests -> Work] /\ work[r] \in Work
      BY RequestType
    <2>. HIDE DEF l, checked
    <2>3. \/ Present(r, l) /\ work'[r] = [work[r] EXCEPT !.left = Tail(@)]
          \/ work'[r] = [work[r] EXCEPT !.left = Tail(@), !.ins = @ \cup {l}, !.share = @ \cup checked]
      BY <2>1, <2>2
    <2>. QED BY <2>2, <2>3 DEF Work
  <1>5. \A s \in Requests \ {r} : work'[s] = work[s]
    BY RequestType DEF Attach
  <1>6. Local(r) /\ pc'[r] = AttachOrCommit(Tail(work[r].left))
    BY <1>1, <1>4, <1>5, RequestType DEF Local
  <1>7. pc'[r] \in {"attach", "commit"} /\ (pc'[r] = "commit" => Tail(work[r].left) = <<>>)
    BY <1>6 DEF AttachOrCommit
  <1>8. DoneOK(r)' /\ TargetOK(r)'
    BY <1>1, <1>2, <1>4, <1>6, <1>7 DEF DoneOK, TargetOK, Resting, Local
  <1>9. g \in ToSet(req[r].tags)
    BY <1>1, <1>2, <1>3 DEF WithinOK, Filling
  <1>. HIDE DEF g
  <1>10. WithinOK(r)'
    BY <1>1, <1>2, <1>3, <1>4, <1>7, <1>9 DEF WithinOK, Filling, Asked
  <1>11. req[r].op = "create" \/ alone[r] => l \in work'[r].ins
    <2>. SUFFICES ASSUME req[r].op = "create" \/ alone[r], Present(r, l) PROVE l \in work[r].ins
      BY <1>4
    <2>1. l \in links => l \in LinksOf(target[r])
      BY DEF LinksOf
    <2>2. CASE req[r].op = "create"
      BY <1>1, <1>2, <2>1, <2>2, NewHasNoLinks DEF Present
    <2>3. CASE req[r].op = "retag" /\ alone[r]
      BY <1>1, <1>2, <2>1, <2>3 DEF Present, ExactOK, Filling
    <2>. QED BY <1>2, <2>2, <2>3
  <1>12. ExactOK(r)'
    <2>1. work[r].ins \subseteq work'[r].ins
      BY <1>4
    <2>2. Filling(r) /\ pc'[r] # "clearing"
      BY <1>1, <1>2, <1>7 DEF Filling
    <2>. QED BY <1>1, <1>2, <1>3, <1>4, <1>11, <2>1, <2>2 DEF ExactOK, Filling, LinksOf
  <1>. QED BY <1>6, <1>8, <1>10, <1>12, LocalServed DEF Served

LEMMA LockRowServed == ASSUME RInv, IInv', NEW r \in Requests, LockRow(r) PROVE RInv'
  <1>. USE DEF RInv
  <1>1. /\ pc[r] = "delete" /\ Found(r)
        /\ UNCHANGED <<owner, links, used, req, target, tx, reply, did, alone>>
        /\ work' = [work EXCEPT ![r] = [NoWork EXCEPT !.excl = target[r], !.todo = LinksOf(target[r])]]
        /\ pc' = [pc EXCEPT ![r] = "cascade"]
    BY DEF LockRow, Ready, Goto, database
  <1>2. DoneOK(r) /\ TargetOK(r) /\ req[r].op = "delete" /\ target[r] # NoRow
    BY <1>1, RequestType, ConstantsAssumption DEF Served, OpsAt, Resting, Found
  <1>3. pc'[r] = "cascade" /\ work'[r].todo = LinksOf(target[r]) /\ work'[r].new = NoRow
    BY <1>1, RequestType DEF NoWork
  <1>4. Local(r)
    BY <1>1, <1>3, RequestType DEF Local
  <1>5. DoneOK(r)' /\ TargetOK(r)'
    BY <1>1, <1>2, <1>3, <1>4 DEF DoneOK, TargetOK, Resting, Local, Found
  <1>6. WithinOK(r)' /\ ExactOK(r)'
    BY <1>1, <1>3 DEF WithinOK, ExactOK, Filling, LinksOf
  <1>. QED BY <1>4, <1>5, <1>6, LocalServed DEF Served

LEMMA FailServed ==
    ASSUME RInv, IInv', NEW r \in Requests, Fail(r), pc[r] \notin Resting, tx[r] # "aborted"
    PROVE  RInv'
  <1>. USE DEF RInv
  <1>1. /\ work' = [work EXCEPT ![r] = NoWork]
        /\ UNCHANGED <<owner, links, used, req, target, did, alone>>
    BY DEF Fail, Release, database
  <1>2. work'[r].new = NoRow /\ DoneOK(r) /\ TargetOK(r)
    BY <1>1, RequestType DEF NoWork, Served
  <1>3. CASE Answer(r, 500) /\ tx' = [tx EXCEPT ![r] = "none"]
    <2>1. Local(r) /\ pc'[r] = "done"
      BY <1>1, <1>2, <1>3, RequestType DEF Local, Answer
    <2>. QED BY <2>1, EndServed
  <1>4. CASE /\ Ignores(r)
             /\ \/ pc[r] # "commit" /\ tx' = [tx EXCEPT ![r] = "aborted"] /\ Goto(r, "commit")
                \/ pc[r] = "commit" /\ tx' = [tx EXCEPT ![r] = "none"] /\ Goto(r, "read")
    <2>1. /\ pc[r] \in {"clear", "clearing", "attach", "commit"} /\ req[r].op = "retag"
      <3>1. pc[r] \in {"insert", "clear", "clearing", "attach", "commit"} /\ req[r].op = "retag"
        BY <1>4 DEF Ignores, IInv, TypeOK, PCs, ControlOK, TxOK
      <3>2. pc[r] = "insert" => req[r].op = "create"
        BY RequestType DEF OpsAt, Resting
      <3>. QED BY <3>1, <3>2
    <2>2. /\ Local(r) /\ reply' = reply
          /\ \/ pc'[r] = "commit" /\ tx'[r] = "aborted"
             \/ pc'[r] = "read"
      BY <1>1, <1>2, <1>4, RequestType DEF Local, Goto
    <2>3. target[r] # NoRow /\ \A s \in Requests : work'[s].new # target[r]
      <3>1. target[r] \in used /\ used \subseteq Rows /\ \A s \in Requests : work[s].new # target[r]
        BY <1>2, <2>1, RequestType DEF TargetOK, Resting
      <3>. QED BY <1>2, <2>2, <3>1, ConstantsAssumption DEF Local
    <2>4. DoneOK(r)' /\ TargetOK(r)'
      BY <1>1, <1>2, <2>1, <2>2, <2>3 DEF DoneOK, TargetOK, Resting
    <2>5. WithinOK(r)' /\ ExactOK(r)'
      BY <2>2 DEF WithinOK, ExactOK, Filling
    <2>. QED BY <2>2, <2>4, <2>5, LocalServed DEF Served
  <1>. QED BY <1>3, <1>4 DEF Fail

\* What a commit of r does to another request.
LEMMA CommitFrame ==
    ASSUME RInv, NEW r \in Requests, NEW s \in Requests \ {r}, NEW gone, NEW added \in SUBSET Links,
           Apply(r, gone, added), pc'[s] = pc[s], req'[s] = req[s], target'[s] = target[s],
           tx'[s] = tx[s], did'[s] = did[s], reply'[s] = reply[s]
    PROVE  Frame(r, s)
  <1>1. /\ work'[s].new = work[s].new /\ work'[s].ins = work[s].ins /\ work'[s].left = work[s].left
        /\ work'[s].del = work[s].del /\ work'[s].todo = work[s].todo \ gone
    BY ApplyOthers DEF RInv, IInv
  <1>2. alone'[s] <=> alone[s] /\ \A l \in gone \cup added : l[1] # target[s]
    BY DEF Apply
  <1>3. ASSUME alone'[s], target[s] \in TaskIds, NEW l \in links', target[s] \in {l[1], l[2]}
        PROVE  l \in links /\ (l \in work[s].todo => l \in work'[s].todo)
    <2>1. links' = (links \ gone) \cup added /\ l \in Links
      BY <1>3, RequestType DEF Apply, RInv
    <2>2. l[1] = target[s]
      BY <1>3, <2>1, ConstantsAssumption DEF Links
    <2>. QED BY <1>1, <1>2, <1>3, <2>1, <2>2
  <1>. QED BY <1>1, <1>2, <1>3 DEF Frame

LEMMA PublishServed ==
    ASSUME RInv, IInv', NEW r \in Requests, Commit(r), Publish(r)
    PROVE  RInv'
  <1>. USE DEF RInv
  <1>1. /\ pc[r] = "commit" /\ tx[r] = "open" /\ UNCHANGED <<used, req, target>>
        /\ tx' = [tx EXCEPT ![r] = "none"] /\ Apply(r, work[r].del, work[r].ins)
        /\ owner' = IF work[r].new = NoRow THEN owner ELSE [owner EXCEPT ![work[r].new] = req[r].user]
        /\ did' = [did EXCEPT ![r] = @ \cup IF req[r].op = "create" THEN {"row"} ELSE {"tags"}]
        /\ \/ pc' = [pc EXCEPT ![r] = "read"] /\ reply' = reply
           \/ pc' = [pc EXCEPT ![r] = "done"]
              /\ reply' = [reply EXCEPT ![r] = 500]
    BY DEF Commit, Publish, Goto, Answer, Note
  <1>2. /\ DoneOK(r) /\ TargetOK(r) /\ WithinOK(r) /\ work[r].ins \in SUBSET Links
        /\ req[r].op \in {"create", "retag"} /\ target[r] \in TaskIds
    BY <1>1, FillingTarget DEF Served
  <1>3. \A s \in Requests \ {r} : Frame(r, s)
    <2>. SUFFICES ASSUME NEW s \in Requests \ {r} PROVE Frame(r, s)
      OBVIOUS
    <2>1. /\ pc'[s] = pc[s] /\ req'[s] = req[s] /\ target'[s] = target[s] /\ tx'[s] = tx[s]
          /\ did'[s] = did[s] /\ reply'[s] = reply[s]
      BY <1>1, RequestType
    <2>. QED BY <1>1, <1>2, <2>1, CommitFrame
  <1>4. work'[r] = NoWork /\ \A s \in Requests : work'[s].new \in {work[s].new, NoRow}
    <2>1. work'[r] = NoWork /\ NoWork.new = NoRow
      BY <1>1, <1>2, ApplyOthers DEF IInv, NoWork
    <2>2. \A s \in Requests : work'[s].new \in {work[s].new, NoRow}
      BY <1>1, ApplyOthers DEF IInv, NoWork
    <2>. QED BY <2>1, <2>2
  <1>5. Ids(r)
    BY <1>1, <1>4, RequestType DEF Ids
  <1>6. Served(r)'
    <2>1. /\ (pc'[r] = "read" /\ reply'[r] = reply[r]) \/ pc'[r] = "done"
          /\ did'[r] = did[r] \cup IF req[r].op = "create" THEN {"row"} ELSE {"tags"}
      BY <1>1, RequestType
    <2>2. DoneOK(r)'
      BY <1>1, <1>2, <2>1 DEF DoneOK
    <2>3. req[r].op = "retag" => /\ target[r] \in used /\ target[r] # NoRow
                                /\ \A s \in Requests : work[s].new # target[r]
                                /\ work[r].new = NoRow
      BY <1>1, <1>2, RequestType, ConstantsAssumption DEF TargetOK, WithinOK, Filling, Resting
    <2>4. TargetOK(r)'
      BY <1>1, <1>2, <1>4, <2>1, <2>3 DEF TargetOK, Resting
    <2>5. WithinOK(r)' /\ ExactOK(r)'
      BY <2>1 DEF WithinOK, ExactOK, Filling
    <2>. QED BY <2>2, <2>4, <2>5 DEF Served
  <1>. QED BY <1>3, <1>5, <1>6, OthersServed

LEMMA RollBackServed ==
    ASSUME RInv, IInv', NEW r \in Requests, Commit(r), RollBack(r)
    PROVE  RInv'
  <1>. USE DEF RInv
  <1>1. /\ pc[r] = "commit" /\ tx[r] = "aborted" /\ pc' = [pc EXCEPT ![r] = "read"]
        /\ UNCHANGED <<owner, links, used, req, target, reply, did, alone>>
        /\ tx' = [tx EXCEPT ![r] = "none"] /\ work' = [work EXCEPT ![r] = NoWork]
    BY DEF Commit, RollBack, Release, Goto, database
  <1>2. /\ DoneOK(r) /\ TargetOK(r) /\ req[r].op = "retag" /\ work'[r].new = NoRow
    BY <1>1, RequestType DEF Served, IInv, ControlOK, TxOK, NoWork
  <1>3. Local(r) /\ pc'[r] = "read" /\ target[r] # NoRow
    BY <1>1, <1>2, FillingTarget, RequestType, ConstantsAssumption DEF Local, Rows
  <1>4. DoneOK(r)' /\ TargetOK(r)'
    BY <1>1, <1>2, <1>3 DEF DoneOK, TargetOK, Resting, Local
  <1>5. WithinOK(r)' /\ ExactOK(r)'
    BY <1>3 DEF WithinOK, ExactOK, Filling
  <1>. QED BY <1>3, <1>4, <1>5, LocalServed DEF Served

LEMMA CascadeServed == ASSUME RInv, IInv', NEW r \in Requests, Cascade(r) PROVE RInv'
  <1>. USE DEF RInv
  <1>1. /\ pc[r] = "cascade" /\ UNCHANGED <<used, req, target, tx>>
        /\ owner' = [owner EXCEPT ![target[r]] = NoUser] /\ Apply(r, work[r].todo, {})
        /\ did' = [did EXCEPT ![r] = @ \cup {"gone"}] /\ pc' = [pc EXCEPT ![r] = "done"]
        /\ \E code : reply' = [reply EXCEPT ![r] = code]
    BY DEF Cascade, Ready, Answer, Note
  <1>2. \A s \in Requests \ {r} : Frame(r, s)
    <2>. SUFFICES ASSUME NEW s \in Requests \ {r} PROVE Frame(r, s)
      OBVIOUS
    <2>1. /\ pc'[s] = pc[s] /\ req'[s] = req[s] /\ target'[s] = target[s] /\ tx'[s] = tx[s]
          /\ did'[s] = did[s] /\ reply'[s] = reply[s]
      BY <1>1, RequestType
    <2>. QED BY <1>1, <2>1, CommitFrame
  <1>3. \A s \in Requests : work'[s].new \in {work[s].new, NoRow}
    BY <1>1, ApplyOthers DEF IInv, NoWork
  <1>4. Ids(r)
    BY <1>1, <1>3, RequestType DEF Ids
  <1>5. Served(r)'
    <2>1. pc'[r] = "done"
      BY <1>1, RequestType
    <2>. QED BY <2>1 DEF Served, DoneOK, TargetOK, WithinOK, ExactOK, Filling, Resting
  <1>. QED BY <1>2, <1>4, <1>5, OthersServed

LEMMA InsertTagServed == ASSUME RInv, IInv', NEW r \in Requests, InsertTag(r) PROVE RInv'
  <1>. USE DEF RInv
  <1>1. PICK g \in TagIds \ used :
          /\ used' = used \cup {g} /\ target' = [target EXCEPT ![r] = g]
          /\ owner' = [owner EXCEPT ![g] = req[r].user]
    BY DEF InsertTag
  <1>2. /\ UNCHANGED <<links, req, tx, work, alone>> /\ did' = [did EXCEPT ![r] = @ \cup {"row"}]
        /\ pc' = [pc EXCEPT ![r] = "done"] /\ \E code : reply' = [reply EXCEPT ![r] = code]
    BY DEF InsertTag, Answer, Note
  <1>3. \A s \in Requests \ {r} : Frame(r, s)
    BY <1>1, <1>2, RequestType DEF Frame
  <1>4. Ids(r)
    BY <1>1, <1>2, RequestType DEF Ids
  <1>5. Served(r)'
    <2>1. pc'[r] = "done"
      BY <1>2, RequestType
    <2>. QED BY <2>1 DEF Served, DoneOK, TargetOK, WithinOK, ExactOK, Filling, Resting
  <1>. QED BY <1>3, <1>4, <1>5, OthersServed

LEMMA CrashServed == ASSUME RInv, IInv', Crash PROVE RInv'
  <1>. SUFFICES ASSUME NEW r \in Requests PROVE Served(r)'
    BY DEF RInv
  <1>1. Served(r)
    BY DEF RInv
  <1>2. /\ UNCHANGED <<owner, links, used, req, target, reply, did, alone>>
        /\ pc'[r] = IF pc[r] \in Resting THEN pc[r] ELSE "lost"
    BY DEF Crash, database
  <1>. QED BY <1>1, <1>2 DEF Served, DoneOK, TargetOK, WithinOK, ExactOK, Filling, Resting

LEMMA InitRInv == Init => RInv
  <1>. SUFFICES ASSUME Init, NEW r \in Requests PROVE Served(r)
    BY InitIInv DEF RInv
  <1>1. pc[r] = "idle" /\ req[r] = NoInput /\ did[r] = {} /\ reply[r] = 0
    BY DEF Init
  <1>. QED BY <1>1 DEF Served, DoneOK, TargetOK, WithinOK, ExactOK, Filling, Resting

\* The three kinds of failure.
LEMMA FailuresFail ==
    ASSUME IInv, NEW r \in Requests, AttachFails(r) \/ DeadlockDetected(r) \/ StatementFails(r)
    PROVE  Fail(r) /\ pc[r] \notin Resting /\ tx[r] # "aborted"
  <1>1. CASE StatementFails(r)
    BY <1>1 DEF StatementFails
  <1>2. CASE AttachFails(r)
    BY <1>2 DEF AttachFails, Ready, Resting, IInv, ControlOK, TxOK
  <1>3. CASE DeadlockDetected(r)
    <2>1. PICK s \in Requests : Holds(s, r)
      BY <1>3 DEF DeadlockDetected, OnCycle, BlockedBy
    <2>2. pc[r] \in {"update", "clearing", "cascade", "attach", "delete"}
      BY <2>1 DEF Holds
    <2>. QED BY <1>3, <2>2 DEF DeadlockDetected, Resting, IInv, ControlOK, TxOK
  <1>. QED BY <1>1, <1>2, <1>3

\* The invariant is inductive.
LEMMA NextRInv == RInv /\ [Next]_vars => RInv'
  <1>. SUFFICES ASSUME RInv, [Next]_vars PROVE RInv'
    OBVIOUS
  <1>1. IInv /\ IInv'
    BY NextIInv DEF RInv
  <1>2. CASE UNCHANGED vars
    BY <1>1, <1>2 DEF vars, RInv, Served, DoneOK, TargetOK, WithinOK, ExactOK, Filling, Asked, LinksOf
  <1>3. CASE Crash
    BY <1>1, <1>3, CrashServed
  <1>4. ASSUME NEW r \in Requests,
               Receive(r) \/ Reject(r) \/ Step(r) \/ DeadlockDetected(r) \/ StatementFails(r)
        PROVE  RInv'
    <2>1. AttachFails(r) \/ DeadlockDetected(r) \/ StatementFails(r) => RInv'
      BY <1>1, FailuresFail, FailServed
    <2>2. Commit(r) => RInv'
      BY <1>1, PublishServed, RollBackServed DEF Commit
    <2>. QED BY <1>1, <1>4, <2>1, <2>2, ReceiveServed, AnswersServed, UpdateFieldsServed, BeginServed,
                InsertTaskServed, ClearServed, DeleteLinksServed, AttachServed, LockRowServed,
                CascadeServed, InsertTagServed DEF Step
  <1>. QED BY <1>2, <1>3, <1>4 DEF Next, AllAnswered

\* Every behaviour keeps it.
LEMMA RequestsServed == Spec => []RInv
  BY InitRInv, NextRInv, PTL DEF Spec
-----------------------------------------------------------------------------
(* What the commit of a transaction leaves.                                *)

\* All the tags asked for, on rows that are there.
LEMMA InsertedIs ==
    ASSUME RInv, NEW r \in Requests, pc[r] = "commit", tx[r] = "open",
           req[r].op = "create" \/ alone[r]
    PROVE  work[r].ins = Asked(r)
  <1>. USE DEF RInv
  <1>1. WithinOK(r) /\ ExactOK(r) /\ Filling(r)
    BY DEF Served, Filling
  <1>2. work[r].ins \subseteq Asked(r) /\ work[r].left = <<>> /\ ToSet(work[r].left) = {}
    BY <1>1, TagsToSet, FillingTarget DEF WithinOK
  <1>3. \A g \in ToSet(req[r].tags) : <<target[r], g>> \in work[r].ins
    BY <1>1, <1>2 DEF ExactOK
  <1>. QED BY <1>2, <1>3 DEF Asked

LEMMA InsertedIsLive ==
    ASSUME RInv, NEW r \in Requests, NEW l \in work[r].ins
    PROVE  Live(l[2]) /\ (l[1] # work[r].new => Live(l[1]))
  BY DEF RInv, IInv, LocksOK, InsOK, ShareOK

LEMMA PublishExact ==
    ASSUME RInv, NEW r \in Requests, Commit(r), Publish(r), req[r].op = "create" \/ alone[r]
    PROVE  LinksOf(target[r])' = {target[r]} \X ToSet(req[r].tags)
  <1>. USE DEF RInv
  <1>1. /\ pc[r] = "commit" /\ tx[r] = "open" /\ target' = target
        /\ links' = (links \ work[r].del) \cup work[r].ins
    BY DEF Commit, Publish, Apply
  <1>2. work[r].ins = {target[r]} \X ToSet(req[r].tags)
    BY <1>1, InsertedIs DEF Asked
  <1>3. LinksOf(target[r]) \subseteq work[r].del
    <2>1. CASE req[r].op = "create"
      BY <1>1, <2>1, NewHasNoLinks
    <2>2. CASE req[r].op = "retag" /\ alone[r]
      BY <1>1, <2>2 DEF Served, ExactOK, Filling
    <2>. QED BY <1>1, <2>1, <2>2, FillingTarget
  <1>. QED BY <1>1, <1>2, <1>3 DEF LinksOf

\* The steps that change rows of tasks and tags, or what a request has done.
LEMMA WhoCommits ==
    ASSUME RInv, [Next]_vars
    PROVE  \/ UNCHANGED <<owner, links, did>>
           \/ \E r \in Requests : \/ UpdateFields(r) \/ Cascade(r) \/ InsertTag(r)
                                  \/ (Commit(r) /\ Publish(r))
  <1>1. CASE UNCHANGED vars \/ AllAnswered
    BY <1>1 DEF vars, AllAnswered
  <1>2. CASE Crash
    BY <1>2 DEF Crash, database
  <1>3. ASSUME NEW r \in Requests,
               Receive(r) \/ Reject(r) \/ Step(r) \/ DeadlockDetected(r) \/ StatementFails(r)
        PROVE  \/ UNCHANGED <<owner, links, did>>
               \/ UpdateFields(r) \/ Cascade(r) \/ InsertTag(r) \/ (Commit(r) /\ Publish(r))
    <2>1. AttachFails(r) \/ DeadlockDetected(r) \/ StatementFails(r) => UNCHANGED <<owner, links, did>>
      BY DEF AttachFails, DeadlockDetected, StatementFails, Fail, database
    <2>2. Receive(r) \/ Reject(r) \/ Read(r) \/ DeleteMissing(r) \/ DuplicateTag(r)
            => UNCHANGED <<owner, links, did>>
      BY DEF Receive, Reject, Read, DeleteMissing, DuplicateTag, database
    <2>3. Begin(r) \/ InsertTask(r) \/ Clear(r) \/ DeleteLinks(r) \/ LockRow(r)
            => UNCHANGED <<owner, links, did>>
      BY DEF Begin, InsertTask, Clear, DeleteLinks, LockRow, database
    <2>4. Attach(r) => UNCHANGED <<owner, links, did>>
      BY DEF Attach, database
    <2>5. Commit(r) => UNCHANGED <<owner, links, did>> \/ Publish(r)
      BY DEF Commit, RollBack, database
    <2>. QED BY <1>3, <2>1, <2>2, <2>3, <2>4, <2>5 DEF Step
  <1>. QED BY <1>1, <1>2, <1>3 DEF Next

\* Create: a task appears at the commit of its transaction, with all the tags that its
\* request asked for and no others.
THEOREM TasksAppearWhole == Spec => CreatedWithItsTags
  <1>. DEFINE Whole == \A t \in TaskIds :
         owner[t] = NoUser /\ owner'[t] # NoUser
           => \E r \in Requests : /\ work[r].new = t
                                 /\ LinksOf(t)' = {t} \X ToSet(req[r].tags)
  <1>1. RInv /\ [Next]_vars => Whole
    <2>. SUFFICES ASSUME RInv, [Next]_vars, NEW t \in TaskIds, owner[t] = NoUser, owner'[t] # NoUser
                  PROVE  \E r \in Requests : /\ work[r].new = t
                                            /\ LinksOf(t)' = {t} \X ToSet(req[r].tags)
      OBVIOUS
    <2>1. PICK r \in Requests : \/ UpdateFields(r) \/ Cascade(r) \/ InsertTag(r)
                                \/ (Commit(r) /\ Publish(r))
      BY WhoCommits
    <2>2. owner \in [Rows -> Users \cup {NoUser}] /\ t \in Rows /\ t \notin TagIds
      BY ConstantsAssumption DEF RInv, IInv, TypeOK, Rows
    <2>3. Commit(r) /\ Publish(r)
      BY <2>1, <2>2 DEF UpdateFields, Cascade, InsertTag, database
    <2>4. pc[r] = "commit" /\ tx[r] = "open" /\ work[r].new = t
      BY <2>2, <2>3 DEF Commit, Publish
    <2>5. t # NoRow /\ req[r].op = "create" /\ target[r] = t
      BY <2>2, <2>4, FillingTarget, ConstantsAssumption DEF RInv, Served, WithinOK, Filling
    <2>6. LinksOf(t)' = LinksOf(target[r])'
      BY <2>3, <2>5 DEF Commit, LinksOf
    <2>. QED BY <2>3, <2>4, <2>5, <2>6, PublishExact
  <1>. QED BY <1>1, RequestsServed, PTL DEF Spec, CreatedWithItsTags

\* Update with tag_ids: when no other request committed a change to the task's tags since
\* its DELETE took its snapshot, its commit leaves exactly the tags asked for.
THEOREM ReplacementsAreExact == Spec => RetagExact
  <1>. DEFINE Exact == \A r \in Requests :
         "tags" \in did'[r] \ did[r] /\ alone[r]
           => LinksOf(target[r])' = {target[r]} \X ToSet(req[r].tags)
  <1>1. RInv /\ [Next]_vars => Exact
    <2>. SUFFICES ASSUME RInv, [Next]_vars, NEW r \in Requests,
                         "tags" \in did'[r] \ did[r], alone[r]
                  PROVE  LinksOf(target[r])' = {target[r]} \X ToSet(req[r].tags)
      OBVIOUS
    <2>1. PICK s \in Requests : \/ UpdateFields(s) \/ Cascade(s) \/ InsertTag(s)
                                \/ (Commit(s) /\ Publish(s))
      BY WhoCommits
    <2>2. did \in [Requests -> SUBSET {"row", "fields", "tags", "gone"}]
      BY DEF RInv, IInv, TypeOK
    <2>3. Commit(s) /\ Publish(s) /\ s = r
      BY <2>1, <2>2 DEF UpdateFields, Cascade, InsertTag, Commit, Publish, Note
    <2>. QED BY <2>3, PublishExact
  <1>. QED BY <1>1, RequestsServed, PTL DEF Spec, RetagExact
-----------------------------------------------------------------------------
(* Every step of TaskStore is a step of TaskService or changes nothing of  *)
(* what it sees.                                                           *)

LEMMA Quiet == ASSUME UNCHANGED <<owner, links, req, did, reply>> PROVE UNCHANGED Service!vars
  BY DEF Service!vars

\* An answer that agrees with what the request has done, alone or with an effect.
LEMMA AnswerServes ==
    ASSUME NEW r \in Requests, NEW code \in {200, 201, 204, 400, 404, 500}, Answer(r, code),
           Service!Agrees(req[r], owner', did'[r], code)
    PROVE  Service!Answer(r)
  <1>1. reply' = [reply EXCEPT ![r] = code]
    BY DEF Answer
  <1>2. CASE code = 200
    BY <1>1, <1>2, SMT DEF Service!Answer
  <1>3. CASE code = 201
    BY <1>1, <1>3, SMT DEF Service!Answer
  <1>4. CASE code = 204
    BY <1>1, <1>4, SMT DEF Service!Answer
  <1>5. CASE code = 400
    BY <1>1, <1>5, SMT DEF Service!Answer
  <1>6. CASE code = 404
    BY <1>1, <1>6, SMT DEF Service!Answer
  <1>7. CASE code = 500
    BY <1>1, <1>7, SMT DEF Service!Answer
  <1>. QED BY <1>2, <1>3, <1>4, <1>5, <1>6, <1>7

LEMMA ReplyServes ==
    ASSUME NEW r \in Requests, NEW code \in {200, 201, 204, 400, 404, 500},
           reply[r] = 0, Answer(r, code), UNCHANGED <<owner, links, req, did>>,
           Service!Agrees(req[r], owner, did[r], code)
    PROVE  Service!Next
  <1>1. Service!Agrees(req[r], owner', did'[r], code)
    OBVIOUS
  <1>2. Service!Answer(r)
    BY <1>1, AnswerServes
  <1>. QED BY <1>2 DEF Service!Next, Service!Reply

LEMMA SameTags == ASSUME NEW tags PROVE Service!ToSet(tags) = ToSet(tags)
  BY DEF Service!ToSet, ToSet

LEMMA ReceiveServes == ASSUME RInv, NEW r \in Requests, Receive(r) PROVE Service!Next
  <1>1. req[r] = NoInput /\ reply[r] = 0
    BY DEF RInv, Served, DoneOK, Receive
  <1>2. (\E in \in Menu : req' = [req EXCEPT ![r] = in]) /\ UNCHANGED <<owner, links, did, reply>>
    BY DEF Receive, Goto, database
  <1>. QED BY <1>1, <1>2 DEF Service!Next, Service!Accept

LEMMA RejectServes == ASSUME RInv, NEW r \in Requests, Reject(r) PROVE Service!Next
  <1>1. did[r] = {} /\ reply[r] = 0
    BY DEF RInv, Served, DoneOK, Reject
  <1>. QED BY <1>1, ReplyServes DEF Reject, database, Service!Agrees

LEMMA ReadServes == ASSUME RInv, NEW r \in Requests, Read(r) PROVE Service!Next
  <1>. USE DEF RInv
  <1>1. /\ pc[r] = "read" /\ reply[r] = 0 /\ req[r] # NoInput /\ DoneOK(r) /\ TargetOK(r)
        /\ UNCHANGED <<owner, links, req, did>>
    BY RequestType DEF Read, database, Served, DoneOK, Resting
  <1>2. CASE req[r].op = "create"
    <2>1. Service!Agrees(req[r], owner, did[r], 201) /\ Service!Agrees(req[r], owner, did[r], 500)
      BY <1>1, <1>2 DEF DoneOK, Service!Agrees
    <2>2. Answer(r, 201) \/ Answer(r, 500)
      BY <1>2 DEF Read
    <2>. QED BY <1>1, <2>1, <2>2, ReplyServes
  <1>3. CASE req[r].op # "create"
    <2>. USE DEF Service!Names, Service!Mine
    <2>1. /\ req[r].op \in {"patch", "retag", "get"} /\ did[r] \subseteq {"fields", "tags"}
          /\ target[r] = req[r].id /\ target[r] \in Rows
      BY <1>1, <1>3, RequestType DEF DoneOK, TargetOK, Resting
    <2>2. ~Found(r) => Service!Agrees(req[r], owner, did[r], 404)
      BY <1>1, <2>1 DEF Found, Service!Agrees
    <2>3. Found(r) => Service!Agrees(req[r], owner, did[r], 200)
      BY <1>1, <2>1 DEF TargetOK, Found, Service!Agrees
    <2>4. (~Found(r) /\ Answer(r, 404)) \/ (Found(r) /\ Answer(r, 200))
      BY <1>3 DEF Read
    <2>. QED BY <1>1, <2>2, <2>3, <2>4, ReplyServes
  <1>. QED BY <1>2, <1>3

LEMMA RefusalsServe ==
    ASSUME RInv, NEW r \in Requests, DeleteMissing(r) \/ DuplicateTag(r)
    PROVE  Service!Next
  <1>. USE DEF RInv
  <1>1. CASE DeleteMissing(r)
    <2>1. /\ Answer(r, 404) /\ UNCHANGED <<owner, links, req, did>>
          /\ reply[r] = 0 /\ did[r] = {} /\ ~Found(r)
      BY <1>1 DEF DeleteMissing, Ready, database, Served, DoneOK
    <2>2. req[r] # NoInput /\ req[r].op = "delete" /\ target[r] = req[r].id /\ target[r] \in Rows
      BY <1>1, RequestType, TargetType DEF DeleteMissing, Ready, OpsAt, Resting, IInv
    <2>3. Service!Agrees(req[r], owner, did[r], 404)
      BY <2>1, <2>2 DEF Found, Service!Agrees, Service!Names, Service!Mine
    <2>. QED BY <2>1, <2>3, ReplyServes
  <1>2. CASE DuplicateTag(r)
    <2>1. /\ Answer(r, 500) /\ UNCHANGED <<owner, links, req, did>> /\ reply[r] = 0
      BY <1>2 DEF DuplicateTag, database, Served, DoneOK
    <2>. QED BY <2>1, ReplyServes DEF Service!Agrees
  <1>. QED BY <1>1, <1>2

LEMMA UpdateFieldsServes ==
    ASSUME RInv, NEW r \in Requests, UpdateFields(r)
    PROVE  Service!Next \/ UNCHANGED Service!vars
  <1>. USE DEF RInv
  <1>1. /\ pc[r] = "update" /\ UNCHANGED <<owner, links, req>>
        /\ did' = [did EXCEPT ![r] = @ \cup IF Found(r) THEN {"fields"} ELSE {}]
        /\ reply' = reply \/ Answer(r, 500)
    BY DEF UpdateFields, Ready, Note, Goto, database
  <1>2. /\ req[r].op \in {"patch", "retag"} /\ reply[r] = 0 /\ did[r] = {}
        /\ req[r] # NoInput /\ target[r] = req[r].id /\ Service!Agrees(req[r], owner', did'[r], 500)
    BY <1>1, RequestType DEF OpsAt, Resting, Served, DoneOK, Service!Agrees
  <1>3. CASE Found(r)
    <2>1. did' = [did EXCEPT ![r] = @ \cup {"fields"}]
      BY <1>1, <1>3
    <2>2. Service!Effect(r, "fields")
      BY <1>1, <1>2, <2>1, AnswerServes DEF Service!Effect
    <2>. QED BY <1>1, <1>2, <1>3, <2>2 DEF Found, Service!Mine, Service!Next, Service!SetFields
  <1>4. CASE ~Found(r)
    <2>1. did' = did
      BY <1>1, <1>4, RequestType
    <2>2. Service!Agrees(req[r], owner, did[r], 500)
      BY DEF Service!Agrees
    <2>. QED BY <1>1, <1>2, <2>1, <2>2, ReplyServes, Quiet
  <1>. QED BY <1>3, <1>4

LEMMA PublishServes ==
    ASSUME RInv, RetagsOwn, NEW r \in Requests, Commit(r), Publish(r)
    PROVE  Service!Next
  <1>. USE DEF RInv
  <1>1. /\ pc[r] = "commit" /\ tx[r] = "open" /\ req' = req
        /\ links' = (links \ work[r].del) \cup work[r].ins
        /\ owner' = IF work[r].new = NoRow THEN owner ELSE [owner EXCEPT ![work[r].new] = req[r].user]
        /\ did' = [did EXCEPT ![r] = @ \cup IF req[r].op = "create" THEN {"row"} ELSE {"tags"}]
        /\ reply' = reply \/ Answer(r, 500)
    BY DEF Commit, Publish, Apply, Note, Goto
  <1>2. /\ reply[r] = 0 /\ did[r] \subseteq {"fields"} /\ req[r] # NoInput /\ WithinOK(r) /\ Filling(r)
        /\ target[r] \in TaskIds /\ target[r] # NoRow /\ req[r].tags \in Seq(TagIds)
        /\ req[r].op \in {"create", "retag"} /\ Service!Agrees(req[r], owner', did'[r], 500)
    BY <1>1, FillingTarget, ConstantsAssumption DEF Served, DoneOK, Filling, Rows, Service!Agrees
  <1>3. ToSet(req[r].tags) \subseteq TagIds
    BY <1>2, TagsToSet
  <1>4. CASE req[r].op = "create"
    <2>1. /\ work[r].ins = {target[r]} \X ToSet(req[r].tags) /\ work[r].del = {}
          /\ work[r].new = target[r]
      BY <1>1, <1>2, <1>4, InsertedIs, FillingTarget DEF Asked, WithinOK
    <2>2. ToSet(req[r].tags) \subseteq Service!LiveTags
      <3>. SUFFICES ASSUME NEW g \in ToSet(req[r].tags) PROVE g \in TagIds /\ Live(g)
        BY DEF Service!LiveTags, Live
      <3>1. <<target[r], g>> \in work[r].ins
        BY <2>1
      <3>. QED BY <1>3, <3>1, InsertedIsLive
    <2>3. /\ owner[target[r]] = NoUser /\ owner' = [owner EXCEPT ![target[r]] = req[r].user]
          /\ links' = links \cup ({target[r]} \X ToSet(req[r].tags))
      BY <1>1, <1>2, <2>1 DEF IInv, LocksOK, IdsOK, Live
    <2>4. Service!Effect(r, "row")
      <3>1. did' = [did EXCEPT ![r] = @ \cup {"row"}] /\ "row" \notin did[r]
        BY <1>1, <1>2, <1>4
      <3>2. reply' = reply \/ Service!Answer(r)
        BY <1>1, <1>2, AnswerServes
      <3>. QED BY <1>1, <1>2, <3>1, <3>2 DEF Service!Effect
    <2>. QED BY <1>2, <1>4, <2>2, <2>3, <2>4, SameTags DEF Service!Next, Service!CreateTask
  <1>5. CASE req[r].op = "retag"
    <2>. DEFINE gone == work[r].del \cap LinksOf(target[r])
    <2>1. /\ work[r].ins \subseteq Asked(r) /\ \A l \in work[r].del : l[1] = target[r]
          /\ work[r].new = NoRow /\ target[r] = req[r].id
      BY <1>1, <1>2, <1>5, FillingTarget DEF WithinOK
    <2>2. links' = (links \ gone) \cup work[r].ins /\ owner' = owner
      BY <1>1, <2>1 DEF LinksOf
    <2>3. work[r].ins \subseteq {req[r].id} \X (ToSet(req[r].tags) \cap Service!LiveTags)
      <3>. SUFFICES ASSUME NEW l \in work[r].ins
                    PROVE  l \in {req[r].id} \X (ToSet(req[r].tags) \cap Service!LiveTags)
        OBVIOUS
      <3>1. l \in {req[r].id} \X ToSet(req[r].tags) /\ Live(l[2])
        BY <2>1, InsertedIsLive DEF Asked
      <3>. QED BY <1>3, <3>1 DEF Service!LiveTags, Live
    <2>4. gone \cup work[r].ins # {} => Service!Mine(owner, req[r])
      <3>1. work[r].ins # {} => owner[req[r].id] # NoUser
        BY <1>2, <2>1, InsertedIsLive DEF Asked, Live
      <3>2. gone # {} => owner[req[r].id] # NoUser
        BY <2>1 DEF LinksOf, IInv, ReferentialIntegrity, Live
      <3>3. owner[req[r].id] \in {req[r].user, NoUser}
        BY <1>2, <1>5 DEF RetagsOwn
      <3>. QED BY <3>1, <3>2, <3>3 DEF Service!Mine
    <2>5. Service!Effect(r, "tags")
      <3>1. did' = [did EXCEPT ![r] = @ \cup {"tags"}] /\ "tags" \notin did[r]
        BY <1>1, <1>2, <1>5
      <3>2. reply' = reply \/ Service!Answer(r)
        BY <1>1, <1>2, AnswerServes
      <3>. QED BY <1>1, <1>2, <3>1, <3>2 DEF Service!Effect
    <2>6. gone \in SUBSET Service!LinksOf(req[r].id)
      BY <2>1 DEF Service!LinksOf, LinksOf
    <2>. QED BY <1>2, <1>5, <2>2, <2>3, <2>4, <2>5, <2>6, SameTags DEF Service!Next, Service!ReplaceTags
  <1>. QED BY <1>2, <1>4, <1>5

LEMMA CascadeServes == ASSUME RInv, NEW r \in Requests, Cascade(r) PROVE Service!Next
  <1>. USE DEF RInv
  <1>1. /\ pc[r] = "cascade" /\ req' = req /\ links' = (links \ work[r].todo) \cup {}
        /\ owner' = [owner EXCEPT ![target[r]] = NoUser]
        /\ did' = [did EXCEPT ![r] = @ \cup {"gone"}]
        /\ Answer(r, 204) \/ Answer(r, 500)
    BY DEF Cascade, Ready, Apply, Note
  <1>2. /\ req[r].op = "delete" /\ req[r] # NoInput /\ target[r] = req[r].id
        /\ reply[r] = 0 /\ did[r] = {} /\ owner[target[r]] = req[r].user /\ target[r] # NoRow
        /\ \A l \in work[r].todo : target[r] \in {l[1], l[2]}
    BY <1>1, RequestType, ConstantsAssumption DEF OpsAt, Resting, Served, DoneOK, TargetOK, WithinOK
  <1>3. LinksOf(target[r]) \subseteq work[r].todo
    BY <1>1, <1>2 DEF IInv, ControlOK, WorkOK, LocksOK, ExclOK
  <1>4. links' = links \ Service!LinksOf(req[r].id)
    BY <1>1, <1>2, <1>3 DEF LinksOf, Service!LinksOf
  <1>5. Service!Agrees(req[r], owner', did'[r], 204) /\ Service!Agrees(req[r], owner', did'[r], 500)
    BY <1>1, RequestType DEF Service!Agrees
  <1>6. Service!Effect(r, "gone")
    <2>1. Service!Answer(r)
      <3>1. CASE Answer(r, 204)
        BY <1>5, <3>1, AnswerServes
      <3>2. CASE Answer(r, 500)
        BY <1>5, <3>2, AnswerServes
      <3>. QED BY <1>1, <3>1, <3>2
    <2>. QED BY <1>1, <1>2, <2>1 DEF Service!Effect
  <1>. QED BY <1>1, <1>2, <1>4, <1>6 DEF Service!Mine, Service!Next, Service!Delete

LEMMA InsertTagServes == ASSUME RInv, NEW r \in Requests, InsertTag(r) PROVE Service!Next
  <1>. USE DEF RInv
  <1>1. PICK g \in TagIds \ used : owner' = [owner EXCEPT ![g] = req[r].user]
    BY DEF InsertTag
  <1>2. /\ pc[r] = "insertTag" /\ links' = links /\ req' = req
        /\ did' = [did EXCEPT ![r] = @ \cup {"row"}] /\ (Answer(r, 201) \/ Answer(r, 500))
    BY DEF InsertTag, Note
  <1>3. req[r].op = "createTag" /\ req[r] # NoInput /\ reply[r] = 0 /\ did[r] = {}
    BY <1>2, RequestType DEF OpsAt, Resting, Served, DoneOK
  <1>4. owner[g] = NoUser
    BY <1>1 DEF IInv, LocksOK, IdsOK, Live, Rows
  <1>5. Service!Agrees(req[r], owner', did'[r], 201) /\ Service!Agrees(req[r], owner', did'[r], 500)
    BY <1>2, RequestType DEF Service!Agrees
  <1>6. Service!Effect(r, "row")
    BY <1>2, <1>3, <1>5, AnswerServes DEF Service!Effect
  <1>. QED BY <1>1, <1>2, <1>3, <1>4, <1>6 DEF Service!Next, Service!CreateTag

LEMMA FailServes ==
    ASSUME RInv, NEW r \in Requests, Fail(r), pc[r] \notin Resting
    PROVE  Service!Next \/ UNCHANGED Service!vars
  <1>1. UNCHANGED <<owner, links, req, did>> /\ (reply' = reply \/ Answer(r, 500))
    BY DEF Fail, Goto, database
  <1>2. reply[r] = 0
    BY DEF RInv, Served, DoneOK, Resting
  <1>. QED BY <1>1, <1>2, ReplyServes, Quiet DEF Service!Agrees

LEMMA QuietSteps ==
    ASSUME NEW r \in Requests,
           \/ Begin(r) \/ InsertTask(r) \/ Clear(r) \/ DeleteLinks(r) \/ Attach(r) \/ LockRow(r)
           \/ (Commit(r) /\ RollBack(r))
    PROVE  UNCHANGED Service!vars
  <1>1. Begin(r) \/ InsertTask(r) \/ Clear(r) => UNCHANGED <<owner, links, req, did, reply>>
    BY DEF Begin, InsertTask, Clear, Goto, database
  <1>2. DeleteLinks(r) \/ LockRow(r) => UNCHANGED <<owner, links, req, did, reply>>
    BY DEF DeleteLinks, LockRow, Goto, database
  <1>3. Attach(r) => UNCHANGED <<owner, links, req, did, reply>>
    BY DEF Attach, Goto, database
  <1>4. Commit(r) /\ RollBack(r) => UNCHANGED <<owner, links, req, did, reply>>
    BY DEF Commit, RollBack, Goto, database
  <1>. QED BY <1>1, <1>2, <1>3, <1>4, Quiet

LEMMA NextImplements == RInv /\ RetagsOwn /\ [Next]_vars => [Service!Next]_(Service!vars)
  <1>. SUFFICES ASSUME RInv, RetagsOwn, [Next]_vars PROVE Service!Next \/ UNCHANGED Service!vars
    OBVIOUS
  <1>1. CASE UNCHANGED vars \/ AllAnswered
    BY <1>1, Quiet DEF vars, AllAnswered
  <1>2. CASE Crash
    BY <1>2, Quiet DEF Crash, database
  <1>3. ASSUME NEW r \in Requests,
               Receive(r) \/ Reject(r) \/ Step(r) \/ DeadlockDetected(r) \/ StatementFails(r)
        PROVE  Service!Next \/ UNCHANGED Service!vars
    <2>1. AttachFails(r) \/ DeadlockDetected(r) \/ StatementFails(r)
            => Service!Next \/ UNCHANGED Service!vars
      BY FailuresFail, FailServes DEF RInv
    <2>2. Commit(r) => Service!Next \/ UNCHANGED Service!vars
      BY PublishServes, QuietSteps DEF Commit
    <2>. QED BY <1>3, <2>1, <2>2, ReceiveServes, RejectServes, ReadServes, RefusalsServe,
                UpdateFieldsServes, CascadeServes, InsertTagServes, QuietSteps DEF Step
  <1>. QED BY <1>1, <1>2, <1>3 DEF Next

LEMMA InitImplements == Init => Service!Init
  BY DEF Init, Service!Init

\* While nobody sends a list of tags for a task of another user (tasks.go:149 and 203 do not
\* look whose it is): whatever the interleaving of the statements, the locks, the deadlocks, the
\* failures and the crashes, the handlers of tasks.go keep what TaskService promises.  Each
\* effect of a request happens at one moment, at most once, and to the user's own rows; a 404
\* says that the row is not the user's, a 200 that it is and that its fields were written.
THEOREM Implementation == Spec /\ []RetagsOwn => ImplementsTaskService
  <1>1. RInv /\ RetagsOwn /\ [Next]_vars => [Service!Next]_Service!vars
    BY NextImplements
  <1>. QED BY <1>1, InitImplements, RequestsServed, PTL DEF Spec, ImplementsTaskService, Service!Spec
=============================================================================
