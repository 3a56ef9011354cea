-------------------------- MODULE ItemStoreProofs --------------------------
(***************************************************************************)
(* Proofs about ItemStore: the columns of a row agree, patches merge, a    *)
(* deleted row stays deleted, lists follow answers, and the statements     *)
(* implement ItemService, for any number of requests, rows and faults.     *)
(***************************************************************************)
EXTENDS ItemStore, TLAPS

Pending == {"sent", "running", "orphan"}

\* A request that has not succeeded yet has a plan and a clock of its own.
RequestsOK ==
    \A r \in Requests :
       /\ pc[r] \in {"idle", "sent", "running"} => reply[r] = 0
       /\ pc[r] = "orphan" => reply[r] \in {404, 500}
       /\ pc[r] \in Pending => req[r] \in Menu
       /\ pc[r] = "idle" => req[r] = NoInput
       /\ pc[r] \in {"running", "orphan"} => began[r] \in 0..MaxTime

\* Two creates have two ids, and an id is free until its row is inserted.
CreatesOK ==
    /\ \A r \in Requests, i \in Ids : pc[r] \in Pending /\ Creates(r, i) => i \notin used
    /\ \A r \in Requests, s \in Requests, i \in Ids : Creates(r, i) /\ Creates(s, i) => r = s

\* What a request has seen succeed has succeeded; it has not seen itself.
HistoryOK ==
    \A r \in Requests :
       /\ r \notin before[r]
       /\ \A s \in before[r] : Succeeded(s)

WritersOK == \A i \in Ids, f \in Fields : writer[i][f] # NoRequest => pc[writer[i][f]] = "done"

IInv == TypeOK /\ RequestsOK /\ CreatesOK /\ HistoryOK /\ WritersOK /\ DoneHasItsTime /\ PatchesMerge

-----------------------------------------------------------------------------
\* Nothing a request of the menu asks for is left out of the types.
LEMMA PatchIsRow ==
    ASSUME NEW in \in Menu, NEW i \in Ids, NEW old \in Row, NEW snapshot \in Row, NEW time \in 0..MaxTime,
           in.op = "patch", in.id = i
    PROVE  Patch(in, old, time, snapshot) \in Row
<1>1. in \in Inputs
  BY MenuAssumption
<1>2. in.title \in Titles \cup {Keep} /\ in.done \in BOOLEAN \cup {Keep} /\ in.id \in Ids
  BY <1>1 DEF Inputs
<1>3. old.title \in Titles /\ old.done \in BOOLEAN /\ old.stamp \in {NoTime} \cup 0..MaxTime
  BY DEF Row
<1>4. (IF in.title = Keep THEN old.title ELSE in.title) \in Titles
  BY <1>2, <1>3
<1>5. (IF in.done = Keep THEN old.done ELSE in.done) \in BOOLEAN
  BY <1>2, <1>3
<1>6. Stamp(in.id, old.stamp, in, time) \in {NoTime} \cup 0..MaxTime
  BY <1>3 DEF Stamp
<1>. QED BY <1>4, <1>5, <1>6 DEF Patch, Row

\* An item whose two columns agree has two columns that agree after a patch.
LEMMA PatchKeepsColumns ==
    ASSUME NEW in \in Menu, NEW old \in Row, NEW snapshot \in Row, NEW time \in 0..MaxTime,
           in.id \in Bucket, old.done <=> old.stamp # NoTime
    PROVE  LET new == Patch(in, old, time, snapshot) IN new.done <=> new.stamp # NoTime
<1>1. in.done \in BOOLEAN \cup {Keep} /\ in.id \notin Notes /\ Keep \notin BOOLEAN
  BY MenuAssumption, ConstantsAssumption DEF Inputs
<1>2. time # NoTime
  BY ConstantsAssumption DEF NoTime
<1>3. CASE in.done = TRUE
  BY <1>1, <1>2, <1>3 DEF Patch, Stamp
<1>4. CASE in.done = FALSE
  BY <1>1, <1>4 DEF Patch, Stamp
<1>5. CASE in.done = Keep
  <2>1. in.done # TRUE /\ in.done # FALSE
    BY <1>1, <1>5
  <2>. QED BY <1>1, <1>5, <2>1 DEF Patch, Stamp
<1>. QED BY <1>1, <1>3, <1>4, <1>5

\* A step that writes no row, and after which no other patch counts as a success.
LEMMA MergeKept ==
    ASSUME WritersOK, PatchesMerge, TypeOK, UNCHANGED <<row, writer>>,
           \A w \in Requests : pc[w] = "done" => req'[w] = req[w],
           \A r \in Requests : reply'[r] \in Successes /\ req'[r].op = "patch"
                                 => Succeeded(r) /\ req'[r] = req[r] /\ before'[r] = before[r]
    PROVE  PatchesMerge'
<1>. SUFFICES ASSUME NEW i \in Ids, NEW f \in Fields, row[i] # Absent
              PROVE  LET w == writer[i][f] IN
                     /\ w # NoRequest /\ req'[w].op = "patch" => row[i][f] = req'[w][f]
                     /\ \A r \in Requests :
                          reply'[r] \in Successes /\ req'[r].op = "patch" /\ req'[r].id = i /\ f \in Named(req'[r])
                            => w # NoRequest /\ w \notin before'[r]
  BY DEF PatchesMerge, Succeeded, Named
<1>1. writer[i][f] \in Requests \cup {NoRequest}
  BY DEF TypeOK
<1>2. writer[i][f] # NoRequest => req'[writer[i][f]] = req[writer[i][f]]
  BY <1>1 DEF WritersOK
<1>. QED BY <1>2 DEF PatchesMerge

LEMMA InitInv == Init => IInv
<1>. SUFFICES ASSUME Init PROVE IInv
  OBVIOUS
<1>. USE DEF Init
<1>1. TypeOK
  BY InitAssumption, ConstantsAssumption DEF TypeOK, NoTime
<1>2. RequestsOK /\ HistoryOK
  BY DEF RequestsOK, HistoryOK, Pending
<1>3. CreatesOK
  BY DEF CreatesOK, Creates
<1>4. WritersOK
  BY DEF WritersOK
<1>5. DoneHasItsTime
  BY InitAssumption DEF DoneHasItsTime, Ids
<1>6. PatchesMerge
  BY DEF PatchesMerge, Succeeded, Successes
<1>. QED BY <1>1, <1>2, <1>3, <1>4, <1>5, <1>6 DEF IInv

-----------------------------------------------------------------------------
\* The steps that leave the tables alone: one lemma for what they keep.
LEMMA QuietStep ==
    ASSUME IInv, TypeOK', UNCHANGED <<row, used, req, writer, before>>,
           NEW r \in Requests,
           \A s \in Requests \ {r} : /\ pc'[s] = pc[s] /\ reply'[s] = reply[s]
                                     /\ began'[s] = began[s],
           pc[r] # "done" /\ pc'[r] \in Pending \cup {"done"},
           pc[r] \in Pending \/ pc'[r] = "done",
           pc'[r] \in {"sent", "running"} => reply'[r] = 0,
           pc'[r] = "orphan" => reply'[r] \in {404, 500},
           pc'[r] \in {"running", "orphan"} => began'[r] \in 0..MaxTime,
           reply'[r] \in Successes => reply[r] = reply'[r] \/ req[r].op # "patch"
    PROVE  IInv'
<1>. USE DEF IInv
<1>1. RequestsOK'
  BY DEF RequestsOK, Pending
<1>2. CreatesOK'
  <2>1. \A s \in Requests : pc'[s] \in Pending => pc[s] \in Pending
    BY DEF Pending
  <2>. QED BY <2>1 DEF CreatesOK, Creates
<1>3. HistoryOK'
  <2>1. \A s \in Requests : Succeeded(s) => reply'[s] = reply[s]
    <3>1. Succeeded(r) => pc[r] = "done"
      BY DEF RequestsOK, Succeeded, Successes, TypeOK
    <3>. QED BY <3>1
  <2>. QED BY <2>1 DEF HistoryOK, Succeeded, TypeOK
<1>4. WritersOK'
  <2>1. \A s \in Requests : pc[s] = "done" => pc'[s] = "done"
    OBVIOUS
  <2>. QED BY <2>1 DEF WritersOK, TypeOK
<1>5. DoneHasItsTime'
  BY DEF DoneHasItsTime
<1>6. PatchesMerge'
  <2>1. \A s \in Requests : reply'[s] \in Successes /\ req'[s].op = "patch"
                              => Succeeded(s) /\ req'[s] = req[s] /\ before'[s] = before[s]
    BY DEF Succeeded
  <2>. QED BY <2>1, MergeKept
<1>. QED BY <1>1, <1>2, <1>3, <1>4, <1>5, <1>6

LEMMA TickInv == IInv /\ Tick => IInv'
<1>. SUFFICES ASSUME IInv, Tick PROVE IInv'
  OBVIOUS
<1>. USE DEF IInv, Tick
<1>1. now' \in 0..MaxTime
  BY ConstantsAssumption DEF TypeOK
<1>2. TypeOK'
  BY <1>1 DEF TypeOK
<1>3. RequestsOK' /\ CreatesOK' /\ HistoryOK' /\ WritersOK'
  BY DEF RequestsOK, CreatesOK, Creates, HistoryOK, WritersOK, Succeeded
<1>4. DoneHasItsTime' /\ PatchesMerge'
  BY DEF DoneHasItsTime, PatchesMerge, Succeeded, Named
<1>. QED BY <1>2, <1>3, <1>4

LEMMA StutterInv == IInv /\ UNCHANGED vars => IInv'
  BY DEF IInv, vars, TypeOK, RequestsOK, CreatesOK, Creates, HistoryOK, WritersOK, DoneHasItsTime,
         PatchesMerge, Succeeded, Named

LEMMA RejectInv == ASSUME NEW r \in Requests, IInv, Reject(r) PROVE IInv'
<1>. USE DEF Reject, Answer
<1>1. req[r] \in Menu \cup {NoInput} /\ (pc[r] \in Pending => req[r] \in Inputs)
  BY MenuAssumption DEF IInv, TypeOK, RequestsOK
<1>2. TypeOK'
  BY <1>1 DEF IInv, TypeOK, Pending, Inputs
<1>3. reply'[r] \in Successes => reply[r] = reply'[r] \/ req[r].op # "patch"
  BY DEF IInv, TypeOK, Successes
<1>. QED
  BY <1>2, <1>3, QuietStep DEF IInv, TypeOK, RequestsOK, Pending

LEMMA StartInv == ASSUME NEW r \in Requests, IInv, Start(r) PROVE IInv'
<1>. USE DEF Start
<1>1. req[r] \in Menu \cup {NoInput} /\ (pc[r] \in Pending => req[r] \in Inputs)
  BY MenuAssumption DEF IInv, TypeOK, RequestsOK
<1>2. TypeOK'
  BY <1>1 DEF IInv, TypeOK, Pending, Inputs
<1>3. reply'[r] \in Successes => reply[r] = reply'[r] \/ req[r].op # "patch"
  BY DEF IInv, TypeOK, Successes
<1>. QED
  BY <1>2, <1>3, QuietStep DEF IInv, TypeOK, RequestsOK, Pending

LEMMA UpdateMissingInv == ASSUME NEW r \in Requests, IInv, UpdateMissing(r) PROVE IInv'
<1>. USE DEF UpdateMissing, Running, Answer
<1>1. req[r] \in Menu \cup {NoInput} /\ (pc[r] \in Pending => req[r] \in Inputs)
  BY MenuAssumption DEF IInv, TypeOK, RequestsOK
<1>2. TypeOK'
  BY <1>1 DEF IInv, TypeOK, Pending, Inputs
<1>3. reply'[r] \in Successes => reply[r] = reply'[r] \/ req[r].op # "patch"
  BY DEF IInv, TypeOK, Successes
<1>. QED
  BY <1>2, <1>3, QuietStep DEF IInv, TypeOK, RequestsOK, Pending

LEMMA GetInv == ASSUME NEW r \in Requests, IInv, Get(r) PROVE IInv'
<1>. USE DEF Get, Running, Answer
<1>1. req[r] \in Menu \cup {NoInput} /\ (pc[r] \in Pending => req[r] \in Inputs)
  BY MenuAssumption DEF IInv, TypeOK, RequestsOK
<1>2. TypeOK'
  BY <1>1 DEF IInv, TypeOK, Pending, Inputs
<1>3. reply'[r] \in Successes => reply[r] = reply'[r] \/ req[r].op # "patch"
  BY DEF IInv, TypeOK, Successes
<1>. QED
  BY <1>2, <1>3, QuietStep DEF IInv, TypeOK, RequestsOK, Pending

LEMMA StatementFailsInv == ASSUME NEW r \in Requests, IInv, StatementFails(r) PROVE IInv'
<1>. USE DEF StatementFails, Answer, Fault, CodeOfFailure
<1>1. req[r] \in Menu \cup {NoInput} /\ (pc[r] \in Pending => req[r] \in Inputs)
  BY MenuAssumption DEF IInv, TypeOK, RequestsOK
<1>2. TypeOK'
  <2>1. faults' \in 0..MaxFaults
    BY ConstantsAssumption DEF IInv, TypeOK
  <2>. QED BY <1>1, <2>1 DEF IInv, TypeOK, Pending, Inputs
<1>3. reply'[r] \in Successes => reply[r] = reply'[r] \/ req[r].op # "patch"
  BY DEF IInv, TypeOK, Successes
<1>. QED
  BY <1>2, <1>3, QuietStep DEF IInv, TypeOK, RequestsOK, Pending

LEMMA CutOffInv == ASSUME NEW r \in Requests, IInv, CutOff(r) PROVE IInv'
<1>. USE DEF CutOff, Fault, CodeOfFailure
<1>1. req[r] \in Menu \cup {NoInput} /\ (pc[r] \in Pending => req[r] \in Inputs)
  BY MenuAssumption DEF IInv, TypeOK, RequestsOK
<1>2. TypeOK'
  <2>1. faults' \in 0..MaxFaults
    BY ConstantsAssumption DEF IInv, TypeOK
  <2>. QED BY <1>1, <2>1 DEF IInv, TypeOK, Pending, Inputs
<1>3. reply'[r] \in Successes => reply[r] = reply'[r] \/ req[r].op # "patch"
  BY DEF IInv, TypeOK, Successes
<1>. QED
  BY <1>2, <1>3, QuietStep DEF IInv, TypeOK, RequestsOK, Pending

LEMMA OrphanCancelledInv == ASSUME NEW r \in Requests, IInv, OrphanCancelled(r) PROVE IInv'
<1>. USE DEF OrphanCancelled
<1>1. req[r] \in Menu \cup {NoInput} /\ (pc[r] \in Pending => req[r] \in Inputs)
  BY MenuAssumption DEF IInv, TypeOK, RequestsOK
<1>2. TypeOK'
  BY <1>1 DEF IInv, TypeOK, Pending, Inputs
<1>3. reply'[r] \in Successes => reply[r] = reply'[r] \/ req[r].op # "patch"
  BY DEF IInv, TypeOK, Successes
<1>. QED
  BY <1>2, <1>3, QuietStep DEF IInv, TypeOK, RequestsOK, Pending

-----------------------------------------------------------------------------
\* A request is sent: it remembers who has succeeded, and it has not itself.
LEMMA ReceiveInv == ASSUME NEW r \in Requests, IInv, Receive(r) PROVE IInv'
<1>. USE DEF IInv
<1>1. PICK in \in Menu :
         /\ in.op = "create" => in.id \notin used /\ ~\E s \in Requests : Creates(s, in.id)
         /\ req' = [req EXCEPT ![r] = in]
  BY DEF Receive
<1>2. /\ pc[r] = "idle" /\ pc' = [pc EXCEPT ![r] = "sent"] /\ reply[r] = 0
      /\ before' = [before EXCEPT ![r] = {s \in Requests : Succeeded(s)}]
      /\ UNCHANGED <<row, used, now, seen, began, reply, writer, faults>>
  BY DEF Receive, RequestsOK
<1>3. in \in Inputs /\ in # NoInput
  BY MenuAssumption, ConstantsAssumption
<1>4. TypeOK'
  BY <1>1, <1>2 DEF TypeOK
<1>5. RequestsOK'
  BY <1>1, <1>2 DEF RequestsOK, Pending, TypeOK
<1>6. CreatesOK'
  <2>1. req' \in [Requests -> Menu \cup {NoInput}] /\ req'[r] = in /\ \A s \in Requests \ {r} : req'[s] = req[s]
    BY <1>1 DEF TypeOK
  <2>2. ASSUME NEW s \in Requests, NEW i \in Ids, pc'[s] \in Pending, req'[s] # NoInput, req'[s].op = "create", req'[s].id = i
        PROVE  i \notin used
    <3>1. CASE s = r
      BY <1>1, <2>1, <2>2, <3>1
    <3>2. CASE s # r
      BY <1>2, <2>1, <2>2, <3>2 DEF CreatesOK, Creates, TypeOK
    <3>. QED BY <3>1, <3>2
  <2>3. ASSUME NEW s \in Requests, NEW q \in Requests, NEW i \in Ids, req'[s] # NoInput, req'[s].op = "create",
               req'[s].id = i, req'[q] # NoInput, req'[q].op = "create", req'[q].id = i
        PROVE  s = q
    BY <1>1, <2>1, <2>3 DEF CreatesOK, Creates
  <2>. QED BY <1>2, <2>2, <2>3 DEF CreatesOK, Creates
<1>7. HistoryOK'
  BY <1>2 DEF HistoryOK, Succeeded, Successes, TypeOK
<1>8. WritersOK'
  <2>1. \A s \in Requests : pc[s] = "done" => pc'[s] = "done"
    BY <1>2 DEF TypeOK
  <2>. QED BY <1>2, <2>1 DEF WritersOK, TypeOK
<1>9. DoneHasItsTime'
  BY <1>2 DEF DoneHasItsTime
<1>10. PatchesMerge'
  <2>1. \A w \in Requests : pc[w] = "done" => req'[w] = req[w]
    BY <1>1, <1>2 DEF TypeOK
  <2>2. \A s \in Requests : reply'[s] \in Successes => Succeeded(s) /\ s # r
    BY <1>2 DEF Succeeded, Successes
  <2>. QED BY <1>1, <1>2, <2>1, <2>2, MergeKept DEF TypeOK
<1>. QED BY <1>4, <1>5, <1>6, <1>7, <1>8, <1>9, <1>10

-----------------------------------------------------------------------------
\* What the statements that write have in common: r was running and ends; no one
\* has seen it succeed.
LEMMA WritingStep ==
    ASSUME IInv, NEW r \in Requests, pc[r] \in {"running", "orphan"},
           pc' = [pc EXCEPT ![r] = "done"], UNCHANGED <<req, began, before>>,
           \A s \in Requests \ {r} : reply'[s] = reply[s],
           used' = used \/ \E i \in Ids : Creates(r, i) /\ used' = used \cup {i}
    PROVE  /\ RequestsOK' /\ CreatesOK' /\ HistoryOK'
           /\ \A s \in Requests : r \notin before[s]
<1>. USE DEF IInv
<1>1. RequestsOK'
  BY DEF RequestsOK, Pending, TypeOK
<1>2. CreatesOK'
  BY DEF CreatesOK, Creates, Pending, TypeOK
<1>3. ~Succeeded(r)
  BY DEF RequestsOK, Succeeded, Successes
<1>4. \A s \in Requests : r \notin before[s]
  BY <1>3 DEF HistoryOK
<1>5. HistoryOK'
  BY <1>4 DEF HistoryOK, Succeeded, TypeOK
<1>. QED BY <1>1, <1>2, <1>4, <1>5

LEMMA CreateInv == ASSUME NEW r \in Requests, IInv, Create(r) PROVE IInv'
<1>. DEFINE i == req[r].id
<1>. USE DEF IInv
<1>1. /\ pc[r] \in {"running", "orphan"} /\ req[r] \in Menu /\ req[r].op = "create" /\ req[r] # NoInput
      /\ began[r] \in 0..MaxTime
  BY MenuAssumption, ConstantsAssumption DEF Create, Running, RequestsOK, Pending
<1>2. i \in Ids /\ req[r].title \in Titles
  BY <1>1, MenuAssumption DEF Inputs
<1>3. Creates(r, i)
  BY <1>1 DEF Creates
<1>4. /\ pc' = [pc EXCEPT ![r] = "done"] /\ used' = used \cup {i}
      /\ writer' = [writer EXCEPT ![i] = [f \in Fields |-> r]]
      /\ UNCHANGED <<now, req, seen, began, before, faults>>
      /\ reply' = IF pc[r] = "orphan" THEN reply ELSE [reply EXCEPT ![r] = 201]
  BY DEF Create, Answer, Wrote
<1>5. PICK new \in Row : row' = [row EXCEPT ![i] = new] /\ (i \in Bucket => ~new.done /\ new.stamp = NoTime)
  <2>. DEFINE it == [title |-> req[r].title, done |-> FALSE,
                     stamp |-> IF i \in Bucket THEN NoTime ELSE began[r]]
  <2>1. row' = [row EXCEPT ![i] = it]
    BY DEF Create
  <2>2. it \in Row
    BY <1>1, <1>2 DEF Row
  <2>. QED BY <2>1, <2>2
<1>6. TypeOK'
  BY <1>1, <1>2, <1>4, <1>5 DEF TypeOK
<1>7. RequestsOK' /\ CreatesOK' /\ HistoryOK' /\ \A s \in Requests : r \notin before[s]
  BY <1>1, <1>2, <1>3, <1>4, WritingStep DEF TypeOK
<1>8. WritersOK'
  BY <1>2, <1>4 DEF WritersOK, TypeOK
<1>9. DoneHasItsTime'
  BY <1>2, <1>5 DEF DoneHasItsTime, TypeOK, Ids
<1>10. PatchesMerge'
  <2>. SUFFICES ASSUME NEW x \in Ids, NEW f \in Fields, row'[x] # Absent
                PROVE  LET w == writer'[x][f] IN
                       /\ w # NoRequest /\ req[w].op = "patch" => row'[x][f] = req[w][f]
                       /\ \A q \in Requests :
                            reply'[q] \in Successes /\ req[q].op = "patch" /\ req[q].id = x /\ f \in Named(req[q])
                              => w # NoRequest /\ w \notin before[q]
    BY <1>4 DEF PatchesMerge, Succeeded, Named
  <2>1. CASE x = i
    <3>1. writer'[x][f] = r
      BY <1>2, <1>4, <2>1 DEF TypeOK
    <3>. QED BY <1>1, <1>7, <3>1, ConstantsAssumption
  <2>2. CASE x # i
    <3>1. writer'[x][f] = writer[x][f] /\ row'[x] = row[x]
      BY <1>2, <1>4, <1>5, <2>2 DEF TypeOK
    <3>2. \A q \in Requests : reply'[q] \in Successes /\ req[q].op = "patch" => Succeeded(q)
      BY <1>1, <1>4 DEF TypeOK, Succeeded
    <3>. QED BY <3>1, <3>2 DEF PatchesMerge
  <2>. QED BY <2>1, <2>2
<1>. QED BY <1>6, <1>7, <1>8, <1>9, <1>10

LEMMA UpdateInv == ASSUME NEW r \in Requests, IInv, Update(r) PROVE IInv'
<1>. DEFINE i == req[r].id
            new == Patch(req[r], row[i], began[r], seen[r])
<1>. USE DEF IInv
<1>1. /\ pc[r] \in {"running", "orphan"} /\ req[r] \in Menu /\ req[r].op = "patch"
      /\ began[r] \in 0..MaxTime
  BY DEF Update, Running, RequestsOK, Pending
<1>2. i \in Ids
  BY <1>1, MenuAssumption DEF Inputs
<1>3. row[i] \in Row /\ seen[r] \in Row
  BY <1>2 DEF Update, TypeOK
<1>4. /\ pc' = [pc EXCEPT ![r] = "done"] /\ row' = [row EXCEPT ![i] = new]
      /\ writer' = [writer EXCEPT ![i] = [f \in Fields |-> IF f \in Named(req[r]) THEN r ELSE @[f]]]
      /\ UNCHANGED <<used, now, req, seen, began, before, faults>>
      /\ reply' = IF pc[r] = "orphan" THEN reply ELSE [reply EXCEPT ![r] = 200]
  BY DEF Update, Answer, Wrote
<1>5. new \in Row
  BY <1>1, <1>2, <1>3, PatchIsRow
<1>6. TypeOK'
  BY <1>1, <1>2, <1>4, <1>5 DEF TypeOK
<1>7. RequestsOK' /\ CreatesOK' /\ HistoryOK' /\ \A s \in Requests : r \notin before[s]
  BY <1>1, <1>2, <1>4, WritingStep DEF TypeOK
<1>8. WritersOK'
  BY <1>2, <1>4 DEF WritersOK, TypeOK
<1>9. DoneHasItsTime'
  <2>. SUFFICES ASSUME NEW x \in Bucket, row'[x] # Absent PROVE row'[x].done <=> row'[x].stamp # NoTime
    BY DEF DoneHasItsTime
  <2>1. CASE x = i
    <3>1. row[i] # Absent /\ (row[i].done <=> row[i].stamp # NoTime)
      BY <2>1 DEF Update, DoneHasItsTime
    <3>2. new.done <=> new.stamp # NoTime
      BY <1>1, <1>3, <2>1, <3>1, PatchKeepsColumns
    <3>. QED BY <1>2, <1>4, <2>1, <3>2 DEF TypeOK
  <2>2. CASE x # i
    BY <1>2, <1>4, <2>2 DEF DoneHasItsTime, TypeOK, Ids
  <2>. QED BY <2>1, <2>2
<1>10. PatchesMerge'
  <2>. SUFFICES ASSUME NEW x \in Ids, NEW f \in Fields, row'[x] # Absent
                PROVE  LET w == writer'[x][f] IN
                       /\ w # NoRequest /\ req[w].op = "patch" => row'[x][f] = req[w][f]
                       /\ \A q \in Requests :
                            reply'[q] \in Successes /\ req[q].op = "patch" /\ req[q].id = x /\ f \in Named(req[q])
                              => w # NoRequest /\ w \notin before[q]
    BY <1>4 DEF PatchesMerge, Succeeded, Named
  <2>1. CASE x = i /\ f \in Named(req[r])
    <3>1. writer'[x][f] = r
      BY <1>2, <1>4, <2>1 DEF TypeOK
    <3>2. row'[x][f] = req[r][f]
      BY <1>2, <1>4, <2>1 DEF TypeOK, Patch, Named, Fields
    <3>. QED BY <1>7, <3>1, <3>2, ConstantsAssumption
  <2>2. CASE ~(x = i /\ f \in Named(req[r]))
    <3>1. writer'[x][f] = writer[x][f]
      BY <1>2, <1>4, <2>2 DEF TypeOK
    <3>2. row[x] # Absent /\ row'[x][f] = row[x][f]
      BY <1>2, <1>4, <2>2 DEF Update, TypeOK, Patch, Named, Fields
    <3>3. \A q \in Requests : reply'[q] \in Successes /\ req[q].op = "patch" /\ req[q].id = x /\ f \in Named(req[q])
                                => Succeeded(q)
      BY <1>4, <2>2 DEF TypeOK, Succeeded
    <3>. QED BY <3>1, <3>2, <3>3 DEF PatchesMerge
  <2>. QED BY <2>1, <2>2
<1>. QED BY <1>6, <1>7, <1>8, <1>9, <1>10

LEMMA DeleteInv == ASSUME NEW r \in Requests, IInv, Delete(r) PROVE IInv'
<1>. USE DEF IInv
<1>1. pc[r] \in {"running", "orphan"} /\ req[r].op = "delete"
  BY DEF Delete, Running
<1>2. /\ pc' = [pc EXCEPT ![r] = "done"]
      /\ UNCHANGED <<used, now, req, seen, began, writer, before, faults>>
      /\ reply' \in [Requests -> {0, 200, 201, 204, 400, 404, 500}]
      /\ \A s \in Requests \ {r} : reply'[s] = reply[s]
  BY DEF Delete, Answer, TypeOK
<1>3. row' \in [Ids -> Row \cup {Absent}] /\ \A i \in Ids : row'[i] \in {row[i], Absent}
  <2>1. row' = row \/ row' = [row EXCEPT ![req[r].id] = Absent]
    BY DEF Delete
  <2>. QED BY <2>1 DEF TypeOK
<1>4. TypeOK'
  BY <1>2, <1>3 DEF TypeOK
<1>5. RequestsOK' /\ CreatesOK' /\ HistoryOK'
  BY <1>1, <1>2, WritingStep
<1>6. WritersOK'
  BY <1>2 DEF WritersOK, TypeOK
<1>7. DoneHasItsTime'
  BY <1>3 DEF DoneHasItsTime, Ids
<1>8. PatchesMerge'
  <2>1. \A q \in Requests : reply'[q] \in Successes /\ req[q].op = "patch" => Succeeded(q)
    BY <1>1, <1>2 DEF Succeeded
  <2>. QED BY <1>2, <1>3, <2>1 DEF PatchesMerge, Succeeded, Named
<1>. QED BY <1>4, <1>5, <1>6, <1>7, <1>8

LEMMA NextInv == IInv /\ [Next]_vars => IInv'
<1>1. ASSUME IInv, Next PROVE IInv'
  <2>1. CASE Tick
    BY <1>1, <2>1, TickInv
  <2>2. ASSUME NEW r \in Requests,
               \/ Receive(r) \/ Reject(r) \/ Start(r)
               \/ Create(r) \/ Update(r) \/ UpdateMissing(r) \/ Delete(r) \/ Get(r)
               \/ StatementFails(r) \/ CutOff(r) \/ OrphanCancelled(r)
        PROVE  IInv'
    BY <1>1, <2>2, ReceiveInv, RejectInv, StartInv, CreateInv, UpdateInv, UpdateMissingInv, DeleteInv,
       GetInv, StatementFailsInv, CutOffInv, OrphanCancelledInv
  <2>3. CASE AllAnswered
    BY <1>1, <2>3, StutterInv DEF AllAnswered
  <2>. QED BY <1>1, <2>1, <2>2, <2>3 DEF Next
<1>. QED BY <1>1, StutterInv

\* IInv is inductive.
THEOREM Invariance == Spec => []IInv
<1>. QED BY InitInv, NextInv, PTL DEF Spec

-----------------------------------------------------------------------------
\* The values of the variables stay in their types.
THEOREM TypeCorrect == Spec => []TypeOK
<1>1. IInv => TypeOK
  BY DEF IInv
<1>. QED BY <1>1, Invariance, PTL

\* is_done and completed_at agree in every item, whatever statements overlap.
THEOREM ColumnsAgree == Spec => []DoneHasItsTime
<1>1. IInv => DoneHasItsTime
  BY DEF IInv
<1>. QED BY <1>1, Invariance, PTL

\* Patches of different fields merge, and none undoes one that succeeded before
\* it was sent.
THEOREM NoPatchIsLost == Spec => []PatchesMerge
<1>1. IInv => PatchesMerge
  BY DEF IInv
<1>. QED BY <1>1, Invariance, PTL

\* A row that was there and is not stays away in every step.
Kept == \A i \in Ids : row[i] = Absent /\ i \in used => row'[i] = Absent

LEMMA GoneStays == IInv /\ [Next]_vars => [Kept]_vars
<1>1. ASSUME IInv, Next PROVE Kept
  <2>. USE DEF Kept
  <2>1. ASSUME NEW r \in Requests, Create(r) PROVE Kept
    <3>1. req[r] \in Menu /\ pc[r] \in Pending /\ req[r].op = "create" /\ req[r] # NoInput
      BY <1>1, <2>1, MenuAssumption, ConstantsAssumption DEF IInv, RequestsOK, Create, Running, Pending
    <3>2. req[r].id \in Ids /\ req[r].id \notin used
      BY <1>1, <3>1, MenuAssumption DEF IInv, CreatesOK, Creates, Inputs
    <3>. QED BY <1>1, <2>1, <3>2 DEF Create, IInv, TypeOK
  <2>2. ASSUME NEW r \in Requests, Update(r) PROVE Kept
    <3>1. \A i \in Ids : row[i] = Absent => i # req[r].id
      BY <2>2 DEF Update
    <3>. QED BY <1>1, <2>2, <3>1 DEF Update, IInv, TypeOK
  <2>3. ASSUME NEW r \in Requests, Delete(r) PROVE Kept
    BY <1>1, <2>3 DEF Delete, IInv, TypeOK
  <2>4. ASSUME UNCHANGED row PROVE Kept
    BY <2>4
  <2>. QED BY <1>1, <2>1, <2>2, <2>3, <2>4
         DEF Next, Tick, Receive, Reject, Start, UpdateMissing, Get, StatementFails, CutOff,
             OrphanCancelled, AllAnswered, vars
<1>. QED BY <1>1

\* No interleaving brings a deleted row back.
THEOREM DeletedStaysDeleted == Spec => DeletedForGood
<1>1. IInv /\ [Next]_vars => [\A i \in Ids : row[i] = Absent /\ i \in used => row'[i] = Absent]_vars
  BY GoneStays DEF Kept
<1>. QED BY <1>1, Invariance, PTL DEF Spec, DeletedForGood

-----------------------------------------------------------------------------
\* A statement that was sent after the answer of another starts no earlier.
TimesOK ==
    \A r \in Requests :
       /\ began[r] <= now
       /\ pc[r] \in {"idle", "sent"} => began[r] = NoTime
       /\ began[r] # NoTime => \A s \in before[r] : began[s] <= began[r]

\* The place of a note is the start of the statement that wrote its text.
StampsOK ==
    \A i \in Notes : row[i] # Absent /\ writer[i]["title"] # NoRequest =>
       /\ began[writer[i]["title"]] # NoTime
       /\ Untitled(i) \/ row[i].stamp = began[writer[i]["title"]]

\* A request is planned once, so a row that was patched without a field stays one.
LEMMA UntitledStays ==
    ASSUME IInv, \A r \in Requests : req[r] # NoInput => req'[r] = req[r], NEW i \in Notes, Untitled(i)
    PROVE  Untitled(i)'
BY DEF Untitled, Named

LEMMA TimesStep == IInv /\ TimesOK /\ [Next]_vars => TimesOK'
<1>. SUFFICES ASSUME IInv, TimesOK, [Next]_vars PROVE TimesOK'
  OBVIOUS
<1>. USE DEF IInv
<1>t. /\ now \in Int /\ NoTime \in Int /\ NoTime < now
      /\ \A r \in Requests : began[r] \in Int /\ before[r] \subseteq Requests
  BY ConstantsAssumption DEF TypeOK, NoTime
<1>1. CASE Tick
  BY <1>1, <1>t DEF Tick, TimesOK
<1>2. ASSUME NEW r \in Requests, Receive(r) PROVE TimesOK'
  <2>1. /\ UNCHANGED <<now, began>> /\ pc[r] = "idle"
        /\ pc' \in [Requests -> {"idle", "sent", "running", "orphan", "done"}]
        /\ \A q \in Requests \ {r} : pc'[q] = pc[q] /\ before'[q] = before[q]
    BY <1>2 DEF Receive, TypeOK
  <2>. QED BY <2>1 DEF TimesOK
<1>3. ASSUME NEW r \in Requests, Start(r) PROVE TimesOK'
  <2>1. /\ UNCHANGED <<now, before>> /\ began'[r] = now /\ pc'[r] = "running"
        /\ \A q \in Requests \ {r} : pc'[q] = pc[q] /\ began'[q] = began[q]
    BY <1>3 DEF Start, TypeOK
  <2>2. \A q \in Requests : r \notin before[q]
    BY <1>3 DEF Start, HistoryOK, RequestsOK, Succeeded, Successes
  <2>3. \A q \in Requests : \A s \in before[q] : began'[s] = began[s]
    BY <1>t, <2>1, <2>2
  <2>. QED BY <1>t, <2>1, <2>3 DEF TimesOK
<1>4. ASSUME UNCHANGED <<now, began, before>>,
             \A q \in Requests : pc'[q] \in {"idle", "sent"} => pc'[q] = pc[q]
      PROVE  TimesOK'
  BY <1>4 DEF TimesOK
<1>5. ASSUME NEW r \in Requests,
             \/ Reject(r) \/ Create(r) \/ Update(r) \/ UpdateMissing(r) \/ Delete(r) \/ Get(r)
             \/ StatementFails(r) \/ CutOff(r) \/ OrphanCancelled(r)
      PROVE  TimesOK'
  <2>1. UNCHANGED <<now, began, before>>
    BY <1>5 DEF Reject, Create, Update, UpdateMissing, Delete, Get, StatementFails, CutOff, OrphanCancelled
  <2>2. pc' = [pc EXCEPT ![r] = "done"] \/ pc' = [pc EXCEPT ![r] = "orphan"]
    BY <1>5 DEF Reject, Create, Update, UpdateMissing, Delete, Get, StatementFails, CutOff, OrphanCancelled, Answer
  <2>. QED BY <1>4, <2>1, <2>2 DEF TypeOK
<1>6. CASE UNCHANGED vars
  BY <1>4, <1>6 DEF vars
<1>. QED BY <1>1, <1>2, <1>3, <1>5, <1>6 DEF Next, AllAnswered

LEMMA StampsStep == IInv /\ TimesOK /\ StampsOK /\ [Next]_vars => StampsOK'
<1>. SUFFICES ASSUME IInv, TimesOK, StampsOK, [Next]_vars,
                     NEW i \in Notes, row'[i] # Absent, writer'[i]["title"] # NoRequest
              PROVE  /\ began'[writer'[i]["title"]] # NoTime
                     /\ Untitled(i)' \/ row'[i].stamp = began'[writer'[i]["title"]]
  BY DEF StampsOK
<1>. USE DEF IInv
<1>t. i \in Ids /\ "title" \in Fields /\ writer[i]["title"] \in Requests \cup {NoRequest}
  BY DEF Ids, Fields, TypeOK
<1>1. ASSUME row'[i] = row[i] \/ row'[i] = Absent, UNCHANGED writer,
             \A q \in Requests : req[q] # NoInput => req'[q] = req[q],
             \A q \in Requests : pc[q] = "done" => began'[q] = began[q]
      PROVE  /\ began'[writer'[i]["title"]] # NoTime
             /\ Untitled(i)' \/ row'[i].stamp = began'[writer'[i]["title"]]
  <2>1. row[i] # Absent /\ writer[i]["title"] # NoRequest /\ row'[i] = row[i]
    BY <1>1
  <2>2. began'[writer[i]["title"]] = began[writer[i]["title"]]
    BY <1>t, <1>1, <2>1 DEF WritersOK
  <2>. QED BY <1>1, <2>1, <2>2, UntitledStays DEF StampsOK
<1>2. ASSUME NEW r \in Requests, Receive(r) PROVE UNCHANGED <<row, writer, began>> /\
                                                  \A q \in Requests : req[q] # NoInput => req'[q] = req[q]
  BY <1>2 DEF Receive, RequestsOK, TypeOK
<1>3. ASSUME NEW r \in Requests, Start(r)
      PROVE  UNCHANGED <<row, writer, req>> /\ \A q \in Requests : pc[q] = "done" => began'[q] = began[q]
  BY <1>3 DEF Start, TypeOK
<1>4. ASSUME NEW r \in Requests, Delete(r)
      PROVE  UNCHANGED <<writer, req, began>> /\ (row'[i] = row[i] \/ row'[i] = Absent)
  BY <1>4 DEF Delete, TypeOK
<1>5. ASSUME NEW r \in Requests, Create(r)
      PROVE  /\ began'[writer'[i]["title"]] # NoTime
             /\ Untitled(i)' \/ row'[i].stamp = began'[writer'[i]["title"]]
  <2>1. pc[r] \in {"running", "orphan"} /\ began[r] # NoTime /\ UNCHANGED <<req, began>>
    BY <1>5 DEF Create, Running, RequestsOK, NoTime
  <2>2. CASE req[r].id = i
    <3>1. i \notin Bucket
      BY ConstantsAssumption
    <3>2. writer'[i]["title"] = r /\ row'[i].stamp = began[r]
      BY <1>5, <1>t, <2>2, <3>1 DEF Create, Wrote, TypeOK
    <3>. QED BY <2>1, <3>2
  <2>3. CASE req[r].id # i
    <3>1. row'[i] = row[i] /\ writer'[i] = writer[i]
      BY <1>5, <1>t, <2>3 DEF Create, Wrote, TypeOK
    <3>2. Untitled(i) => Untitled(i)'
      BY <2>1, UntitledStays
    <3>. QED BY <2>1, <3>1, <3>2 DEF StampsOK
  <2>. QED BY <2>2, <2>3
<1>6. ASSUME NEW r \in Requests, Update(r)
      PROVE  /\ began'[writer'[i]["title"]] # NoTime
             /\ Untitled(i)' \/ row'[i].stamp = began'[writer'[i]["title"]]
  <2>1. /\ pc[r] \in {"running", "orphan"} /\ began[r] # NoTime /\ UNCHANGED <<req, began>>
        /\ req[r] \in Menu /\ req[r] # NoInput /\ req[r].op = "patch"
    BY <1>6, MenuAssumption, ConstantsAssumption DEF Update, Running, RequestsOK, Pending, NoTime
  <2>2. Untitled(i) => Untitled(i)'
    BY <2>1, UntitledStays
  <2>3. CASE req[r].id = i /\ req[r].title # Keep
    <3>1. "title" \in Named(req[r])
      BY <2>3 DEF Named, Fields
    <3>2. writer'[i]["title"] = r
      BY <1>6, <1>t, <2>3, <3>1 DEF Update, Wrote, TypeOK
    <3>3. row'[i].stamp = Stamp(i, row[i].stamp, req[r], began[r])
      BY <1>6, <1>t, <2>3 DEF Update, Patch, TypeOK
    <3>4. req[r].done # TRUE /\ req[r].done # FALSE
      BY <2>1, <2>3, MenuAssumption, ConstantsAssumption
    <3>5. Stamp(i, row[i].stamp, req[r], began[r]) = began[r]
      BY <3>4 DEF Stamp
    <3>. QED BY <2>1, <3>2, <3>3, <3>5
  <2>4. CASE req[r].id = i /\ req[r].title = Keep
    <3>1. req[r].done = Keep
      BY <2>1, <2>4, MenuAssumption
    <3>2. Named(req[r]) = {}
      BY <2>4, <3>1 DEF Named, Fields
    <3>3. Untitled(i)'
      BY <2>1, <2>4, <3>2 DEF Untitled, Named
    <3>4. row[i] # Absent /\ writer'[i]["title"] = writer[i]["title"]
      BY <1>6, <1>t, <2>4, <3>2 DEF Update, Wrote, TypeOK
    <3>. QED BY <2>1, <3>3, <3>4 DEF StampsOK
  <2>5. CASE req[r].id # i
    <3>1. row'[i] = row[i] /\ writer'[i] = writer[i]
      BY <1>6, <1>t, <2>5 DEF Update, Wrote, TypeOK
    <3>. QED BY <2>1, <2>2, <3>1 DEF StampsOK
  <2>. QED BY <2>3, <2>4, <2>5
<1>7. ASSUME UNCHANGED <<row, writer, req, began>>
      PROVE  /\ began'[writer'[i]["title"]] # NoTime
             /\ Untitled(i)' \/ row'[i].stamp = began'[writer'[i]["title"]]
  BY <1>1, <1>7
<1>8. ASSUME NEW r \in Requests,
             \/ Reject(r) \/ UpdateMissing(r) \/ Get(r) \/ StatementFails(r) \/ CutOff(r) \/ OrphanCancelled(r)
      PROVE  UNCHANGED <<row, writer, req, began>>
  BY <1>8 DEF Reject, UpdateMissing, Get, StatementFails, CutOff, OrphanCancelled
<1>9. Tick \/ UNCHANGED vars => UNCHANGED <<row, writer, req, began>>
  BY DEF Tick, vars
<1>10. ASSUME NEW r \in Requests, Receive(r) \/ Start(r) \/ Delete(r)
       PROVE  /\ began'[writer'[i]["title"]] # NoTime
              /\ Untitled(i)' \/ row'[i].stamp = began'[writer'[i]["title"]]
  <2>1. CASE Receive(r)
    BY <1>1, <1>2, <2>1
  <2>2. CASE Start(r)
    BY <1>1, <1>3, <2>2
  <2>3. CASE Delete(r)
    BY <1>1, <1>4, <2>3
  <2>. QED BY <1>10, <2>1, <2>2, <2>3
<1>11. CASE Tick \/ AllAnswered \/ UNCHANGED vars
  BY <1>7, <1>9, <1>11 DEF AllAnswered
<1>12. ASSUME NEW r \in Requests,
              \/ Reject(r) \/ UpdateMissing(r) \/ Get(r) \/ StatementFails(r) \/ CutOff(r) \/ OrphanCancelled(r)
       PROVE  /\ began'[writer'[i]["title"]] # NoTime
              /\ Untitled(i)' \/ row'[i].stamp = began'[writer'[i]["title"]]
  BY <1>7, <1>8, <1>12
<1>. QED BY <1>5, <1>6, <1>10, <1>11, <1>12 DEF Next

\* The list of notes keeps the order in which changes were answered and sent.
THEOREM ListsFollow == Spec => []ListFollowsAnswers
<1>. DEFINE LInv == IInv /\ TimesOK /\ StampsOK
<1>1. Init => LInv
  <2>1. Init => TimesOK /\ StampsOK
    BY DEF Init, TimesOK, StampsOK, NoTime, Ids, Fields
  <2>. QED BY <2>1, InitInv
<1>2. LInv /\ [Next]_vars => LInv'
  BY NextInv, TimesStep, StampsStep
<1>3. LInv => ListFollowsAnswers
  <2>. SUFFICES ASSUME LInv, NEW i \in Notes, NEW j \in Notes, row[i] # Absent, row[j] # Absent,
                       writer[j]["title"] # NoRequest, writer[i]["title"] \in before[writer[j]["title"]]
                PROVE  row[i].stamp <= row[j].stamp \/ Untitled(i) \/ Untitled(j)
    BY DEF ListFollowsAnswers
  <2>1. writer[j]["title"] \in Requests
    BY DEF IInv, TypeOK, Ids, Fields
  <2>2. writer[i]["title"] \in Requests /\ writer[i]["title"] # NoRequest
    BY <2>1, ConstantsAssumption DEF IInv, TypeOK
  <2>3. began[writer[i]["title"]] <= began[writer[j]["title"]]
    BY <2>1 DEF TimesOK, StampsOK
  <2>. QED BY <2>2, <2>3 DEF StampsOK
<1>. QED BY <1>1, <1>2, <1>3, PTL DEF Spec

-----------------------------------------------------------------------------
(* ItemStore implements ItemService. *)

\* A request refers to a row that has been there; what its statement did not find is gone.
GoneOK ==
    \A r \in Requests :
       pc[r] \in Pending /\ req[r].op # "create" =>
         /\ req[r].id \in used
         /\ pc[r] # "sent" /\ seen[r] = Absent => row[req[r].id] = Absent

\* What a pending request asks, and what it has answered.
LEMMA PendingIs ==
    ASSUME IInv, NEW r \in Requests, pc[r] \in Pending
    PROVE  /\ req[r] \in Menu /\ req[r] \in Inputs /\ req[r] # NoInput /\ req[r].id \in Ids
           /\ pc[r] # "orphan" <=> reply[r] = 0
<1>1. req[r] \in Menu
  BY DEF IInv, RequestsOK
<1>2. req[r] \in Inputs /\ req[r].id \in Ids
  BY <1>1, MenuAssumption DEF Inputs
<1>. QED BY <1>1, <1>2, ConstantsAssumption DEF IInv, RequestsOK, Pending

LEMMA GoneStep == IInv /\ GoneOK /\ [Next]_vars => GoneOK'
<1>. SUFFICES ASSUME IInv, GoneOK, [Next]_vars, NEW r \in Requests, pc'[r] \in Pending, req'[r].op # "create"
              PROVE  /\ req'[r].id \in used'
                     /\ pc'[r] # "sent" /\ seen'[r] = Absent => row'[req'[r].id] = Absent
  BY DEF GoneOK
<1>. USE DEF IInv
<1>1. used \subseteq used' /\ Kept
  <2>1. CASE UNCHANGED vars
    BY <2>1 DEF vars, Kept
  <2>2. CASE Next
    BY <2>2, GoneStays DEF Next, Tick, Receive, Reject, Start, Create, Update, UpdateMissing, Delete, Get,
         StatementFails, CutOff, OrphanCancelled, AllAnswered, vars, Kept
  <2>. QED BY <2>1, <2>2
<1>2. CASE UNCHANGED <<pc, req, seen, row>>
  BY <1>1, <1>2 DEF GoneOK
<1>3. ASSUME pc[r] \in Pending, UNCHANGED req, UNCHANGED seen, pc[r] = "sent" => pc'[r] = "sent"
      PROVE  /\ req'[r].id \in used'
             /\ pc'[r] # "sent" /\ seen'[r] = Absent => row'[req'[r].id] = Absent
  BY <1>1, <1>3, PendingIs DEF GoneOK, Kept
<1>4. ASSUME NEW q \in Requests, Receive(q)
      PROVE  /\ req'[r].id \in used'
             /\ pc'[r] # "sent" /\ seen'[r] = Absent => row'[req'[r].id] = Absent
  <2>1. UNCHANGED <<row, used, seen>> /\ pc' = [pc EXCEPT ![q] = "sent"]
    BY <1>4 DEF Receive
  <2>2. PICK in \in Menu : req' = [req EXCEPT ![q] = in] /\ (in.op # "create" => in.id \in used)
    BY <1>4 DEF Receive
  <2>3. CASE r = q
    BY <2>1, <2>2, <2>3 DEF TypeOK
  <2>4. CASE r # q
    BY <2>1, <2>2, <2>4 DEF TypeOK, GoneOK
  <2>. QED BY <2>3, <2>4
<1>5. ASSUME NEW q \in Requests, Start(q)
      PROVE  /\ req'[r].id \in used'
             /\ pc'[r] # "sent" /\ seen'[r] = Absent => row'[req'[r].id] = Absent
  <2>1. /\ UNCHANGED <<row, used, req>> /\ pc' = [pc EXCEPT ![q] = "running"] /\ pc[q] = "sent"
        /\ seen' = [seen EXCEPT ![q] = row[req[q].id]]
    BY <1>5 DEF Start
  <2>2. pc[r] \in Pending
    BY <2>1 DEF TypeOK, Pending
  <2>3. CASE r = q
    BY <2>1, <2>2, <2>3 DEF TypeOK, GoneOK
  <2>4. CASE r # q
    BY <2>1, <2>2, <2>4 DEF TypeOK, GoneOK
  <2>. QED BY <2>3, <2>4
<1>6. ASSUME NEW q \in Requests,
             \/ Reject(q) \/ Create(q) \/ Update(q) \/ UpdateMissing(q) \/ Delete(q) \/ Get(q)
             \/ StatementFails(q) \/ CutOff(q) \/ OrphanCancelled(q)
      PROVE  pc[r] \in Pending /\ UNCHANGED req /\ UNCHANGED seen /\ (pc[r] = "sent" => pc'[r] = "sent")
  <2>1. UNCHANGED req /\ UNCHANGED seen
    BY <1>6 DEF Reject, Create, Update, UpdateMissing, Delete, Get, StatementFails, CutOff, OrphanCancelled
  <2>2. pc' = [pc EXCEPT ![q] = "done"] \/ (pc[q] = "running" /\ pc' = [pc EXCEPT ![q] = "orphan"])
    BY <1>6 DEF Reject, Create, Update, UpdateMissing, Delete, Get, StatementFails, CutOff, OrphanCancelled, Answer
  <2>3. r # q => pc'[r] = pc[r]
    BY <2>2 DEF TypeOK
  <2>4. r = q => pc[r] = "running"
    BY <2>2 DEF TypeOK, Pending
  <2>. QED BY <2>1, <2>3, <2>4 DEF Pending
<1>7. CASE Tick \/ AllAnswered \/ UNCHANGED vars
  BY <1>2, <1>7 DEF Tick, AllAnswered, vars
<1>. QED BY <1>3, <1>4, <1>5, <1>6, <1>7 DEF Next

\* The content of a row is not Absent, and one change of the table is one change of it.
LEMMA ContentIs ==
    ASSUME NEW x \in Row \cup {Absent}
    PROVE  /\ Content(x) = Absent <=> x = Absent
           /\ x # Absent => Content(x) = [f \in Fields |-> x[f]]
<1>1. CASE x = Absent
  BY <1>1 DEF Content
<1>2. CASE x \in Row
  <2>1. x # Absent /\ x.title \in Titles /\ x.done \in BOOLEAN
    BY <1>2, ConstantsAssumption DEF Row
  <2>2. [f \in Fields |-> x[f]] \in [Fields -> Titles \cup BOOLEAN]
    BY <2>1 DEF Fields
  <2>. QED BY <2>1, <2>2, ConstantsAssumption DEF Content
<1>. QED BY <1>1, <1>2

LEMMA ItemIs ==
    ASSUME TypeOK, NEW i \in Ids, NEW x, row' = [row EXCEPT ![i] = x]
    PROVE  [j \in Ids |-> Content(row'[j])] = [[j \in Ids |-> Content(row[j])] EXCEPT ![i] = Content(x)]
BY DEF TypeOK

\* A request that is over is open no more.
LEMMA OpenIs ==
    ASSUME TypeOK, NEW r \in Requests, pc' = [pc EXCEPT ![r] = "done"]
    PROVE  {s \in Requests : pc'[s] \in {"sent", "running", "orphan"}}
             = {s \in Requests : pc[s] \in {"sent", "running", "orphan"}} \ {r}
BY DEF TypeOK

LEMMA InitServes == Init => Service!Init
<1>. SUFFICES ASSUME Init PROVE Service!Init
  OBVIOUS
<1>1. \A i \in Ids : Content(InitRow[i]) = Absent <=> InitRow[i] = Absent
  BY InitAssumption, ContentIs
<1>2. Content(Absent) = Absent
  BY DEF Content
<1>. QED BY <1>1, <1>2 DEF Init, Service!Init

LEMMA ReceiveServes == ASSUME NEW r \in Requests, IInv, Receive(r) PROVE Service!Next
<1>1. pc[r] = "idle" /\ req[r] = NoInput /\ reply[r] = 0 /\ \E in \in Menu : req' = [req EXCEPT ![r] = in]
  BY DEF IInv, RequestsOK, Receive
<1>2. UNCHANGED <<row, used, reply, seen>> /\ pc' = [pc EXCEPT ![r] = "sent"]
  BY DEF Receive
<1>3. {s \in Requests : pc'[s] \in {"sent", "running", "orphan"}}
        = {s \in Requests : pc[s] \in {"sent", "running", "orphan"}} \cup {r}
  BY <1>2 DEF IInv, TypeOK
<1>4. Service!Receive(r)
  BY <1>1, <1>2, <1>3 DEF Service!Receive
<1>. QED BY <1>4 DEF Service!Next

LEMMA RejectServes == ASSUME NEW r \in Requests, IInv, Reject(r) PROVE Service!Next
<1>1. pc[r] = "idle" /\ req[r] = NoInput /\ reply[r] = 0
  BY DEF IInv, RequestsOK, Reject
<1>2. /\ UNCHANGED <<row, used, req, seen>> /\ pc' = [pc EXCEPT ![r] = "done"]
      /\ reply' = [reply EXCEPT ![r] = 400]
  BY <1>1 DEF Reject, Answer
<1>3. {s \in Requests : pc'[s] \in {"sent", "running", "orphan"}}
        = {s \in Requests : pc[s] \in {"sent", "running", "orphan"}}
  BY <1>1, <1>2 DEF IInv, TypeOK
<1>4. Service!Tell(r)
  BY <1>1, <1>2, <1>3 DEF Service!Tell
<1>. QED BY <1>4 DEF Service!Next

LEMMA StartServes == ASSUME NEW r \in Requests, IInv, Start(r) PROVE Service!Next
<1>1. /\ pc[r] = "sent" /\ pc' = [pc EXCEPT ![r] = "running"] /\ UNCHANGED <<row, used, req, reply>>
      /\ seen' = [seen EXCEPT ![r] = row[req[r].id]]
  BY DEF Start
<1>2. reply[r] = 0 /\ req[r].id \in Ids
  BY <1>1, PendingIs DEF Pending
<1>3. {s \in Requests : pc'[s] \in {"sent", "running", "orphan"}}
        = {s \in Requests : pc[s] \in {"sent", "running", "orphan"}}
  BY <1>1 DEF IInv, TypeOK
<1>4. [s \in Requests |-> Content(seen'[s])]
        = [[s \in Requests |-> Content(seen[s])] EXCEPT ![r] = Content(row[req[r].id])]
  BY <1>1 DEF IInv, TypeOK
<1>5. Service!Look(r)
  BY <1>1, <1>2, <1>3, <1>4 DEF Service!Look
<1>. QED BY <1>5 DEF Service!Next

\* An effect and its answer; an orphan has been answered before.
LEMMA EffectServes ==
    ASSUME NEW r \in Requests, IInv, pc[r] \in {"running", "orphan"},
           Service!Effect(req[r]), Answer(r, Service!Good(req[r].op)), UNCHANGED <<req, seen>>
    PROVE  Service!Next
<1>1. pc[r] # "orphan" <=> reply[r] = 0
  BY PendingIs DEF Pending
<1>2. reply' = IF reply[r] = 0 THEN [reply EXCEPT ![r] = Service!Good(req[r].op)] ELSE reply
  BY <1>1 DEF Answer
<1>3. {s \in Requests : pc'[s] \in {"sent", "running", "orphan"}}
        = {s \in Requests : pc[s] \in {"sent", "running", "orphan"}} \ {r}
  BY OpenIs DEF Answer, IInv
<1>4. Service!Serve(r)
  BY <1>2, <1>3 DEF Service!Serve
<1>. QED BY <1>4 DEF Service!Next

\* An answer without an effect, or the end of a statement whose client has been answered.
LEMMA AnswerServes ==
    ASSUME NEW r \in Requests, IInv, pc[r] \in Pending, NEW code,
           pc' = [pc EXCEPT ![r] = "done"],
           reply' = IF pc[r] = "orphan" THEN reply ELSE [reply EXCEPT ![r] = code],
           UNCHANGED <<row, used, req, seen>>,
           \/ code = 500
           \/ code = 404 /\ req[r].op = "get"
           \/ code = 404 /\ req[r].op = "delete" /\ row[req[r].id] = Absent
           \/ code = 200 /\ req[r].op = "get" /\ seen[r] # Absent
    PROVE  Service!Next
<1>1. /\ pc[r] # "orphan" <=> reply[r] = 0
      /\ req[r].id \in Ids
  BY PendingIs
<1>2. {s \in Requests : pc'[s] \in {"sent", "running", "orphan"}}
        = {s \in Requests : pc[s] \in {"sent", "running", "orphan"}} \ {r}
  BY OpenIs DEF IInv
<1>3. row[req[r].id] = Absent => Content(row[req[r].id]) = Absent
  BY DEF Content
<1>4. seen[r] # Absent => Content(seen[r]) # Absent
  BY ContentIs DEF IInv, TypeOK
<1>5. CASE pc[r] = "orphan"
  <2>1. Service!Expire(r)
    BY <1>1, <1>2, <1>5 DEF Service!Expire
  <2>. QED BY <2>1 DEF Service!Next
<1>6. CASE pc[r] # "orphan"
  <2>1. Service!Tell(r)
    BY <1>1, <1>2, <1>3, <1>4, <1>6 DEF Service!Tell, Pending
  <2>. QED BY <2>1 DEF Service!Next
<1>. QED BY <1>5, <1>6

LEMMA CreateServes == ASSUME NEW r \in Requests, IInv, Create(r) PROVE Service!Next
<1>. DEFINE i == req[r].id
            new == [title |-> req[r].title, done |-> FALSE,
                    stamp |-> IF i \in Bucket THEN NoTime ELSE began[r]]
<1>1. pc[r] \in {"running", "orphan"} /\ req[r].op = "create"
  BY DEF Create, Running
<1>2. i \in Ids /\ i \notin used /\ req[r] \in Menu /\ req[r] \in Inputs
  BY <1>1, PendingIs DEF Pending, IInv, CreatesOK, Creates
<1>3. /\ row' = [row EXCEPT ![i] = new] /\ used' = used \cup {i} /\ Answer(r, 201)
      /\ UNCHANGED <<req, seen>>
  BY DEF Create
<1>4. new \in Row
  <2>1. req[r].title \in Titles
    BY <1>1, <1>2, MenuAssumption DEF Inputs
  <2>2. began[r] \in 0..MaxTime
    BY <1>1 DEF IInv, RequestsOK
  <2>. QED BY <2>1, <2>2 DEF Row
<1>5. Content(new) = Service!Created(req[r])
  <2>1. new.title = req[r].title /\ new.done = FALSE
    OBVIOUS
  <2>. HIDE DEF new
  <2>2. Content(new) = [f \in Fields |-> new[f]]
    BY <1>4, ContentIs, ConstantsAssumption
  <2>3. \A f \in Fields : new[f] = IF f = "title" THEN req[r].title ELSE FALSE
    BY <2>1 DEF Fields
  <2>. QED BY <2>2, <2>3 DEF Service!Created
<1>6. [j \in Ids |-> Content(row'[j])] = [[j \in Ids |-> Content(row[j])] EXCEPT ![i] = Service!Created(req[r])]
  <2>. HIDE DEF new, i
  <2>. QED BY <1>2, <1>3, <1>5, ItemIs DEF IInv
<1>7. Service!Effect(req[r])
  BY <1>1, <1>2, <1>3, <1>6 DEF Service!Effect
<1>. QED BY <1>1, <1>3, <1>7, EffectServes DEF Service!Good

LEMMA UpdateServes == ASSUME NEW r \in Requests, IInv, Update(r) PROVE Service!Next
<1>. DEFINE i == req[r].id
            new == Patch(req[r], row[i], began[r], seen[r])
<1>1. pc[r] \in {"running", "orphan"} /\ req[r].op = "patch" /\ row[i] # Absent /\ seen[r] # Absent
  BY DEF Update, Running
<1>2. i \in Ids /\ req[r] \in Menu
  BY <1>1, PendingIs DEF Pending
<1>3. /\ row' = [row EXCEPT ![i] = new] /\ used' = used /\ Answer(r, 200)
      /\ UNCHANGED <<req, seen>>
  BY DEF Update
<1>4. row[i] \in Row /\ seen[r] \in Row /\ began[r] \in 0..MaxTime
  BY <1>1, <1>2 DEF IInv, TypeOK, RequestsOK
<1>5. new \in Row
  BY <1>1, <1>2, <1>4, PatchIsRow
<1>6. Content(row[i]) = [f \in Fields |-> row[i][f]] /\ Content(row[i]) # Absent
  BY <1>1, <1>4, ContentIs
<1>7. Content(new) = Service!Patched(req[r], Content(row[i]))
  <2>1. Content(new) = [f \in Fields |-> new[f]]
    BY <1>5, ContentIs, ConstantsAssumption
  <2>2. \A f \in Fields : new[f] = IF req[r][f] = Keep THEN row[i][f] ELSE req[r][f]
    BY DEF Fields, Patch
  <2>3. \A f \in Fields : new[f] = IF req[r][f] = Keep THEN Content(row[i])[f] ELSE req[r][f]
    BY <1>6, <2>2
  <2>. HIDE DEF new, i
  <2>. QED BY <2>1, <2>3 DEF Service!Patched
<1>8. [j \in Ids |-> Content(row'[j])]
        = [[j \in Ids |-> Content(row[j])] EXCEPT ![i] = Service!Patched(req[r], @)]
  <2>. HIDE DEF new, i
  <2>. QED BY <1>2, <1>3, <1>7, ItemIs DEF IInv
<1>9. Service!Effect(req[r])
  BY <1>1, <1>2, <1>3, <1>6, <1>8 DEF Service!Effect
<1>. QED BY <1>1, <1>3, <1>9, EffectServes DEF Service!Good

LEMMA DeleteServes == ASSUME NEW r \in Requests, IInv, GoneOK, Delete(r) PROVE Service!Next
<1>. DEFINE i == req[r].id
<1>1. pc[r] \in {"running", "orphan"} /\ req[r].op = "delete" /\ UNCHANGED <<used, req, seen>>
  BY DEF Delete, Running
<1>2. i \in Ids
  BY <1>1, PendingIs DEF Pending
<1>3. CASE seen[r] # Absent /\ row[i] # Absent
  <2>1. row' = [row EXCEPT ![i] = Absent] /\ Answer(r, 204)
    BY <1>3 DEF Delete
  <2>2. Content(row[i]) # Absent /\ Content(Absent) = Absent
    BY <1>2, <1>3, ContentIs DEF IInv, TypeOK
  <2>3. [j \in Ids |-> Content(row'[j])] = [[j \in Ids |-> Content(row[j])] EXCEPT ![i] = Absent]
    <3>. HIDE DEF i
    <3>. QED BY <1>2, <2>1, <2>2, ItemIs DEF IInv
  <2>4. Service!Effect(req[r])
    BY <1>1, <1>2, <2>2, <2>3 DEF Service!Effect
  <2>. QED BY <1>1, <2>1, <2>4, EffectServes DEF Service!Good
<1>4. CASE ~(seen[r] # Absent /\ row[i] # Absent)
  <2>1. row' = row /\ Answer(r, 404)
    BY <1>4 DEF Delete
  <2>2. row[i] = Absent
    BY <1>1, <1>4 DEF GoneOK, Pending
  <2>. QED BY <1>1, <2>1, <2>2, AnswerServes DEF Answer, Pending
<1>. QED BY <1>3, <1>4

LEMMA AnswersServe ==
    ASSUME NEW r \in Requests, IInv, UpdateMissing(r) \/ Get(r) \/ StatementFails(r)
    PROVE  Service!Next
<1>1. CASE UpdateMissing(r)
  BY <1>1, AnswerServes DEF UpdateMissing, Running, Answer, Pending
<1>2. CASE Get(r)
  <2>1. pc[r] \in Pending /\ req[r].op = "get" /\ UNCHANGED <<row, used, req, seen>>
    BY <1>2 DEF Get, Running, Pending
  <2>2. CASE seen[r] # Absent
    <3>1. Answer(r, 200)
      BY <1>2, <2>2 DEF Get
    <3>2. /\ pc' = [pc EXCEPT ![r] = "done"]
          /\ reply' = IF pc[r] = "orphan" THEN reply ELSE [reply EXCEPT ![r] = 200]
      BY <3>1 DEF Answer
    <3>. QED BY <2>1, <2>2, <3>2, AnswerServes
  <2>3. CASE seen[r] = Absent
    <3>1. Answer(r, 404)
      BY <1>2, <2>3 DEF Get
    <3>2. /\ pc' = [pc EXCEPT ![r] = "done"]
          /\ reply' = IF pc[r] = "orphan" THEN reply ELSE [reply EXCEPT ![r] = 404]
      BY <3>1 DEF Answer
    <3>. QED BY <2>1, <3>2, AnswerServes
  <2>. QED BY <2>2, <2>3
<1>3. CASE StatementFails(r)
  <2>1. pc[r] \in Pending /\ Answer(r, CodeOfFailure(r)) /\ UNCHANGED <<row, used, req, seen>>
    BY <1>3 DEF StatementFails, Pending
  <2>2. CASE req[r].op = "get"
    <3>1. Answer(r, 404)
      BY <2>1, <2>2 DEF CodeOfFailure
    <3>2. /\ pc' = [pc EXCEPT ![r] = "done"]
          /\ reply' = IF pc[r] = "orphan" THEN reply ELSE [reply EXCEPT ![r] = 404]
      BY <3>1 DEF Answer
    <3>. QED BY <2>1, <2>2, <3>2, AnswerServes
  <2>3. CASE req[r].op # "get"
    <3>1. Answer(r, 500)
      BY <2>1, <2>3 DEF CodeOfFailure
    <3>2. /\ pc' = [pc EXCEPT ![r] = "done"]
          /\ reply' = IF pc[r] = "orphan" THEN reply ELSE [reply EXCEPT ![r] = 500]
      BY <3>1 DEF Answer
    <3>. QED BY <2>1, <3>2, AnswerServes
  <2>. QED BY <2>2, <2>3
<1>. QED BY <1>1, <1>2, <1>3

LEMMA CutOffServes == ASSUME NEW r \in Requests, IInv, CutOff(r) PROVE Service!Next
<1>1. /\ pc[r] = "running" /\ pc' = [pc EXCEPT ![r] = "orphan"] /\ UNCHANGED <<row, used, req, seen>>
      /\ reply' = [reply EXCEPT ![r] = CodeOfFailure(r)]
  BY DEF CutOff
<1>2. reply[r] = 0
  BY <1>1, PendingIs DEF Pending
<1>3. {s \in Requests : pc'[s] \in {"sent", "running", "orphan"}}
        = {s \in Requests : pc[s] \in {"sent", "running", "orphan"}}
  BY <1>1 DEF IInv, TypeOK
<1>4. Service!Tell(r)
  BY <1>1, <1>2, <1>3 DEF Service!Tell, CodeOfFailure
<1>. QED BY <1>4 DEF Service!Next

LEMMA OrphanCancelledServes == ASSUME NEW r \in Requests, IInv, OrphanCancelled(r) PROVE Service!Next
BY AnswerServes DEF OrphanCancelled, Pending

LEMMA NextImplements == IInv /\ GoneOK /\ [Next]_vars => [Service!Next]_(Service!vars)
<1>. SUFFICES ASSUME IInv, GoneOK, [Next]_vars PROVE [Service!Next]_(Service!vars)
  OBVIOUS
<1>1. CASE Tick \/ AllAnswered \/ UNCHANGED vars
  BY <1>1 DEF Tick, AllAnswered, vars, Service!vars
<1>2. ASSUME NEW r \in Requests,
             \/ Receive(r) \/ Reject(r) \/ Start(r)
             \/ Create(r) \/ Update(r) \/ UpdateMissing(r) \/ Delete(r) \/ Get(r)
             \/ StatementFails(r) \/ CutOff(r) \/ OrphanCancelled(r)
      PROVE  Service!Next
  BY <1>2, ReceiveServes, RejectServes, StartServes, CreateServes, UpdateServes, DeleteServes,
     AnswersServe, CutOffServes, OrphanCancelledServes
<1>. QED BY <1>1, <1>2 DEF Next

\* Whatever statements overlap, break or outlive their handlers, the bucket list and note
\* endpoints keep what the service promises: an effect on the row as it is at one moment, at
\* most once, and an answer that agrees with it.
THEOREM Implementation == Spec => ImplementsItemService
<1>1. Init => GoneOK
  BY DEF Init, GoneOK, Pending
<1>2. IInv /\ GoneOK /\ [Next]_vars => GoneOK'
  BY GoneStep
<1>3. IInv /\ GoneOK /\ [Next]_vars => [Service!Next]_Service!vars
  BY NextImplements
<1>. QED BY <1>1, <1>2, <1>3, InitServes, Invariance, PTL DEF Spec, ImplementsItemService, Service!Spec
=============================================================================
