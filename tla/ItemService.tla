---------------------------- MODULE ItemService ----------------------------
(***************************************************************************)
(* What the bucket list and note endpoints promise: a row is a set of      *)
(* fields.  A request takes effect at one moment, on the row as it is at   *)
(* that moment, and at most once; a good answer comes with the effect, and *)
(* after a bad one the effect may still come.  A note that is fetched was  *)
(* there at some moment between the question and the answer.               *)
(***************************************************************************)
CONSTANTS Ids, Requests, Menu, NoInput,
          Fields, Keep,  \* Keep: a field that the request leaves alone
          NoItem, InitItem

VARIABLES item,          \* the fields of each row
          used,          \* the ids that rows have had
          req, reply,
          open,          \* the requests that may yet take effect
          saw            \* the row as a request found it when it looked

vars == <<item, used, req, reply, open, saw>>

Init ==
    /\ item = InitItem /\ used = {i \in Ids : InitItem[i] # NoItem}
    /\ req = [r \in Requests |-> NoInput]
    /\ reply = [r \in Requests |-> 0]
    /\ open = {} /\ saw = [r \in Requests |-> NoItem]

Receive(r) ==
    /\ req[r] = NoInput /\ reply[r] = 0
    /\ \E in \in Menu : req' = [req EXCEPT ![r] = in]
    /\ open' = open \cup {r}
    /\ UNCHANGED <<item, used, reply, saw>>

Look(r) ==
    /\ r \in open /\ reply[r] = 0
    /\ saw' = [saw EXCEPT ![r] = item[req[r].id]]
    /\ UNCHANGED <<item, used, req, reply, open>>

Created(in) == [f \in Fields |-> IF f = "title" THEN in.title ELSE FALSE]
Patched(in, old) == [f \in Fields |-> IF in[f] = Keep THEN old[f] ELSE in[f]]

Effect(in) ==
    \/ /\ in.op = "create" /\ in.id \notin used /\ used' = used \cup {in.id}
       /\ item' = [item EXCEPT ![in.id] = Created(in)]
    \/ /\ in.op = "patch" /\ item[in.id] # NoItem /\ UNCHANGED used
       /\ item' = [item EXCEPT ![in.id] = Patched(in, @)]
    \/ /\ in.op = "delete" /\ item[in.id] # NoItem /\ UNCHANGED used
       /\ item' = [item EXCEPT ![in.id] = NoItem]

Good(op) == CASE op = "create" -> 201 [] op = "patch" -> 200 [] OTHER -> 204

Serve(r) ==
    /\ r \in open /\ Effect(req[r])
    /\ open' = open \ {r}
    /\ reply' = IF reply[r] = 0 THEN [reply EXCEPT ![r] = Good(req[r].op)] ELSE reply
    /\ UNCHANGED <<req, saw>>

\* The answers that come without an effect; only after a 500 one may follow.  A note
\* that is reported missing may have been there (others.go:97).
Tell(r) ==
    /\ reply[r] = 0
    /\ \/ /\ req[r] = NoInput /\ reply' = [reply EXCEPT ![r] = 400] /\ UNCHANGED open
       \/ /\ r \in open /\ reply' = [reply EXCEPT ![r] = 500] /\ open' \in {open, open \ {r}}
       \/ /\ r \in open /\ req[r].op = "delete" /\ item[req[r].id] = NoItem
          /\ reply' = [reply EXCEPT ![r] = 404] /\ open' = open \ {r}
       \/ /\ r \in open /\ req[r].op = "get" /\ saw[r] # NoItem
          /\ reply' = [reply EXCEPT ![r] = 200] /\ open' = open \ {r}
       \/ /\ r \in open /\ req[r].op = "get"
          /\ reply' = [reply EXCEPT ![r] = 404] /\ open' \in {open, open \ {r}}
    /\ UNCHANGED <<item, used, req, saw>>

\* Nothing comes of the request any more.
Expire(r) ==
    /\ r \in open /\ reply[r] # 0 /\ open' = open \ {r}
    /\ UNCHANGED <<item, used, req, reply, saw>>

Next == \E r \in Requests : Receive(r) \/ Look(r) \/ Serve(r) \/ Tell(r) \/ Expire(r)

Spec == Init /\ [][Next]_vars
=============================================================================
