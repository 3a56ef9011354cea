----------------------------- MODULE ListsProofs -----------------------------
(***************************************************************************)
(* Proofs about Lists: what a list answers, in which order, and that what  *)
(* was saved is on it, for every table, every filter and every length of a *)
(* page.  From the parts to the whole: days and weeks; sequences without   *)
(* repetition; the join; the conditions of a query; a page; the steps.     *)
(***************************************************************************)
EXTENDS Lists, FiniteSetTheorems, SequenceTheorems, TLAPS

-----------------------------------------------------------------------------
(* Days and weeks. *)

\* Days are whole numbers, and none on the clock is before day 0.
LEMMA DayIsInt == ASSUME NEW zone \in Int, NEW t \in Int PROVE DayIn(zone, t) \in Int
BY ConstantsAssumption DEF DayIn

\* Time does not go back by a day.
LEMMA DaysFollow ==
    ASSUME NEW zone \in Int, NEW t \in Int, NEW u \in Int, t <= u
    PROVE  DayIn(zone, t) <= DayIn(zone, u)
<1>. DEFINE a == t + zone
            b == u + zone
<1>1. a \in Int /\ b \in Int /\ a <= b
  OBVIOUS
<1>. HIDE DEF a, b
<1>2. a \div DayLength <= b \div DayLength
  BY <1>1, ConstantsAssumption
<1>. QED BY <1>2 DEF DayIn, a, b

LEMMA DayIsNat == ASSUME NEW t \in Int, Start <= t PROVE DayIn(Session, t) \in Nat
<1>. DEFINE a == t + Session
<1>1. a \in Nat
  BY ConstantsAssumption
<1>. HIDE DEF a
<1>2. a \div DayLength \in Nat
  BY <1>1, ConstantsAssumption
<1>. QED BY <1>2 DEF DayIn, a

\* The seven days from a Monday on are a week, and all of it.
LEMMA WeekIs ==
    ASSUME NEW d \in Nat, NEW e \in Nat
    PROVE  (d >= Monday(e) /\ d < Monday(e) + 7) <=> SameWeek(d, e)
<1>. DEFINE m == Monday(e)
<1>1. m \in Nat /\ m % 7 = 0 /\ m <= e /\ e < m + 7
  BY DEF Monday
<1>. HIDE DEF m
<1>2. ASSUME d >= m, d < m + 7 PROVE SameWeek(d, e)
  <2>. SUFFICES ASSUME NEW k \in 0..(d + e), k % 7 = 0 PROVE (k <= d) <=> (k <= e)
    BY DEF SameWeek
  <2>1. k <= m \/ k >= m + 7
    BY <1>1
  <2>. QED BY <1>1, <1>2, <2>1
<1>3. ASSUME SameWeek(d, e) PROVE d >= m /\ d < m + 7
  <2>1. m \in 0..(d + e)
    BY <1>1
  <2>2. m <= d
    BY <1>1, <1>3, <2>1 DEF SameWeek
  <2>3. ASSUME m + 7 <= d PROVE FALSE
    <3>1. m + 7 \in 0..(d + e) /\ (m + 7) % 7 = 0 /\ ~(m + 7 <= e)
      BY <1>1, <2>3
    <3>. QED BY <1>3, <2>3, <3>1 DEF SameWeek
  <2>. QED BY <1>1, <2>2, <2>3
<1>. QED BY <1>2, <1>3 DEF m

-----------------------------------------------------------------------------
(* Sequences without repetition, and their first elements. *)

\* What LIMIT leaves of a list.
LEMMA FirstOfIs ==
    ASSUME NEW G, NEW s \in Seq(G), NEW n \in Nat
    PROVE  LET t == FirstOf(s, n) IN
           /\ t \in Seq(G) /\ Len(t) = IF Len(s) <= n THEN Len(s) ELSE n
           /\ \A k \in 1..Len(t) : k \in 1..Len(s) /\ t[k] = s[k]
<1>1. Len(s) \in Nat
  BY LenProperties
<1>2. CASE Len(s) <= n
  BY <1>1, <1>2 DEF FirstOf
<1>3. CASE ~(Len(s) <= n)
  <2>. DEFINE t == SubSeq(s, 1, n)
  <2>1. 1 \in 1..Len(s) + 1 /\ n \in 1 - 1..Len(s)
    BY <1>1, <1>3
  <2>2. /\ t \in Seq(G) /\ Len(t) = n - 1 + 1
        /\ \A k \in 1..n - 1 + 1 : t[k] = s[1 + k - 1]
    BY <2>1, SubSeqProperties
  <2>. HIDE DEF t
  <2>3. FirstOf(s, n) = t
    BY <1>3 DEF FirstOf, t
  <2>4. Len(t) = n
    BY <2>2
  <2>5. ASSUME NEW k \in 1..n PROVE k \in 1..Len(s) /\ t[k] = s[k]
    <3>1. k \in 1..n - 1 + 1 /\ 1 + k - 1 = k /\ k \in 1..Len(s)
      BY <1>1, <1>3
    <3>. QED BY <2>2, <3>1
  <2>. QED BY <1>3, <2>2, <2>3, <2>4, <2>5
<1>. QED BY <1>2, <1>3

\* Different elements are as many as there are places.
LEMMA Countable ==
    ASSUME NEW n \in Nat, NEW S, NEW e \in [1..n -> S],
           \A j, k \in 1..n : j < k => e[j] # e[k]
    PROVE  Cardinality({e[k] : k \in 1..n}) = n
<1>. DEFINE T == {e[k] : k \in 1..n}
<1>1. e \in Injection(1..n, T)
  <2>1. e \in [1..n -> T]
    OBVIOUS
  <2>2. ASSUME NEW j \in 1..n, NEW k \in 1..n, e[j] = e[k] PROVE j = k
    BY <2>2
  <2>. QED BY <2>1, <2>2 DEF Injection, IsInjective
<1>2. e \in Surjection(1..n, T)
  BY DEF Surjection
<1>3. ExistsBijection(1..n, T)
  BY <1>1, <1>2 DEF ExistsBijection, Bijection
<1>. QED BY <1>3, FS_CountingElements

\* A sorting of a finite set lists all of it.
LEMMA SortedIs ==
    ASSUME NEW G, IsFiniteSet(G), NEW s \in Sorted(G)
    PROVE  /\ s \in Seq(G) /\ Len(s) = Cardinality(G)
           /\ \A j, k \in 1..Len(s) : j < k => s[j] # s[k] /\ ~Before(rows[s[k].id], rows[s[j].id])
           /\ \A g \in G : \E k \in 1..Len(s) : s[k] = g
<1>. DEFINE n == Cardinality(G)
<1>1. n \in Nat
  BY FS_CardinalityType
<1>2. /\ s \in [1..n -> G]
      /\ \A j, k \in 1..n : j < k => s[j] # s[k] /\ ~Before(rows[s[k].id], rows[s[j].id])
  BY DEF Sorted
<1>. HIDE DEF n
<1>3. s \in Seq(G) /\ Len(s) = n
  <2>1. s \in Seq(G)
    BY <1>1, <1>2, SeqDef
  <2>. QED BY <1>1, <1>2, <2>1, LenProperties
<1>4. s \in Injection(1..n, G)
  <2>1. ASSUME NEW j \in 1..n, NEW k \in 1..n, s[j] = s[k] PROVE j = k
    BY <1>1, <1>2, <2>1
  <2>. QED BY <1>2, <2>1 DEF Injection, IsInjective
<1>5. Cardinality(1..n) = n /\ IsFiniteSet(1..n)
  BY <1>1, FS_Interval
<1>6. s \in Surjection(1..n, G)
  BY <1>4, <1>5, FS_Injection DEF n
<1>7. ASSUME NEW g \in G PROVE \E k \in 1..n : s[k] = g
  BY <1>6 DEF Surjection
<1>. QED BY <1>2, <1>3, <1>7 DEF n

-----------------------------------------------------------------------------
(* The join and its groups. *)

\* A row with nothing joined to it is in the join all the same, and once.
LEMMA JoinIs ==
    ASSUME NEW q
    PROVE  \A p : p \in LeftJoin(q) <=>
             \E i \in Selected(q) :
               /\ p = <<i, p[2]>>
               /\ p[2] \in (IF Right(i) = {} THEN {None} ELSE Right(i))
<1>. DEFINE of(i) == IF Right(i) = {} THEN {None} ELSE Right(i)
<1>1. ASSUME NEW p PROVE p \in LeftJoin(q) <=> \E i \in Selected(q) : p \in {i} \X of(i)
  BY DEF LeftJoin
<1>2. ASSUME NEW p, NEW i PROVE p \in {i} \X of(i) <=> p = <<i, p[2]>> /\ p[2] \in of(i)
  <2>. HIDE DEF of
  <2>. QED OBVIOUS
<1>. HIDE DEF of
<1>3. \A p : p \in LeftJoin(q) <=> \E i \in Selected(q) : p = <<i, p[2]>> /\ p[2] \in of(i)
  BY <1>1, <1>2
<1>. QED BY <1>3 DEF of

\* What the answer holds of a row.
Item(i) == [id |-> i, of |-> Right(i)]

\* A group holds what belongs to its row, without the None of a row that has nothing.
LEMMA GroupIs ==
    ASSUME NEW q, NEW i \in Selected(q), None \notin Right(i)
    PROVE  Group(LeftJoin(q), i) = Item(i)
<1>. DEFINE join == LeftJoin(q)
            of == {p[2] : p \in {p \in join : p[1] = i /\ p[2] # None}}
<1>1. ASSUME NEW x \in Right(i) PROVE x \in of
  <2>1. <<i, x>> \in join
    BY <1>1, JoinIs
  <2>. HIDE DEF join
  <2>2. <<i, x>>[1] = i /\ <<i, x>>[2] = x /\ x # None
    BY <1>1
  <2>. QED BY <2>1, <2>2
<1>2. ASSUME NEW x \in of PROVE x \in Right(i)
  <2>1. PICK p \in join : p[1] = i /\ p[2] # None /\ x = p[2]
    <3>. HIDE DEF join
    <3>. QED BY <1>2
  <2>2. PICK k \in Selected(q) : p = <<k, p[2]>> /\ p[2] \in (IF Right(k) = {} THEN {None} ELSE Right(k))
    BY <2>1, JoinIs
  <2>3. k = i
    <3>1. <<k, p[2]>>[1] = k
      OBVIOUS
    <3>. QED BY <2>1, <2>2, <3>1
  <2>. QED BY <2>1, <2>2, <2>3
<1>. HIDE DEF join
<1>3. of = Right(i)
  <2>. HIDE DEF of
  <2>. QED BY <1>1, <1>2
<1>. QED BY <1>3 DEF Group, Item, join

\* The items of all selected rows.
Items(q) == {Item(i) : i \in Selected(q)}

\* There is one group for each row.
LEMMA GroupsAre ==
    ASSUME NEW q, \A i \in Selected(q) : None \notin Right(i)
    PROVE  {Group(LeftJoin(q), p[1]) : p \in LeftJoin(q)} = Items(q)
<1>. DEFINE join == LeftJoin(q)
            groups == {Group(join, p[1]) : p \in join}
<1>1. ASSUME NEW i \in Selected(q) PROVE Item(i) \in groups
  <2>. DEFINE of == IF Right(i) = {} THEN {None} ELSE Right(i)
  <2>1. PICK x : x \in of
    OBVIOUS
  <2>2. <<i, x>> \in join
    BY <2>1, JoinIs
  <2>3. <<i, x>>[1] = i
    OBVIOUS
  <2>4. Group(join, i) = Item(i)
    BY <1>1, GroupIs
  <2>. HIDE DEF join
  <2>. QED BY <2>2, <2>3, <2>4
<1>2. ASSUME NEW p \in join PROVE Group(join, p[1]) \in Items(q)
  <2>1. PICK i \in Selected(q) : p = <<i, p[2]>>
    BY <1>2, JoinIs
  <2>2. p[1] = i
    <3>1. <<i, p[2]>>[1] = i
      OBVIOUS
    <3>. QED BY <2>1, <3>1
  <2>3. Group(join, i) = Item(i)
    BY <2>1, GroupIs
  <2>. QED BY <2>1, <2>2, <2>3 DEF Items
<1>. HIDE DEF join
<1>3. \A g : g \in groups <=> g \in Items(q)
  <2>1. \A g \in Items(q) : g \in groups
    <3>. HIDE DEF groups
    <3>. QED BY <1>1 DEF Items
  <2>2. \A g \in groups : g \in Items(q)
    BY <1>2
  <2>. QED BY <2>1, <2>2
<1>. QED BY <1>3 DEF join

\* There are no more items than rows.
LEMMA ItemsAreFew ==
    ASSUME NEW q
    PROVE  /\ IsFiniteSet(Items(q)) /\ Cardinality(Items(q)) <= Cardinality(Ids)
           /\ Cardinality(Ids) \in Nat /\ Cardinality(Items(q)) \in Nat
<1>. DEFINE ids == [g \in Items(q) |-> g.id]
<1>1. \A g \in Items(q) : g = Item(g.id) /\ g.id \in Ids
  BY DEF Items, Item, Selected
<1>2. ids \in [Items(q) -> Ids]
  BY <1>1
<1>3. ids \in Injection(Items(q), Ids)
  <2>1. ASSUME NEW g \in Items(q), NEW h \in Items(q), ids[g] = ids[h] PROVE g = h
    <3>1. g.id = h.id
      BY <2>1
    <3>2. g = Item(g.id) /\ h = Item(h.id)
      BY <1>1
    <3>. QED BY <3>1, <3>2
  <2>. HIDE DEF ids
  <2>. QED BY <1>2, <2>1 DEF Injection, IsInjective
<1>. QED BY <1>3, FS_Injection, FS_CardinalityType, ConstantsAssumption

-----------------------------------------------------------------------------
(* The conditions of a query say what the filters mean. *)

Columns == {"status", "priority", "day", "overdue", "started", "category", "tag_label", "text"}
Conditions == [column : Columns, n : Nat]

\* Every condition refers to an argument that is there, and n is the next number.
Numbered(q, V) ==
    /\ q \in [where : Seq(Conditions), args : Seq(V), n : Nat] /\ q.n = Len(q.args) + 1
    /\ \A k \in 1..Len(q.where) : q.where[k].n \in 1..Len(q.args)

Says(q, row) == \A k \in DOMAIN q.where : Test(q.where[k], q.args, row)

\* A condition on its own.
Fits(column, value, row) == Test([column |-> column, n |-> 1], <<value>>, row)

\* Of the arguments, a condition looks at its own only.
LEMMA TestLooks ==
    ASSUME NEW c, NEW d, NEW args, NEW brgs, NEW row,
           c.column = d.column, c.column = "overdue" \/ args[c.n] = brgs[d.n]
    PROVE  Test(c, args, row) <=> Test(d, brgs, row)
<1>1. CASE c.column = "overdue"
  BY <1>1 DEF Test
<1>2. CASE c.column # "overdue" /\ args[c.n] = brgs[d.n]
  <2>. DEFINE v == args[c.n]
  <2>. HIDE DEF v
  <2>1. args[c.n] = v /\ brgs[d.n] = v /\ d.column = c.column
    BY <1>2 DEF v
  <2>. QED BY <1>2, <2>1 DEF Test
<1>. QED BY <1>1, <1>2

\* A query without filters selects every row.
LEMMA BlankIs ==
    ASSUME NEW V, "user" \in V, NEW row
    PROVE  Numbered(Blank, V) /\ Says(Blank, row)
<1>1. Blank.where = <<>> /\ Blank.args = <<"user">> /\ Blank.n = 2
  BY DEF Blank
<1>2. <<"user">> \in Seq(V) /\ Len(<<"user">>) = 1 /\ <<>> \in Seq(Conditions) /\ Len(<<>>) = 0
  OBVIOUS
<1>3. Blank \in [where : Seq(Conditions), args : Seq(V), n : Nat]
  BY <1>2 DEF Blank
<1>4. Numbered(Blank, V)
  BY <1>1, <1>2, <1>3 DEF Numbered
<1>5. DOMAIN Blank.where = {}
  BY <1>1
<1>. QED BY <1>4, <1>5 DEF Says

\* One more element.
LEMMA AppendIs ==
    ASSUME NEW S, NEW s \in Seq(S), NEW x \in S
    PROVE  LET t == Append(s, x) IN
           /\ t \in Seq(S) /\ Len(s) \in Nat /\ Len(t) = Len(s) + 1 /\ t[Len(s) + 1] = x
           /\ DOMAIN s = 1..Len(s) /\ DOMAIN t = 1..(Len(s) + 1)
           /\ \A k \in 1..Len(s) : t[k] = s[k]
OBVIOUS

\* A filter narrows the query by its condition, with the argument of its own number.
LEMMA AndIs ==
    ASSUME NEW V, NEW q, Numbered(q, V), NEW column \in Columns, NEW value \in V, NEW row
    PROVE  /\ Numbered(And(q, column, value), V)
           /\ Says(And(q, column, value), row) <=> Says(q, row) /\ Fits(column, value, row)
<1>. DEFINE c == [column |-> column, n |-> q.n]
            w == Append(q.where, c)
            a == Append(q.args, value)
            p == And(q, column, value)
<1>1. q.where \in Seq(Conditions) /\ q.args \in Seq(V) /\ q.n = Len(q.args) + 1 /\ c \in Conditions
  BY DEF Numbered, Conditions
<1>2. /\ w \in Seq(Conditions) /\ Len(q.where) \in Nat /\ Len(w) = Len(q.where) + 1 /\ w[Len(q.where) + 1] = c
      /\ DOMAIN q.where = 1..Len(q.where) /\ DOMAIN w = 1..(Len(q.where) + 1)
      /\ \A k \in 1..Len(q.where) : w[k] = q.where[k]
  <2>. HIDE DEF c
  <2>. QED BY <1>1, AppendIs
<1>3. /\ a \in Seq(V) /\ Len(q.args) \in Nat /\ Len(a) = Len(q.args) + 1 /\ a[Len(q.args) + 1] = value
      /\ \A k \in 1..Len(q.args) : a[k] = q.args[k]
  BY <1>1, AppendIs
<1>4. c.column = column /\ c.n = Len(q.args) + 1
  BY <1>1
<1>5. /\ p.where = w /\ p.args = a /\ p.n = q.n + 1
      /\ w \in Seq(Conditions) /\ a \in Seq(V) => p \in [where : Seq(Conditions), args : Seq(V), n : Nat]
  <2>1. q.n + 1 \in Nat
    BY <1>1, <1>3
  <2>. QED BY <2>1 DEF And
<1>. HIDE DEF c, w, a, p
<1>6. Numbered(p, V)
  <2>1. ASSUME NEW k \in 1..Len(w) PROVE w[k].n \in 1..Len(a)
    <3>1. CASE k = Len(q.where) + 1
      BY <1>2, <1>3, <1>4, <3>1
    <3>2. CASE k # Len(q.where) + 1
      <4>1. k \in 1..Len(q.where)
        BY <1>2, <3>2
      <4>2. q.where[k].n \in 1..Len(q.args)
        BY <4>1 DEF Numbered
      <4>. QED BY <1>2, <1>3, <4>1, <4>2
    <3>. QED BY <3>1, <3>2
  <2>. QED BY <1>1, <1>2, <1>3, <1>5, <2>1 DEF Numbered
<1>7. ASSUME NEW k \in 1..Len(q.where) PROVE Test(w[k], a, row) <=> Test(q.where[k], q.args, row)
  <2>1. q.where[k].n \in 1..Len(q.args)
    BY DEF Numbered
  <2>2. w[k] = q.where[k] /\ a[w[k].n] = q.args[w[k].n]
    BY <1>2, <1>3, <2>1
  <2>. QED BY <2>2, TestLooks
<1>8. Test(w[Len(q.where) + 1], a, row) <=> Fits(column, value, row)
  <2>. DEFINE d == [column |-> column, n |-> 1]
  <2>1. d.column = c.column /\ <<value>>[d.n] = a[c.n]
    BY <1>3, <1>4
  <2>. HIDE DEF d
  <2>2. Test(c, a, row) <=> Test(d, <<value>>, row)
    BY <2>1, TestLooks
  <2>. QED BY <1>2, <2>2 DEF Fits, d
<1>9. Says(p, row) <=> Says(q, row) /\ Fits(column, value, row)
  <2>1. Says(p, row) <=> \A k \in 1..(Len(q.where) + 1) : Test(w[k], a, row)
    BY <1>2, <1>5 DEF Says
  <2>2. Says(q, row) <=> \A k \in 1..Len(q.where) : Test(q.where[k], q.args, row)
    BY <1>2 DEF Says
  <2>3. \A k \in 1..(Len(q.where) + 1) : k \in 1..Len(q.where) \/ k = Len(q.where) + 1
    BY <1>2
  <2>4. Len(q.where) + 1 \in 1..(Len(q.where) + 1) /\ \A k \in 1..Len(q.where) : k \in 1..(Len(q.where) + 1)
    BY <1>2
  <2>. QED BY <1>7, <1>8, <2>1, <2>2, <2>3, <2>4
<1>. QED BY <1>6, <1>9 DEF p

LEMMA AndIfGivenIs ==
    ASSUME NEW V, NEW q, Numbered(q, V), NEW column \in Columns, NEW value \in V, NEW row
    PROVE  /\ Numbered(AndIfGiven(q, column, value), V)
           /\ Says(AndIfGiven(q, column, value), row)
                <=> Says(q, row) /\ (value = "" \/ Fits(column, value, row))
<1>1. CASE value = ""
  BY <1>1 DEF AndIfGiven
<1>2. CASE value # ""
  BY <1>2, AndIs DEF AndIfGiven
<1>. QED BY <1>1, <1>2

\* What each condition tests.
LEMMA FitsIs ==
    ASSUME NEW v, NEW row
    PROVE  /\ Fits("status", v, row) <=> row.status = v
           /\ Fits("priority", v, row) <=> row.priority = v
           /\ Fits("category", v, row) <=> row.category = v
           /\ Fits("tag_label", v, row) <=> row.tag_label = v
           /\ Fits("day", v, row) <=> row.due # None /\ DayIn(Session, row.due) = v
           /\ Fits("started", v, row) <=> DayIn(Session, row.at) = v
           /\ Fits("text", v, row) <=> v \in row.text
<1>1. ASSUME NEW c PROVE LET d == [column |-> c, n |-> 1] IN d.column = c /\ <<v>>[d.n] = v
  OBVIOUS
<1>2. /\ Fits("status", v, row) <=> row.status = v
      /\ Fits("priority", v, row) <=> row.priority = v
      /\ Fits("category", v, row) <=> row.category = v
      /\ Fits("tag_label", v, row) <=> row.tag_label = v
  BY <1>1 DEF Fits, Test
<1>3. Fits("day", v, row) <=> row.due # None /\ DayIn(Session, row.due) = v
  BY <1>1 DEF Fits, Test
<1>4. Fits("started", v, row) <=> DayIn(Session, row.at) = v
  BY <1>1 DEF Fits, Test
<1>5. Fits("text", v, row) <=> v \in row.text
  BY <1>1 DEF Fits, Test
<1>. QED BY <1>2, <1>3, <1>4, <1>5

\* The three filters of a task list.
LEMMA TaskQuerySays ==
    ASSUME NEW f, NEW today, NEW row, table = "tasks"
    PROVE  Says(TaskQuery(f, today), row) <=> Wanted(row, f, today)
<1>. DEFINE V == {"user", f.status, f.priority, today}
            p == AndIfGiven(Blank, "status", f.status)
            q == AndIfGiven(p, "priority", f.priority)
<1>1. /\ "user" \in V /\ f.status \in V /\ f.priority \in V /\ today \in V
      /\ "status" \in Columns /\ "priority" \in Columns /\ "day" \in Columns
  BY DEF Columns
<1>. HIDE DEF V
<1>2. Numbered(p, V) /\ (Says(p, row) <=> f.status = "" \/ row.status = f.status)
  <2>1. Numbered(Blank, V) /\ Says(Blank, row)
    BY <1>1, BlankIs
  <2>2. /\ Numbered(p, V)
        /\ Says(p, row) <=> Says(Blank, row) /\ (f.status = "" \/ Fits("status", f.status, row))
    BY <1>1, <2>1, AndIfGivenIs
  <2>3. Fits("status", f.status, row) <=> row.status = f.status
    BY FitsIs
  <2>. HIDE DEF p
  <2>. QED BY <2>1, <2>2, <2>3
<1>3. Numbered(q, V) /\ (Says(q, row) <=> Says(p, row) /\ (f.priority = "" \/ row.priority = f.priority))
  <2>. HIDE DEF p
  <2>1. /\ Numbered(q, V)
        /\ Says(q, row) <=> Says(p, row) /\ (f.priority = "" \/ Fits("priority", f.priority, row))
    BY <1>1, <1>2, AndIfGivenIs
  <2>. QED BY <2>1, FitsIs
<1>4. Says(q, row) <=> f.status \in {"", row.status} /\ f.priority \in {"", row.priority}
  BY <1>2, <1>3
<1>. HIDE DEF q
<1>5. CASE f.due = "today"
  <2>1. TaskQuery(f, today) = And(q, "day", today)
    BY <1>5 DEF TaskQuery, q
  <2>2. Says(TaskQuery(f, today), row) <=> Says(q, row) /\ row.due # None /\ DayIn(Session, row.due) = today
    <3>1. Says(And(q, "day", today), row) <=> Says(q, row) /\ Fits("day", today, row)
      BY <1>1, <1>3, AndIs
    <3>2. Fits("day", today, row) <=> row.due # None /\ DayIn(Session, row.due) = today
      BY FitsIs
    <3>. QED BY <2>1, <3>1, <3>2
  <2>. QED BY <1>4, <1>5, <2>2 DEF Wanted
<1>6. CASE f.due = "overdue"
  <2>. DEFINE c == [column |-> "overdue", n |-> 0]
              w == Append(q.where, c)
              t == TaskQuery(f, today)
  <2>1. t = [q EXCEPT !.where = w]
    BY <1>6 DEF TaskQuery, q
  <2>2. q.where \in Seq(Conditions) /\ c \in Conditions /\ c.column = "overdue"
    BY <1>3 DEF Numbered, Conditions, Columns
  <2>3. /\ Len(q.where) \in Nat /\ w[Len(q.where) + 1] = c
        /\ DOMAIN q.where = 1..Len(q.where) /\ DOMAIN w = 1..(Len(q.where) + 1)
        /\ \A k \in 1..Len(q.where) : w[k] = q.where[k]
    <3>. HIDE DEF c
    <3>. QED BY <2>2, AppendIs
  <2>4. t.where = w /\ t.args = q.args
    BY <1>3, <2>1 DEF Numbered
  <2>. HIDE DEF w, c, t
  <2>5. Test(c, q.args, row) <=> row.due # None /\ row.due < clock /\ row.status # "done"
    BY <2>2 DEF Test
  <2>6. Says(t, row) <=> \A k \in 1..(Len(q.where) + 1) : Test(w[k], q.args, row)
    BY <2>3, <2>4 DEF Says
  <2>7. Says(q, row) <=> \A k \in 1..Len(q.where) : Test(w[k], q.args, row)
    BY <2>3 DEF Says
  <2>8. \A k \in 1..(Len(q.where) + 1) : k \in 1..Len(q.where) \/ k = Len(q.where) + 1
    BY <2>3
  <2>9. Len(q.where) + 1 \in 1..(Len(q.where) + 1) /\ \A k \in 1..Len(q.where) : k \in 1..(Len(q.where) + 1)
    BY <2>3
  <2>10. Says(t, row) <=> Says(q, row) /\ Test(c, q.args, row)
    BY <2>3, <2>6, <2>7, <2>8, <2>9
  <2>. QED BY <1>4, <1>6, <2>5, <2>10 DEF Wanted, t
<1>7. CASE f.due # "today" /\ f.due # "overdue"
  <2>1. TaskQuery(f, today) = q
    BY <1>7 DEF TaskQuery, q
  <2>. QED BY <1>4, <1>7, <2>1 DEF Wanted
<1>. QED BY <1>5, <1>6, <1>7

\* The query of a request selects what its client means, on the day of the handler.
LEMMA QuerySays ==
    ASSUME table \in Names, NEW f, NEW now, NEW row
    PROVE  Says(QueryFor(f, now), row) <=> Wanted(row, f, DayIn(Local, now))
<1>1. CASE table = "tasks"
  BY <1>1, TaskQuerySays DEF QueryFor
<1>2. CASE table = "bucket"
  <2>. DEFINE V == {"user", f.category}
  <2>1. "user" \in V /\ f.category \in V /\ "category" \in Columns
    BY DEF Columns
  <2>. HIDE DEF V
  <2>2. Says(AndIfGiven(Blank, "category", f.category), row) <=> f.category = "" \/ row.category = f.category
    <3>1. Numbered(Blank, V) /\ Says(Blank, row)
      BY <2>1, BlankIs
    <3>2. Says(AndIfGiven(Blank, "category", f.category), row)
            <=> Says(Blank, row) /\ (f.category = "" \/ Fits("category", f.category, row))
      BY <2>1, <3>1, AndIfGivenIs
    <3>. QED BY <3>1, <3>2, FitsIs
  <2>. QED BY <1>2, <2>2 DEF QueryFor, Wanted
<1>3. CASE table = "notes"
  <2>. DEFINE V == {"user", f.tag_label, f.text}
              p == AndIfGiven(Blank, "tag_label", f.tag_label)
  <2>1. "user" \in V /\ f.tag_label \in V /\ f.text \in V /\ "tag_label" \in Columns /\ "text" \in Columns
    BY DEF Columns
  <2>. HIDE DEF V
  <2>2. Numbered(p, V) /\ (Says(p, row) <=> f.tag_label = "" \/ row.tag_label = f.tag_label)
    <3>1. Numbered(Blank, V) /\ Says(Blank, row)
      BY <2>1, BlankIs
    <3>2. /\ Numbered(p, V)
          /\ Says(p, row) <=> Says(Blank, row) /\ (f.tag_label = "" \/ Fits("tag_label", f.tag_label, row))
      BY <2>1, <3>1, AndIfGivenIs
    <3>. QED BY <3>1, <3>2, FitsIs
  <2>. HIDE DEF p
  <2>3. Says(AndIfGiven(p, "text", f.text), row) <=> Says(p, row) /\ (f.text = "" \/ f.text \in row.text)
    <3>1. Says(AndIfGiven(p, "text", f.text), row)
            <=> Says(p, row) /\ (f.text = "" \/ Fits("text", f.text, row))
      BY <2>1, <2>2, AndIfGivenIs
    <3>2. Fits("text", f.text, row) <=> f.text \in row.text
      BY FitsIs
    <3>. QED BY <3>1, <3>2, FitsIs
  <2>4. QueryFor(f, now) = AndIfGiven(p, "text", f.text)
    BY <1>3 DEF QueryFor, p
  <2>. QED BY <1>3, <2>2, <2>3, <2>4 DEF Wanted
<1>4. CASE table = "focus"
  <2>. DEFINE V == {"user", f.date}
  <2>1. "user" \in V /\ f.date \in V /\ "started" \in Columns
    BY DEF Columns
  <2>. HIDE DEF V
  <2>2. Numbered(Blank, V) /\ Says(Blank, row)
    BY <2>1, BlankIs
  <2>3. Says(And(Blank, "started", f.date), row) <=> DayIn(Session, row.at) = f.date
    BY <2>1, <2>2, AndIs, FitsIs
  <2>. QED BY <1>4, <2>2, <2>3 DEF QueryFor, SessionQuery, Wanted
<1>5. CASE table \in {"tags", "habits", "mood"}
  <2>1. Says(Blank, row)
    BY BlankIs
  <2>. QED BY <1>5, <2>1 DEF QueryFor, Wanted
<1>. QED BY <1>1, <1>2, <1>3, <1>4, <1>5 DEF Names, Journals

-----------------------------------------------------------------------------
(* What a page holds. *)

LEMMA RowIs ==
    ASSUME TypeOK, NEW i \in Ids, rows[i] # Gone
    PROVE  rows[i] \in RowsOf(table)
BY DEF TypeOK

LEMMA ClockIs == TypeOK => clock \in Int /\ Start <= clock
BY ConstantsAssumption DEF TypeOK

\* What is joined to a row: its tags, or its logs of this week.
LEMMA RightIs ==
    ASSUME TypeOK, NEW i \in Ids, rows[i] # Gone
    PROVE  /\ None \notin Right(i)
           /\ table = "tasks" => Right(i) = rows[i].tags
           /\ table = "habits" => \A d \in rows[i].days : d \in Right(i) <=> SameWeek(d, DayIn(Session, clock))
<1>1. CASE table = "tasks"
  BY <1>1, RowIs, RowsAssumption DEF Right
<1>2. CASE table = "habits"
  <2>. DEFINE today == DayIn(Session, clock)
  <2>1. rows[i].days \subseteq Nat /\ None \notin Nat
    BY <1>2, RowIs, RowsAssumption, ConstantsAssumption
  <2>2. today \in Nat
    BY ClockIs, DayIsNat
  <2>3. Right(i) = {d \in rows[i].days : d >= Monday(today) /\ d < Monday(today) + 7}
    BY <1>2 DEF Right, LoggedThisWeek
  <2>. HIDE DEF today
  <2>4. ASSUME NEW d \in rows[i].days PROVE d \in Right(i) <=> SameWeek(d, today)
    BY <2>1, <2>2, <2>3, WeekIs
  <2>. QED BY <1>2, <2>1, <2>3, <2>4 DEF today
<1>3. CASE table \notin {"tasks", "habits"}
  BY <1>3 DEF Right
<1>. QED BY <1>1, <1>2, <1>3

\* The limit of a page; of a table without pages it is not below the number of rows.
LEMMA LimitIs ==
    ASSUME TypeOK, NEW r \in Requests, NEW f \in Menu(r, table)
    PROVE  /\ Limit(f) \in Nat
           /\ table \notin Journals => Limit(f) = Cardinality(Ids)
<1>1. CASE table = "focus"
  BY <1>1, ConstantsAssumption DEF Limit, Journals
<1>2. CASE table = "mood"
  BY <1>2, ConstantsAssumption, InputsAssumption DEF Limit, Journals
<1>3. CASE table \notin {"focus", "mood"}
  BY <1>3, FS_CardinalityType, ConstantsAssumption DEF Limit, Journals
<1>. QED BY <1>1, <1>2, <1>3

\* A page is in order, holds no row twice, and leaves out only what comes after a full page.
LEMMA PageIs ==
    ASSUME TypeOK, NEW r \in Requests, NEW f \in Menu(r, table), NEW q, NEW s \in Sorted(Items(q)),
           NEW page, page = FirstOf(s, Limit(f))
    PROVE  /\ page \in Seq(Items(q))
           /\ \A j, k \in 1..Len(page) : j < k =>
                page[j].id # page[k].id /\ ~Before(rows[page[k].id], rows[page[j].id])
           /\ \A i \in Selected(q) :
                \/ \E k \in 1..Len(page) : page[k].id = i
                \/ /\ table \in Journals /\ Len(page) = Limit(f)
                   /\ \A k \in 1..Len(page) : ~Before(rows[i], rows[page[k].id])
<1>. DEFINE G == Items(q)
            n == Limit(f)
<1>1. /\ IsFiniteSet(G) /\ Cardinality(G) <= Cardinality(Ids)
      /\ Cardinality(Ids) \in Nat /\ Cardinality(G) \in Nat
  BY ItemsAreFew
<1>2. n \in Nat /\ (table \notin Journals => n = Cardinality(Ids))
  BY LimitIs
<1>3. \A g, h \in G : g.id = h.id => g = h
  BY DEF Items, Item
<1>4. \A i \in Selected(q) : Item(i) \in G /\ Item(i).id = i
  BY DEF Items, Item
<1>. HIDE DEF G, n
<1>5. /\ s \in Seq(G) /\ Len(s) = Cardinality(G)
      /\ \A j, k \in 1..Len(s) : j < k => s[j] # s[k] /\ ~Before(rows[s[k].id], rows[s[j].id])
      /\ \A g \in G : \E k \in 1..Len(s) : s[k] = g
  <2>1. s \in Sorted(G)
    BY DEF G
  <2>. QED BY <1>1, <2>1, SortedIs
<1>6. /\ page \in Seq(G) /\ Len(page) = IF Len(s) <= n THEN Len(s) ELSE n
      /\ \A k \in 1..Len(page) : k \in 1..Len(s) /\ page[k] = s[k]
  <2>1. page = FirstOf(s, n)
    BY DEF n
  <2>. QED BY <1>2, <1>5, <2>1, FirstOfIs
<1>7. ASSUME NEW j \in 1..Len(page), NEW k \in 1..Len(page), j < k
      PROVE  page[j].id # page[k].id /\ ~Before(rows[page[k].id], rows[page[j].id])
  <2>1. s[j] # s[k] /\ ~Before(rows[s[k].id], rows[s[j].id]) /\ page[j] = s[j] /\ page[k] = s[k]
    BY <1>5, <1>6, <1>7
  <2>2. s[j] \in G /\ s[k] \in G
    BY <1>5, <1>6, ElementOfSeq
  <2>. QED BY <1>3, <2>1, <2>2
<1>8. ASSUME NEW i \in Selected(q), ~(\E k \in 1..Len(page) : page[k].id = i)
      PROVE  /\ table \in Journals /\ Len(page) = n
             /\ \A k \in 1..Len(page) : ~Before(rows[i], rows[page[k].id])
  <2>1. PICK m \in 1..Len(s) : s[m] = Item(i)
    BY <1>4, <1>5
  <2>2. s[m].id = i
    BY <1>4, <2>1
  <2>3. m \notin 1..Len(page)
    BY <1>6, <1>8, <2>2
  <2>4. Len(s) \in Nat
    BY <1>1, <1>5
  <2>5. ~(Len(s) <= n) /\ Len(page) = n
    BY <1>2, <1>6, <2>3, <2>4
  <2>6. table \in Journals
    BY <1>1, <1>2, <1>5, <2>5
  <2>7. ASSUME NEW k \in 1..Len(page) PROVE ~Before(rows[i], rows[page[k].id])
    <3>1. k \in 1..Len(s) /\ page[k] = s[k] /\ k < m
      BY <1>2, <1>6, <2>3, <2>4, <2>5
    <3>. QED BY <1>5, <2>2, <3>1
  <2>. QED BY <2>5, <2>6, <2>7
<1>. QED BY <1>6, <1>7, <1>8 DEF G, n

-----------------------------------------------------------------------------
(* The inductive invariant. *)

ShapeOK == DOMAIN req = Requests /\ DOMAIN query = Requests /\ DOMAIN list = Requests

\* A request that lists has the query of its filters, made when it came.
AskedOK ==
    \A r \in Requests : req[r] \in Menu(r, table) =>
      query[r] = QueryFor(req[r], sent[r]) /\ sent[r] <= clock

\* A session or a mood whose creation was answered is there, as it was sent.
SavedAs(r, i) ==
    /\ list[r] = <<[id |-> i, of |-> {}]>>
    /\ rows[i] # Gone /\ rows[i] = [at |-> TimeOf(req[r])]

SavedOK ==
    \A r \in Requests : reply[r] = 201 => table \in Journals /\ \E i \in Ids : SavedAs(r, i)

\* What may still be executed is an INSERT.
LateOK == \A r \in late : req[r] \in Entries(table)

IInv == TypeOK /\ ShapeOK /\ AskedOK /\ SavedOK /\ LateOK

\* What a list answers.
LEMMA RunIs ==
    ASSUME IInv, NEW r \in Requests, Run(r)
    PROVE  LET q == query[r]  page == list'[r] IN
           /\ req[r] \in Menu(r, table)
           /\ page \in Seq(Items(q)) /\ DOMAIN page = 1..Len(page) /\ Len(page) \in Nat
           /\ \A k \in 1..Len(page) : page[k] \in Items(q)
           /\ \A j, k \in 1..Len(page) : j < k =>
                page[j].id # page[k].id /\ ~Before(rows[page[k].id], rows[page[j].id])
           /\ \A i \in Selected(q) :
                \/ \E k \in 1..Len(page) : page[k].id = i
                \/ /\ table \in Journals /\ Len(page) = Limit(req[r])
                   /\ \A k \in 1..Len(page) : ~Before(rows[i], rows[page[k].id])
<1>. DEFINE q == query[r]
            f == req[r]
            page == list'[r]
<1>1. TypeOK /\ f \in Menu(r, table)
  BY DEF IInv, Run, Listing
<1>2. \A i \in Selected(q) : None \notin Right(i)
  BY <1>1, RightIs DEF Selected
<1>3. PICK s \in Sorted({Group(LeftJoin(q), p[1]) : p \in LeftJoin(q)}) : page = FirstOf(s, Limit(f))
  BY DEF Run, IInv, ShapeOK
<1>4. s \in Sorted(Items(q))
  BY <1>2, <1>3, GroupsAre
<1>. HIDE DEF q, f, page
<1>5. /\ page \in Seq(Items(q))
      /\ \A j, k \in 1..Len(page) : j < k =>
           page[j].id # page[k].id /\ ~Before(rows[page[k].id], rows[page[j].id])
      /\ \A i \in Selected(q) :
           \/ \E k \in 1..Len(page) : page[k].id = i
           \/ /\ table \in Journals /\ Len(page) = Limit(f)
              /\ \A k \in 1..Len(page) : ~Before(rows[i], rows[page[k].id])
  BY <1>1, <1>3, <1>4, PageIs
<1>6. DOMAIN page = 1..Len(page) /\ Len(page) \in Nat /\ \A k \in 1..Len(page) : page[k] \in Items(q)
  BY <1>5, LenProperties, ElementOfSeq
<1>. QED BY <1>1, <1>5, <1>6 DEF q, f, page

-----------------------------------------------------------------------------
(* The invariant holds at first, and every action preserves it. *)

LEMMA InitInv == Init => IInv
<1>. SUFFICES ASSUME Init PROVE IInv
  OBVIOUS
<1>1. PICK t \in Tables : table = t.name /\ rows = t.rows
  BY DEF Init
<1>2. TypeOK
  <2>1. table \in Names /\ rows \in [Ids -> RowsOf(table) \cup {Gone}]
    BY <1>1, RowsAssumption
  <2>2. clock \in Start..End
    BY ConstantsAssumption DEF Init
  <2>3. sent \in [Requests -> Start..End]
    BY <2>2 DEF Init
  <2>4. \A r \in Requests : DOMAIN list[r] = {}
    BY DEF Init
  <2>5. writes \in 0..MaxWrites /\ faults \in 0..MaxFaults
    BY ConstantsAssumption DEF Init
  <2>. QED BY <2>1, <2>2, <2>3, <2>4, <2>5 DEF TypeOK, Init
<1>3. AskedOK
  <2>1. \A r \in Requests : req[r] \notin Menu(r, table)
    BY <1>2, InputsAssumption DEF Init, TypeOK
  <2>. QED BY <2>1 DEF AskedOK
<1>. QED BY <1>2, <1>3 DEF Init, IInv, ShapeOK, SavedOK, LateOK

\* The queries of the requests that have come, when neither they nor the clock change.
LEMMA AskedStays ==
    ASSUME AskedOK, UNCHANGED <<table, clock, sent, query>>,
           \A r \in Requests : req'[r] = req[r] \/ req'[r] \notin Menu(r, table)
    PROVE  AskedOK'
<1>1. ASSUME NEW f, NEW now PROVE QueryFor(f, now)' = QueryFor(f', now')
  BY DEF QueryFor
<1>. SUFFICES ASSUME NEW r \in Requests, (req[r] \in Menu(r, table))'
              PROVE  (query[r] = QueryFor(req[r], sent[r]) /\ sent[r] <= clock)'
  BY DEF AskedOK
<1>2. req'[r] = req[r] /\ req[r] \in Menu(r, table)
  OBVIOUS
<1>3. query[r] = QueryFor(req[r], sent[r]) /\ sent[r] <= clock
  BY <1>2 DEF AskedOK
<1>4. QueryFor(req[r], sent[r])' = QueryFor(req[r], sent[r])
  BY <1>2 DEF QueryFor
<1>. QED BY <1>3, <1>4

\* No row is lost that was answered with 201, when such answers and the rows of journals stay.
LEMMA SavedStays ==
    ASSUME SavedOK, UNCHANGED table,
           \A r \in Requests : reply'[r] = 201 =>
             reply[r] = 201 /\ list'[r] = list[r] /\ req'[r] = req[r],
           table \in Journals => \A i \in Ids : rows[i] # Gone => rows'[i] = rows[i]
    PROVE  SavedOK'
<1>. SUFFICES ASSUME NEW r \in Requests, reply'[r] = 201
              PROVE  (table \in Journals /\ \E i \in Ids : SavedAs(r, i))'
  BY DEF SavedOK
<1>1. reply[r] = 201 /\ list'[r] = list[r] /\ req'[r] = req[r]
  OBVIOUS
<1>2. PICK i \in Ids : SavedAs(r, i)
  BY <1>1 DEF SavedOK
<1>3. table \in Journals
  BY <1>1 DEF SavedOK
<1>4. SavedAs(r, i)'
  <2>1. list'[r] = <<[id |-> i, of |-> {}]>>
    BY <1>1, <1>2 DEF SavedAs
  <2>2. rows'[i] = rows[i] /\ rows[i] # Gone /\ rows[i] = [at |-> TimeOf(req[r])]
    BY <1>2, <1>3 DEF SavedAs
  <2>3. TimeOf(req[r])' = TimeOf(req[r])
    BY <1>1 DEF TimeOf
  <2>. QED BY <2>1, <2>2, <2>3 DEF SavedAs
<1>. QED BY <1>3, <1>4

LEMMA TickInv == IInv /\ Tick => IInv'
<1>. SUFFICES ASSUME IInv, Tick PROVE IInv'
  OBVIOUS
<1>. USE DEF IInv, Tick
<1>1. TypeOK'
  <2>1. clock' \in Start..End
    BY ConstantsAssumption DEF TypeOK
  <2>. QED BY <2>1 DEF TypeOK
<1>2. AskedOK'
  <2>. SUFFICES ASSUME NEW r \in Requests, req[r] \in Menu(r, table)
                PROVE  query[r] = QueryFor(req[r], sent[r])' /\ sent[r] <= clock'
    BY DEF AskedOK
  <2>1. query[r] = QueryFor(req[r], sent[r]) /\ sent[r] <= clock
    BY DEF AskedOK
  <2>2. QueryFor(req[r], sent[r])' = QueryFor(req[r], sent[r])
    BY DEF QueryFor
  <2>3. sent[r] \in Int /\ clock \in Int
    BY ConstantsAssumption DEF TypeOK
  <2>. QED BY <2>1, <2>2, <2>3
<1>3. SavedOK'
  BY SavedStays
<1>. QED BY <1>1, <1>2, <1>3 DEF ShapeOK, LateOK

LEMMA WriteInv == ASSUME IInv, NEW i \in Ids, Write(i) PROVE IInv'
<1>. USE DEF IInv, Write
<1>1. TypeOK'
  <2>1. rows' \in [Ids -> RowsOf(table) \cup {Gone}]
    BY DEF TypeOK
  <2>2. writes' \in 0..MaxWrites
    BY ConstantsAssumption DEF TypeOK
  <2>. QED BY <2>1, <2>2 DEF TypeOK
<1>2. AskedOK'
  BY AskedStays
<1>3. SavedOK'
  BY SavedStays
<1>. QED BY <1>1, <1>2, <1>3 DEF ShapeOK, LateOK

LEMMA ReceiveInv == ASSUME IInv, NEW r \in Requests, Receive(r) PROVE IInv'
<1>. USE DEF IInv, Receive
<1>1. PICK f \in Menu(r, table) :
        /\ req' = [req EXCEPT ![r] = f] /\ query' = [query EXCEPT ![r] = QueryFor(f, clock)]
        /\ sent' = [sent EXCEPT ![r] = clock]
  OBVIOUS
<1>2. TypeOK'
  <2>1. sent' \in [Requests -> Start..End]
    BY <1>1 DEF TypeOK
  <2>2. \A q \in Requests : req'[q] \in Menu(q, table) \cup Entries(table) \cup {NoInput}
    BY <1>1 DEF TypeOK, ShapeOK
  <2>. QED BY <2>1, <2>2 DEF TypeOK
<1>3. AskedOK'
  <2>. SUFFICES ASSUME NEW q \in Requests, req'[q] \in Menu(q, table)
                PROVE  query'[q] = QueryFor(req[q], sent[q])' /\ sent'[q] <= clock
    BY DEF AskedOK
  <2>1. QueryFor(req[q], sent[q])' = QueryFor(req'[q], sent'[q])
    BY DEF QueryFor
  <2>2. CASE q = r
    <3>1. req'[q] = f /\ query'[q] = QueryFor(f, clock) /\ sent'[q] = clock
      BY <1>1, <2>2 DEF TypeOK, ShapeOK
    <3>2. clock \in Int
      BY ClockIs
    <3>. QED BY <2>1, <3>1, <3>2
  <2>3. CASE q # r
    <3>1. req'[q] = req[q] /\ query'[q] = query[q] /\ sent'[q] = sent[q]
      BY <1>1, <2>3 DEF TypeOK, ShapeOK
    <3>. QED BY <2>1, <3>1 DEF AskedOK
  <2>. QED BY <2>2, <2>3
<1>4. SavedOK'
  <2>1. ASSUME NEW q \in Requests, reply[q] = 201 PROVE req'[q] = req[q]
    BY <1>1, <2>1 DEF ShapeOK
  <2>. QED BY <2>1, SavedStays
<1>5. LateOK'
  <2>1. r \notin late
    BY InputsAssumption DEF LateOK, TypeOK
  <2>2. \A q \in late : req'[q] = req[q]
    BY <1>1, <2>1 DEF ShapeOK, TypeOK
  <2>. QED BY <2>2 DEF LateOK
<1>6. ShapeOK'
  BY <1>1 DEF ShapeOK
<1>. QED BY <1>2, <1>3, <1>4, <1>5, <1>6

LEMMA RunInv == ASSUME IInv, NEW r \in Requests, Run(r) PROVE IInv'
<1>1. /\ UNCHANGED <<table, rows, clock, req, query, sent, late, writes, faults>>
      /\ reply' = [reply EXCEPT ![r] = 200]
  BY DEF Run
<1>2. \A q \in Requests : q # r => list'[q] = list[q]
  BY DEF Run, IInv, ShapeOK
<1>3. \A k \in DOMAIN list'[r] : list'[r][k].id \in Ids /\ None \notin list'[r][k].of
  <2>1. \A k \in DOMAIN list'[r] : list'[r][k] \in Items(query[r])
    BY RunIs
  <2>2. \A g \in Items(query[r]) : g.id \in Ids /\ None \notin g.of
    BY RightIs DEF Items, Item, Selected, IInv
  <2>. QED BY <2>1, <2>2
<1>4. TypeOK'
  <2>1. \A q \in Requests : \A k \in DOMAIN list'[q] : list'[q][k].id \in Ids /\ None \notin list'[q][k].of
    BY <1>2, <1>3 DEF IInv, TypeOK
  <2>2. reply' \in [Requests -> {0, 200, 201, 400, 500}]
    BY <1>1 DEF IInv, TypeOK
  <2>. QED BY <1>1, <2>1, <2>2 DEF IInv, TypeOK
<1>5. ShapeOK'
  <2>1. DOMAIN list' = Requests
    BY DEF Run, IInv, ShapeOK
  <2>. QED BY <1>1, <2>1 DEF IInv, ShapeOK
<1>6. AskedOK'
  BY <1>1, AskedStays DEF IInv
<1>7. SavedOK'
  <2>1. \A q \in Requests : reply'[q] = 201 => q # r /\ reply[q] = 201
    BY <1>1 DEF IInv, TypeOK
  <2>. QED BY <1>1, <1>2, <2>1, SavedStays DEF IInv
<1>. QED BY <1>1, <1>4, <1>5, <1>6, <1>7 DEF IInv, LateOK

\* An answer without a list, also of a handler that gives up a statement.
LEMMA AnswerInv ==
    ASSUME IInv, NEW r \in Requests, QueryFails(r) \/ Reject(r) \/ CutOff(r)
    PROVE  IInv'
<1>1. PICK code \in {400, 500} : reply' = [reply EXCEPT ![r] = code]
  BY DEF QueryFails, Reject, CutOff
<1>2. /\ UNCHANGED <<table, rows, clock, req, query, sent, list, writes>>
      /\ faults' \in 0..MaxFaults
      /\ late' = late \/ (late' = late \cup {r} /\ req[r] \in Entries(table))
  BY ConstantsAssumption DEF QueryFails, Reject, CutOff, Saving, IInv, TypeOK
<1>3. TypeOK'
  <2>1. reply' \in [Requests -> {0, 200, 201, 400, 500}]
    BY <1>1 DEF IInv, TypeOK
  <2>2. late' \subseteq Requests
    BY <1>2 DEF IInv, TypeOK
  <2>. QED BY <1>2, <2>1, <2>2 DEF IInv, TypeOK
<1>4. AskedOK'
  BY <1>2, AskedStays DEF IInv
<1>5. SavedOK'
  <2>1. \A q \in Requests : reply'[q] = 201 => reply[q] = 201
    BY <1>1 DEF IInv, TypeOK
  <2>. QED BY <1>2, <2>1, SavedStays DEF IInv
<1>6. LateOK'
  BY <1>2 DEF IInv, LateOK
<1>. QED BY <1>2, <1>3, <1>4, <1>5, <1>6 DEF IInv, ShapeOK

LEMMA ReceiveEntryInv == ASSUME IInv, NEW r \in Requests, ReceiveEntry(r) PROVE IInv'
<1>. USE DEF IInv, ReceiveEntry
<1>1. PICK body \in Entries(table) : req' = [req EXCEPT ![r] = body]
  OBVIOUS
<1>2. \A q \in Requests : req'[q] = IF q = r THEN body ELSE req[q]
  BY <1>1 DEF ShapeOK
<1>3. TypeOK'
  <2>1. sent' \in [Requests -> Start..End]
    BY DEF TypeOK
  <2>2. \A q \in Requests : req'[q] \in Menu(q, table) \cup Entries(table) \cup {NoInput}
    BY <1>2 DEF TypeOK
  <2>. QED BY <2>1, <2>2 DEF TypeOK
<1>4. AskedOK'
  <2>. SUFFICES ASSUME NEW q \in Requests, req'[q] \in Menu(q, table)
                PROVE  query'[q] = QueryFor(req[q], sent[q])' /\ sent'[q] <= clock
    BY DEF AskedOK
  <2>1. q # r
    BY <1>2, InputsAssumption DEF TypeOK
  <2>2. req'[q] = req[q] /\ sent'[q] = sent[q]
    BY <1>2, <2>1 DEF TypeOK
  <2>3. QueryFor(req[q], sent[q])' = QueryFor(req[q], sent[q])
    BY <2>2 DEF QueryFor
  <2>. QED BY <2>2, <2>3 DEF AskedOK
<1>5. SavedOK'
  <2>1. \A q \in Requests : reply[q] = 201 => req'[q] = req[q]
    BY <1>2
  <2>. QED BY <2>1, SavedStays
<1>6. LateOK'
  <2>1. \A q \in late : req'[q] = req[q] \/ req'[q] = body
    BY <1>2 DEF TypeOK
  <2>. QED BY <2>1 DEF LateOK
<1>7. ShapeOK'
  BY <1>1 DEF ShapeOK
<1>. QED BY <1>3, <1>4, <1>5, <1>6, <1>7

\* A new row: an id that was free, and a row that is one of its table.
LEMMA Inserts ==
    ASSUME IInv, NEW r \in Requests, req[r] \in Entries(table), NEW i \in Ids, Insert(r, i)
    PROVE  /\ table \in Journals /\ rows' \in [Ids -> RowsOf(table) \cup {Gone}]
           /\ rows'[i] = [at |-> TimeOf(req[r])] /\ rows'[i] # Gone
           /\ \A k \in Ids : rows[k] # Gone => rows'[k] = rows[k]
<1>1. table \in Journals /\ table \in Names
  BY InputsAssumption DEF IInv, TypeOK
<1>2. [at |-> TimeOf(req[r])] \in RowsOf(table)
  BY <1>1, InputsAssumption
<1>3. [at |-> TimeOf(req[r])] # Gone
  BY <1>1, <1>2, RowsAssumption
<1>. DEFINE row == [at |-> TimeOf(req[r])]
<1>4. rows[i] = Gone /\ rows' = [rows EXCEPT ![i] = row] /\ rows \in [Ids -> RowsOf(table) \cup {Gone}]
  BY DEF Insert, IInv, TypeOK
<1>. HIDE DEF row
<1>5. rows' \in [Ids -> RowsOf(table) \cup {Gone}] /\ rows'[i] = row
  BY <1>2, <1>4 DEF row
<1>6. \A k \in Ids : rows[k] # Gone => rows'[k] = rows[k]
  BY <1>4
<1>. QED BY <1>1, <1>3, <1>5, <1>6 DEF row

LEMMA SaveInv == ASSUME IInv, NEW r \in Requests, Save(r) PROVE IInv'
<1>1. PICK i \in Ids : Insert(r, i) /\ list' = [list EXCEPT ![r] = <<[id |-> i, of |-> {}]>>]
  BY DEF Save
<1>2. /\ req[r] \in Entries(table) /\ reply' = [reply EXCEPT ![r] = 201]
      /\ UNCHANGED <<table, clock, req, query, sent, late, writes, faults>>
  BY DEF Save, Saving
<1>3. /\ table \in Journals /\ rows' \in [Ids -> RowsOf(table) \cup {Gone}]
      /\ rows'[i] = [at |-> TimeOf(req[r])] /\ rows'[i] # Gone
      /\ \A k \in Ids : rows[k] # Gone => rows'[k] = rows[k]
  BY <1>1, <1>2, Inserts
<1>4. list'[r] = <<[id |-> i, of |-> {}]>> /\ \A q \in Requests : q # r => list'[q] = list[q]
  BY <1>1 DEF IInv, ShapeOK
<1>5. TypeOK'
  <2>1. reply' \in [Requests -> {0, 200, 201, 400, 500}]
    BY <1>2 DEF IInv, TypeOK
  <2>2. ASSUME NEW k \in DOMAIN list'[r] PROVE list'[r][k].id \in Ids /\ None \notin list'[r][k].of
    BY <1>4
  <2>3. \A q \in Requests : \A k \in DOMAIN list'[q] : list'[q][k].id \in Ids /\ None \notin list'[q][k].of
    BY <1>4, <2>2 DEF IInv, TypeOK
  <2>. QED BY <1>2, <1>3, <2>1, <2>3 DEF IInv, TypeOK
<1>6. AskedOK'
  BY <1>2, AskedStays DEF IInv
<1>7. SavedOK'
  <2>. SUFFICES ASSUME NEW q \in Requests, reply'[q] = 201
                PROVE  (table \in Journals /\ \E k \in Ids : SavedAs(q, k))'
    BY DEF SavedOK
  <2>0. TimeOf(req[q])' = TimeOf(req[q])
    BY <1>2 DEF TimeOf
  <2>1. CASE q = r
    <3>1. SavedAs(q, i)'
      BY <1>3, <1>4, <2>0, <2>1 DEF SavedAs
    <3>. QED BY <1>2, <1>3, <3>1
  <2>2. CASE q # r
    <3>1. reply[q] = 201 /\ list'[q] = list[q]
      BY <1>2, <1>4, <2>2 DEF IInv, TypeOK
    <3>2. PICK k \in Ids : SavedAs(q, k)
      BY <3>1 DEF IInv, SavedOK
    <3>3. rows'[k] = rows[k]
      BY <1>3, <3>2 DEF SavedAs
    <3>4. SavedAs(q, k)'
      BY <2>0, <3>1, <3>2, <3>3 DEF SavedAs
    <3>. QED BY <1>2, <1>3, <3>4
  <2>. QED BY <2>1, <2>2
<1>8. ShapeOK'
  BY <1>1, <1>2 DEF IInv, ShapeOK
<1>. QED BY <1>2, <1>5, <1>6, <1>7, <1>8 DEF IInv, LateOK

LEMMA LateInv == ASSUME IInv, NEW r \in Requests, Late(r) PROVE IInv'
<1>1. /\ UNCHANGED <<table, clock, req, query, sent, list, reply, writes, faults>>
      /\ r \in late /\ late' = late \ {r}
  BY DEF Late
<1>2. /\ rows' \in [Ids -> RowsOf(table) \cup {Gone}]
      /\ \A k \in Ids : rows[k] # Gone => rows'[k] = rows[k]
  <2>1. CASE UNCHANGED rows
    BY <2>1 DEF IInv, TypeOK
  <2>2. CASE \E i \in Ids : Insert(r, i)
    <3>1. req[r] \in Entries(table)
      BY <1>1 DEF IInv, LateOK
    <3>. QED BY <2>2, <3>1, Inserts
  <2>. QED BY <2>1, <2>2 DEF Late
<1>3. TypeOK'
  BY <1>1, <1>2 DEF IInv, TypeOK
<1>4. AskedOK'
  BY <1>1, AskedStays DEF IInv
<1>5. SavedOK'
  BY <1>1, <1>2, SavedStays DEF IInv
<1>. QED BY <1>1, <1>3, <1>4, <1>5 DEF IInv, ShapeOK, LateOK

LEMMA IdleInv == IInv /\ UNCHANGED vars => IInv'
<1>. SUFFICES ASSUME IInv, UNCHANGED vars PROVE IInv'
  OBVIOUS
<1>1. TypeOK'
  BY DEF IInv, TypeOK, vars
<1>2. AskedOK'
  BY AskedStays DEF IInv, vars
<1>3. SavedOK'
  BY SavedStays DEF IInv, vars
<1>. QED BY <1>1, <1>2, <1>3 DEF IInv, ShapeOK, LateOK, vars

LEMMA NextInv == IInv /\ [Next]_vars => IInv'
<1>. SUFFICES ASSUME IInv, [Next]_vars PROVE IInv'
  OBVIOUS
<1>1. CASE Tick
  BY <1>1, TickInv
<1>2. CASE \E i \in Ids : Write(i)
  BY <1>2, WriteInv
<1>3. ASSUME NEW r \in Requests,
             \/ Receive(r) \/ Run(r) \/ QueryFails(r)
             \/ ReceiveEntry(r) \/ Reject(r) \/ Save(r) \/ CutOff(r) \/ Late(r)
      PROVE  IInv'
  BY <1>3, ReceiveInv, RunInv, AnswerInv, ReceiveEntryInv, SaveInv, LateInv
<1>4. CASE UNCHANGED vars
  BY <1>4, IdleInv
<1>. QED BY <1>1, <1>2, <1>3, <1>4 DEF Next

\* IInv is inductive.
THEOREM Invariance == Spec => []IInv
BY InitInv, NextInv, PTL DEF Spec

\* The values of the variables stay in their types; what is joined to a row is never NULL.
THEOREM TypeCorrect == Spec => []TypeOK
<1>1. IInv => TypeOK
  BY DEF IInv
<1>. QED BY <1>1, Invariance, PTL

-----------------------------------------------------------------------------
(* What the lists promise. *)

\* A list that is answered now is one that runs now.
LEMMA AnsweredIsRun ==
    ASSUME IInv, [Next]_vars, NEW r \in Requests, reply[r] = 0, reply'[r] = 200
    PROVE  Run(r) /\ UNCHANGED <<table, rows, clock, req, query, sent>>
<1>1. reply \in [Requests -> {0, 200, 201, 400, 500}]
  BY DEF IInv, TypeOK
<1>2. ~UNCHANGED reply
  OBVIOUS
<1>3. PICK q \in Requests :
        \/ Run(q) \/ QueryFails(q) \/ Reject(q) \/ Save(q) \/ CutOff(q)
  BY <1>2 DEF Next, vars, Tick, Write, Receive, ReceiveEntry, Late
<1>4. q = r
  BY <1>1, <1>3 DEF Run, QueryFails, Reject, Save, CutOff
<1>5. Run(q)
  BY <1>1, <1>3, <1>4 DEF QueryFails, Reject, Save, CutOff
<1>6. UNCHANGED <<table, rows, clock, req, query, sent>>
  BY <1>5 DEF Run
<1>. QED BY <1>4, <1>5, <1>6

\* The rows that a query selects are those that all its conditions hold of.
LEMMA SelectedIs ==
    ASSUME NEW q, NEW i
    PROVE  i \in Selected(q) <=> i \in Ids /\ rows[i] # Gone /\ Says(q, rows[i])
BY DEF Selected, Says

\* A list against what was asked, on the day of the handler.
LEMMA RunAnswers ==
    ASSUME IInv, NEW r \in Requests, Run(r)
    PROVE  LET page == list'[r]
               listed == {page[k].id : k \in DOMAIN page}
               day == DayIn(Local, sent[r])
           IN
           /\ Len(page) = Cardinality(listed)
           /\ \A i \in listed : i \in Ids /\ rows[i] # Gone /\ Wanted(rows[i], req[r], day)
           /\ \A i \in Ids : rows[i] # Gone /\ Wanted(rows[i], req[r], day) =>
                i \in listed \/ Full(page, req[r], rows[i])
           /\ \A k \in DOMAIN page : page[k].of = Right(page[k].id)
<1>. DEFINE page == list'[r]
            f == req[r]
            q == query[r]
            listed == {page[k].id : k \in DOMAIN page}
            day == DayIn(Local, sent[r])
<1>1. TypeOK /\ table \in Names /\ f \in Menu(r, table) /\ q = QueryFor(f, sent[r])
  BY DEF IInv, TypeOK, AskedOK, Run, Listing
<1>2. /\ DOMAIN page = 1..Len(page) /\ Len(page) \in Nat
      /\ \A k \in 1..Len(page) : page[k] \in Items(q)
      /\ \A j, k \in 1..Len(page) : j < k =>
           page[j].id # page[k].id /\ ~Before(rows[page[k].id], rows[page[j].id])
      /\ \A i \in Selected(q) :
           \/ \E k \in 1..Len(page) : page[k].id = i
           \/ /\ table \in Journals /\ Len(page) = Limit(f)
              /\ \A k \in 1..Len(page) : ~Before(rows[i], rows[page[k].id])
  BY RunIs
<1>3. \A i : i \in Selected(q) <=> i \in Ids /\ rows[i] # Gone /\ Wanted(rows[i], f, day)
  BY <1>1, SelectedIs, QuerySays
<1>. HIDE DEF page, f, q, day
<1>4. \A k \in 1..Len(page) : page[k].id \in Selected(q) /\ page[k].of = Right(page[k].id)
  <2>1. \A g \in Items(q) : g.id \in Selected(q) /\ g.of = Right(g.id)
    BY DEF Items, Item
  <2>. QED BY <1>2, <2>1
<1>5. Len(page) = Cardinality(listed)
  <2>. DEFINE n == Len(page)
              e == [k \in 1..n |-> page[k].id]
  <2>1. n \in Nat /\ e \in [1..n -> Selected(q)] /\ \A j, k \in 1..n : j < k => e[j] # e[k]
    BY <1>2, <1>4
  <2>2. listed = {e[k] : k \in 1..n}
    BY <1>2
  <2>. HIDE DEF e, n, listed
  <2>. QED BY <2>1, <2>2, Countable DEF n
<1>6. \A i \in listed : i \in Selected(q)
  BY <1>2, <1>4
<1>7. ASSUME NEW i \in Selected(q), i \notin listed PROVE Full(page, f, rows[i])
  <2>1. ~\E k \in 1..Len(page) : page[k].id = i
    BY <1>2, <1>7
  <2>2. /\ table \in Journals /\ Len(page) = Limit(f)
        /\ \A k \in 1..Len(page) : ~Before(rows[i], rows[page[k].id])
    BY <1>2, <2>1
  <2>3. ASSUME NEW k \in DOMAIN page PROVE rows[page[k].id].at >= rows[i].at
    <3>1. page[k].id \in Selected(q) /\ ~Before(rows[i], rows[page[k].id])
      BY <1>2, <1>4, <2>2
    <3>2. rows[page[k].id] \in RowsOf(table) /\ rows[i] \in RowsOf(table)
      BY <1>1, <1>3, <3>1, RowIs
    <3>3. rows[page[k].id].at \in Int /\ rows[i].at \in Int
      BY <2>2, <3>2, RowsAssumption
    <3>4. ~(rows[i].at > rows[page[k].id].at)
      BY <2>2, <3>1 DEF Before, Journals
    <3>. QED BY <3>3, <3>4
  <2>. QED BY <2>2, <2>3 DEF Full
<1>8. \A i \in listed : i \in Ids /\ rows[i] # Gone /\ Wanted(rows[i], f, day)
  BY <1>3, <1>6
<1>9. \A i \in Ids : rows[i] # Gone /\ Wanted(rows[i], f, day) => i \in listed \/ Full(page, f, rows[i])
  BY <1>3, <1>7
<1>10. \A k \in DOMAIN page : page[k].of = Right(page[k].id)
  BY <1>2, <1>4
<1>. QED BY <1>5, <1>8, <1>9, <1>10 DEF page, f, day

\* Whatever was asked for on every day of a request is listed, or older than a full page;
\* what was asked for on none of them is not; and every row has what belongs to it.
THEOREM ListsAnswerTheQuestion == Spec => ListAnswersTheQuestion
<1>. DEFINE Answers(r) ==
       LET listed == {list'[r][k].id : k \in DOMAIN list'[r]}
           days == DayIn(Local, sent[r])..DayIn(Local, clock)
       IN
       /\ Len(list'[r]) = Cardinality(listed)
       /\ \A i \in Ids : rows[i] # Gone =>
            /\ (\A d \in days : Wanted(rows[i], req[r], d)) =>
                 i \in listed \/ Full(list'[r], req[r], rows[i])
            /\ i \in listed => \E d \in days : Wanted(rows[i], req[r], d)
       /\ \A k \in DOMAIN list'[r] :
            LET row == rows[list'[r][k].id] IN
            /\ row # Gone
            /\ table = "tasks" => list'[r][k].of = row.tags
            /\ table = "habits" => \A d \in row.days :
                 d \in list'[r][k].of <=> SameWeek(d, DayIn(Session, clock))
<1>1. ASSUME IInv, NEW r \in Requests, Run(r) PROVE Answers(r)
  <2>. DEFINE page == list'[r]
              listed == {page[k].id : k \in DOMAIN page}
              day == DayIn(Local, sent[r])
              days == day..DayIn(Local, clock)
  <2>1. day \in days
    <3>1. sent[r] \in Int /\ clock \in Int /\ Local \in Int
      BY <1>1, ConstantsAssumption DEF IInv, TypeOK
    <3>2. sent[r] <= clock
      BY <1>1 DEF IInv, AskedOK, Run, Listing
    <3>3. day \in Int /\ DayIn(Local, clock) \in Int /\ day <= DayIn(Local, clock)
      BY <3>1, <3>2, DayIsInt, DaysFollow
    <3>. QED BY <3>3
  <2>2. /\ Len(page) = Cardinality(listed)
        /\ \A i \in listed : i \in Ids /\ rows[i] # Gone /\ Wanted(rows[i], req[r], day)
        /\ \A i \in Ids : rows[i] # Gone /\ Wanted(rows[i], req[r], day) =>
             i \in listed \/ Full(page, req[r], rows[i])
        /\ \A k \in DOMAIN page : page[k].of = Right(page[k].id)
    BY <1>1, RunAnswers
  <2>3. \A k \in DOMAIN page : page[k].id \in listed
    OBVIOUS
  <2>. HIDE DEF page, listed, day, days
  <2>4. ASSUME NEW k \in DOMAIN page
        PROVE  LET row == rows[page[k].id] IN
               /\ row # Gone
               /\ table = "tasks" => page[k].of = row.tags
               /\ table = "habits" => \A d \in row.days :
                    d \in page[k].of <=> SameWeek(d, DayIn(Session, clock))
    <3>1. page[k].id \in Ids /\ rows[page[k].id] # Gone /\ page[k].of = Right(page[k].id)
      BY <2>2, <2>3
    <3>2. TypeOK
      BY <1>1 DEF IInv
    <3>. QED BY <3>1, <3>2, RightIs
  <2>5. ASSUME NEW i \in Ids, rows[i] # Gone
        PROVE  /\ (\A d \in days : Wanted(rows[i], req[r], d)) => i \in listed \/ Full(page, req[r], rows[i])
               /\ i \in listed => \E d \in days : Wanted(rows[i], req[r], d)
    BY <2>1, <2>2, <2>5
  <2>. QED BY <2>2, <2>4, <2>5 DEF page, listed, day, days
<1>. HIDE DEF Answers
<1>2. ASSUME IInv, [Next]_vars, NEW r \in Requests, reply[r] = 0, reply'[r] = 200 PROVE Answers(r)
  BY <1>1, <1>2, AnsweredIsRun
<1>3. IInv /\ [Next]_vars => [\A r \in Requests : reply[r] = 0 /\ reply'[r] = 200 => Answers(r)]_vars
  BY <1>2
<1>. QED BY <1>3, Invariance, PTL DEF Spec, ListAnswersTheQuestion, Answers

\* No list has a row before one that should come first.
THEOREM ListsAreInOrder == Spec => MostUrgentFirst
<1>. DEFINE InOrder(x, y) ==
       /\ table = "tasks" =>
            /\ y.priority = "high" => x.priority = "high"
            /\ x.priority = "low" => y.priority = "low"
            /\ x.priority = y.priority /\ y.due # None => x.due # None /\ x.due <= y.due
       /\ table = "bucket" => (x.is_done => y.is_done)
       /\ table \in {"notes", "focus", "mood"} => x.at >= y.at
<1>1. ASSUME TypeOK, NEW x \in RowsOf(table), NEW y \in RowsOf(table), ~Before(y, x)
      PROVE  InOrder(x, y)
  <2>1. CASE table = "tasks"
    <3>1. /\ x.priority \in {"high", "medium", "low"} /\ y.priority \in {"high", "medium", "low"}
          /\ x.due \in Int \cup {None} /\ y.due \in Int \cup {None}
      BY <2>1, RowsAssumption
    <3>2. ~TaskBefore(y, x)
      BY <1>1, <2>1 DEF Before
    <3>3. \A p \in {"high", "medium", "low"} : Rank(p) = IF p = "high" THEN 1 ELSE IF p = "medium" THEN 2 ELSE 3
      BY DEF Rank
    <3>. QED BY <2>1, <3>1, <3>2, <3>3, ConstantsAssumption DEF TaskBefore
  <2>2. CASE table = "bucket"
    BY <1>1, <2>2, RowsAssumption DEF Before
  <2>3. CASE table \in {"notes", "focus", "mood"}
    <3>1. x.at \in Int /\ y.at \in Int
      BY <2>3, RowsAssumption DEF Journals
    <3>. QED BY <1>1, <2>3, <3>1 DEF Before
  <2>4. CASE table \in {"tags", "habits"}
    BY <2>4
  <2>. QED BY <2>1, <2>2, <2>3, <2>4 DEF TypeOK, Names, Journals
<1>2. ASSUME IInv, NEW r \in Requests, Run(r), NEW j \in DOMAIN list'[r], NEW k \in DOMAIN list'[r], j < k
      PROVE  InOrder(rows[list'[r][j].id], rows[list'[r][k].id])
  <2>. DEFINE page == list'[r]
  <2>1. TypeOK
    BY <1>2 DEF IInv
  <2>2. \A m \in DOMAIN page : rows[page[m].id] \in RowsOf(table)
    <3>1. \A i \in {page[m].id : m \in DOMAIN page} : i \in Ids /\ rows[i] # Gone
      BY <1>2, RunAnswers
    <3>. HIDE DEF page
    <3>. QED BY <2>1, <3>1, RowIs
  <2>3. ~Before(rows[page[k].id], rows[page[j].id])
    BY <1>2, RunIs
  <2>. HIDE DEF page, InOrder
  <2>4. j \in DOMAIN page /\ k \in DOMAIN page
    BY DEF page
  <2>5. InOrder(rows[page[j].id], rows[page[k].id])
    BY <1>1, <2>1, <2>2, <2>3, <2>4
  <2>. QED BY <2>5 DEF page
<1>. HIDE DEF InOrder
<1>3. ASSUME IInv, [Next]_vars, NEW r \in Requests, reply[r] = 0, reply'[r] = 200
      PROVE  \A j, k \in DOMAIN list'[r] : j < k => InOrder(rows[list'[r][j].id], rows[list'[r][k].id])
  BY <1>2, <1>3, AnsweredIsRun
<1>4. IInv /\ [Next]_vars =>
        [\A r \in Requests : reply[r] = 0 /\ reply'[r] = 200 =>
           \A j, k \in DOMAIN list'[r] : j < k => InOrder(rows[list'[r][j].id], rows[list'[r][k].id])]_vars
  BY <1>3
<1>. QED BY <1>4, Invariance, PTL DEF Spec, MostUrgentFirst, InOrder

\* What was answered with 201 is on every list that asks for it, or older than a full page.
THEOREM SavedMeansListed == Spec => SavedIsListed
<1>. DEFINE entry(q) == [at |-> TimeOf(req[q])]
            Found(r, q) ==
              \/ \E k \in DOMAIN list'[r] : list'[r][k].id = list[q][1].id
              \/ Full(list'[r], req[r], entry(q))
              \/ ~Wanted(entry(q), req[r], 0)
<1>1. ASSUME IInv, [Next]_vars, NEW r \in Requests, NEW q \in Requests,
             reply[r] = 0, reply'[r] = 200, reply[q] = 201
      PROVE  Found(r, q)
  <2>. DEFINE page == list'[r]
              day == DayIn(Local, sent[r])
  <2>1. Run(r)
    BY <1>1, AnsweredIsRun
  <2>2. table \in Journals
    BY <1>1 DEF IInv, SavedOK
  <2>3. PICK i \in Ids : SavedAs(q, i)
    BY <1>1 DEF IInv, SavedOK
  <2>4. list[q][1].id = i /\ rows[i] # Gone /\ rows[i] = entry(q)
    BY <2>3 DEF SavedAs
  <2>5. Wanted(rows[i], req[r], day) <=> Wanted(rows[i], req[r], 0)
    BY <2>2 DEF Wanted, Journals
  <2>6. rows[i] # Gone /\ Wanted(rows[i], req[r], day) =>
          i \in {page[k].id : k \in DOMAIN page} \/ Full(page, req[r], rows[i])
    BY <1>1, <2>1, RunAnswers
  <2>. HIDE DEF day, entry
  <2>. QED BY <2>4, <2>5, <2>6
<1>2. IInv /\ [Next]_vars =>
        [\A r, q \in Requests : reply[r] = 0 /\ reply'[r] = 200 /\ reply[q] = 201 => Found(r, q)]_vars
  BY <1>1
<1>. QED BY <1>2, Invariance, PTL DEF Spec, SavedIsListed

==============================================================================
