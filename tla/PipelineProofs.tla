--------------------------- MODULE PipelineProofs ---------------------------
(***************************************************************************)
(* Proofs about Startup and Pipeline: where settings come from, when the   *)
(* server listens, and what is sent and logged for a request, for every    *)
(* file, every environment and every set of keys.                          *)
(***************************************************************************)
EXTENDS Pipeline, SequenceTheorems, NaturalsInduction, WellFoundedInduction, TLAPS

-----------------------------------------------------------------------------
(* Extremes of sets of numbers. *)

LEMMA MinIsLeast ==
    ASSUME NEW S \in SUBSET Nat, S # {}
    PROVE  Min(S) \in S /\ \A y \in S : Min(S) <= y
<1>. DEFINE R == OpToRel(<, Nat)
            Least(x) == \A y \in S : x =< y
<1>1. \E x \in S : \A y \in S : ~(<<y, x>> \in R)
  <2>. HIDE DEF R
  <2>. QED BY NatLessThanWellFounded, WFMin DEF R
<1>2. PICK x \in S : \A y \in S : ~(<<y, x>> \in R)
  BY <1>1
<1>3. Least(x)
  <2>. SUFFICES ASSUME NEW y \in S, ~(x =< y) PROVE FALSE
    OBVIOUS
  <2>1. x \in Nat /\ y \in Nat /\ y < x
    OBVIOUS
  <2>2. <<y, x>> \in R
    BY <2>1 DEF OpToRel
  <2>. QED BY <1>2, <2>2
<1>. QED BY <1>3 DEF Min

\* The only least element is the minimum.
LEMMA MinIs ==
    ASSUME NEW S \in SUBSET Nat, NEW a \in S, \A x \in S : a <= x
    PROVE  Min(S) = a
<1>1. Min(S) \in S /\ \A y \in S : Min(S) <= y
  BY MinIsLeast
<1>2. Min(S) <= a /\ a <= Min(S)
  BY <1>1
<1>3. Min(S) \in Nat /\ a \in Nat
  BY <1>1
<1>. QED BY <1>2, <1>3

LEMMA MaxIsGreatest ==
    ASSUME NEW n \in Nat, NEW S \in SUBSET (1..n), S # {}
    PROVE  Max(S) \in S /\ \A y \in S : y <= Max(S)
<1>. DEFINE T == {i \in 0..n : n - i \in S}
            Greatest(x) == \A y \in S : x >= y
<1>1. T \in SUBSET Nat /\ T # {}
  <2>1. PICK x \in S : TRUE
    OBVIOUS
  <2>2. n - x \in 0..n /\ n - (n - x) = x
    OBVIOUS
  <2>3. n - x \in T
    BY <2>1, <2>2
  <2>4. T \subseteq 0..n
    OBVIOUS
  <2>. HIDE DEF T
  <2>5. T \in SUBSET Nat
    BY <2>4
  <2>. QED BY <2>3, <2>5
<1>2. Min(T) \in T /\ \A y \in T : Min(T) <= y
  <2>. HIDE DEF T
  <2>. QED BY <1>1, MinIsLeast
<1>3. Greatest(n - Min(T)) /\ n - Min(T) \in S
  <2>1. ASSUME NEW y \in S PROVE n - Min(T) >= y
    <3>1. y \in 1..n /\ n - y \in 0..n /\ n - (n - y) = y
      OBVIOUS
    <3>2. Min(T) <= n - y
      BY <1>2, <3>1
    <3>3. Min(T) \in 0..n
      BY <1>2
    <3>. QED BY <3>1, <3>2, <3>3
  <2>. QED BY <1>2, <2>1
<1>4. Max(S) \in S /\ Greatest(Max(S))
  BY <1>3 DEF Max
<1>. QED BY <1>4

-----------------------------------------------------------------------------
(* The chain of middlewares. *)

\* What a stack is made of.
Frames == {"logger", "recovery", "cors", "mux"}

\* A frame in front of others.
LEMMA Joined ==
    ASSUME NEW a \in Frames, NEW t \in Seq(Frames), NEW u \in Seq(Frames),
           Len(u) = Len(t) + 1, u[1] = a, \A i \in 1..Len(t) : u[i + 1] = t[i]
    PROVE  <<a>> \o t = u
<1>. DEFINE s == <<a>>
            v == s \o t
<1>1. s \in Seq(Frames) /\ Len(s) = 1 /\ s[1] = a
  OBVIOUS
<1>. HIDE DEF s
<1>2. /\ v \in Seq(Frames) /\ Len(v) = 1 + Len(t)
      /\ \A i \in 1..(1 + Len(t)) : v[i] = IF i <= 1 THEN s[i] ELSE t[i - 1]
  <2>1. /\ s \o t \in Seq(Frames) /\ Len(s \o t) = Len(s) + Len(t)
        /\ \A i \in 1..Len(s) + Len(t) : (s \o t)[i] = IF i <= Len(s) THEN s[i] ELSE t[i - Len(s)]
    BY <1>1, ConcatProperties
  <2>. QED BY <1>1, <2>1
<1>3. \A i \in 1..Len(v) : v[i] = u[i]
  <2>. TAKE i \in 1..Len(v)
  <2>1. CASE i = 1
    BY <1>1, <1>2, <2>1
  <2>2. CASE i # 1
    <3>1. i - 1 \in 1..Len(t) /\ i = (i - 1) + 1
      BY <1>2, <2>2
    <3>. QED BY <1>2, <2>2, <3>1
  <2>. QED BY <2>1, <2>2
<1>. HIDE DEF v
<1>4. v = u
  BY <1>2, <1>3, SeqEqual
<1>. QED BY <1>4 DEF v, s

\* main's loop makes the first middleware the outermost.
LEMMA AppIs == App = <<"logger", "recovery", "cors", "mux">>
<1>. DEFINE mws == <<"logger", "recovery", "cors">>
            Step(f) == [s \in SUBSET {1, 2, 3} |->
                          IF s = {} THEN <<"mux">> ELSE <<mws[Min(s)]>> \o f[s \ {Min(s)}]]
            iter == CHOOSE f : f = Step(f)
            from(s, i) == IF i \in s THEN <<mws[i]>> ELSE <<>>
            g == [s \in SUBSET {1, 2, 3} |-> from(s, 1) \o (from(s, 2) \o (from(s, 3) \o <<"mux">>))]
<1>1. DOMAIN mws = {1, 2, 3}
  OBVIOUS
<1>2. App = iter[{1, 2, 3}]
  BY <1>1 DEF App, Chain, FoldRight, MapThenFoldSet
<1>3. g = Step(g)
  <2>. DEFINE rhs(s) == IF s = {} THEN <<"mux">> ELSE <<mws[Min(s)]>> \o g[s \ {Min(s)}]
  <2>. SUFFICES ASSUME NEW s \in SUBSET {1, 2, 3} PROVE g[s] = rhs(s)
    <3>1. g = [s \in SUBSET {1, 2, 3} |-> g[s]]
      OBVIOUS
    <3>. HIDE DEF g, mws
    <3>. QED BY <3>1
  <2>e. \A t \in Seq(Frames) : <<>> \o t = t
    OBVIOUS
  <2>0. CASE s = {}
    BY <2>e, <2>0
  <2>1. CASE 1 \in s
    <3>1. Min(s) = 1
      <4>1. \A x \in s : 1 <= x
        OBVIOUS
      <4>. QED BY <2>1, <4>1, MinIs
    <3>2. /\ from(s \ {1}, 1) = <<>> /\ from(s, 1) = <<"logger">>
          /\ from(s \ {1}, 2) = from(s, 2) /\ from(s \ {1}, 3) = from(s, 3)
      BY <2>1
    <3>. QED BY <2>e, <2>1, <3>1, <3>2
  <2>2. CASE 1 \notin s /\ 2 \in s
    <3>1. Min(s) = 2
      <4>1. \A x \in s : 2 <= x
        BY <2>2
      <4>. QED BY <2>2, <4>1, MinIs
    <3>. QED BY <2>e, <2>2, <3>1
  <2>3. CASE s = {3}
    <3>1. Min(s) = 3
      BY <2>3, MinIs
    <3>. QED BY <2>e, <2>3, <3>1
  <2>4. s = {} \/ 1 \in s \/ (1 \notin s /\ 2 \in s) \/ s = {3}
    OBVIOUS
  <2>. QED BY <2>0, <2>1, <2>2, <2>3, <2>4
<1>4. iter = Step(iter)
  BY <1>3
<1>. HIDE DEF iter
<1>5. iter[{}] = <<"mux">>
  BY <1>4
<1>6. iter[{3}] = <<"cors", "mux">>
  <2>1. Min({3}) = 3
    <3>1. {3} \in SUBSET Nat /\ 3 \in {3} /\ \A x \in {3} : 3 <= x
      OBVIOUS
    <3>. QED BY <3>1, MinIs
  <2>2. {3} \ {3} = {} /\ mws[3] = "cors"
    OBVIOUS
  <2>3. iter[{3}] = <<mws[Min({3})]>> \o iter[{3} \ {Min({3})}]
    BY <1>4
  <2>4. iter[{3}] = <<"cors">> \o <<"mux">>
    BY <1>5, <2>1, <2>2, <2>3
  <2>5. <<"cors">> \o <<"mux">> = <<"cors", "mux">>
    <3>. DEFINE t == <<"mux">>
                u == <<"cors", "mux">>
    <3>1. t \in Seq(Frames) /\ u \in Seq(Frames) /\ "cors" \in Frames
      BY DEF Frames
    <3>3. Len(u) = Len(t) + 1 /\ u[1] = "cors"
      OBVIOUS
    <3>2. \A i \in 1..Len(t) : u[i + 1] = t[i]
      OBVIOUS
    <3>. QED BY <3>1, <3>2, <3>3, Joined
  <2>. QED BY <2>4, <2>5
<1>7. iter[{2, 3}] = <<"recovery", "cors", "mux">>
  <2>1. Min({2, 3}) = 2
    <3>1. {2, 3} \in SUBSET Nat /\ 2 \in {2, 3} /\ \A x \in {2, 3} : 2 <= x
      OBVIOUS
    <3>. QED BY <3>1, MinIs
  <2>2. {2, 3} \ {2} = {3} /\ mws[2] = "recovery"
    OBVIOUS
  <2>3. iter[{2, 3}] = <<mws[Min({2, 3})]>> \o iter[{2, 3} \ {Min({2, 3})}]
    BY <1>4
  <2>4. iter[{2, 3}] = <<"recovery">> \o <<"cors", "mux">>
    BY <1>6, <2>1, <2>2, <2>3
  <2>5. <<"recovery">> \o <<"cors", "mux">> = <<"recovery", "cors", "mux">>
    <3>. DEFINE t == <<"cors", "mux">>
                u == <<"recovery", "cors", "mux">>
    <3>1. t \in Seq(Frames) /\ u \in Seq(Frames) /\ "recovery" \in Frames
      BY DEF Frames
    <3>3. Len(u) = Len(t) + 1 /\ u[1] = "recovery"
      OBVIOUS
    <3>2. \A i \in 1..Len(t) : u[i + 1] = t[i]
      OBVIOUS
    <3>. QED BY <3>1, <3>2, <3>3, Joined
  <2>. QED BY <2>4, <2>5
<1>8. iter[{1, 2, 3}] = <<"logger", "recovery", "cors", "mux">>
  <2>1. Min({1, 2, 3}) = 1
    <3>1. {1, 2, 3} \in SUBSET Nat /\ 1 \in {1, 2, 3} /\ \A x \in {1, 2, 3} : 1 <= x
      OBVIOUS
    <3>. QED BY <3>1, MinIs
  <2>2. {1, 2, 3} \ {1} = {2, 3} /\ mws[1] = "logger"
    OBVIOUS
  <2>3. iter[{1, 2, 3}] = <<mws[Min({1, 2, 3})]>> \o iter[{1, 2, 3} \ {Min({1, 2, 3})}]
    BY <1>4
  <2>4. iter[{1, 2, 3}] = <<"logger">> \o <<"recovery", "cors", "mux">>
    BY <1>7, <2>1, <2>2, <2>3
  <2>5. <<"logger">> \o <<"recovery", "cors", "mux">> = <<"logger", "recovery", "cors", "mux">>
    <3>. DEFINE t == <<"recovery", "cors", "mux">>
                u == <<"logger", "recovery", "cors", "mux">>
    <3>1. t \in Seq(Frames) /\ u \in Seq(Frames) /\ "logger" \in Frames
      BY DEF Frames
    <3>3. Len(u) = Len(t) + 1 /\ u[1] = "logger"
      OBVIOUS
    <3>2. \A i \in 1..Len(t) : u[i + 1] = t[i]
      OBVIOUS
    <3>. QED BY <3>1, <3>2, <3>3, Joined
  <2>. QED BY <2>4, <2>5
<1>. QED BY <1>2, <1>8

-----------------------------------------------------------------------------
(* Startup. *)

\* Trimming and cutting leave a text.
LEMMA UnquotedIsText == ASSUME NEW S, NEW v \in Seq(S) PROVE Unquoted(v) \in Seq(S)
<1>. DEFINE words == {i \in DOMAIN v : v[i] # "q"}
<1>1. CASE words = {}
  BY <1>1 DEF Unquoted
<1>2. CASE words # {}
  <2>1. Len(v) \in Nat /\ DOMAIN v = 1..Len(v)
    BY LenProperties
  <2>2. words \in SUBSET (1..Len(v)) /\ words \in SUBSET Nat
    BY <2>1
  <2>3. Min(words) \in words /\ Max(words) \in words
    <3>. HIDE DEF words
    <3>. QED BY <1>2, <2>1, <2>2, MinIsLeast, MaxIsGreatest
  <2>4. Min(words) \in 1..Len(v) /\ Max(words) \in 1..Len(v)
    BY <2>1, <2>3
  <2>5. \A i \in Min(words)..Max(words) : v[i] \in S
    <3>. TAKE i \in Min(words)..Max(words)
    <3>1. i \in 1..Len(v)
      BY <2>1, <2>4
    <3>. QED BY <3>1, ElementOfSeq
  <2>6. SubSeq(v, Min(words), Max(words)) \in Seq(S)
    <3>. HIDE DEF words
    <3>1. Min(words) \in Int /\ Max(words) \in Int
      BY <2>4
    <3>. QED BY <2>5, <3>1, SubSeqProperties
  <2>. QED BY <1>2, <2>6 DEF Unquoted
<1>. QED BY <1>1, <1>2

LEMMA ValueIsText == ASSUME NEW text \in Texts PROVE Value(text) \in Texts
<1>. DEFINE marks == {i \in 2..Len(text) : text[i] = "#"}
            cut == SubSeq(text, 1, Min(marks) - 1)
<1>1. CASE marks = {}
  BY <1>1, UnquotedIsText DEF Value, Texts
<1>2. CASE marks # {}
  <2>1. Len(text) \in Nat
    BY LenProperties DEF Texts
  <2>2. marks \in SUBSET (2..Len(text)) /\ marks \in SUBSET Nat
    BY <2>1
  <2>3. Min(marks) \in 2..Len(text)
    <3>. HIDE DEF marks
    <3>. QED BY <1>2, <2>2, MinIsLeast
  <2>4. cut \in Texts
    <3>. HIDE DEF marks
    <3>1. Min(marks) - 1 \in Int
      BY <2>3
    <3>2. \A i \in 1..(Min(marks) - 1) : text[i] \in STRING
      <4>. TAKE i \in 1..(Min(marks) - 1)
      <4>1. i \in 1..Len(text)
        BY <2>1, <2>3
      <4>. QED BY <4>1, ElementOfSeq DEF Texts
    <3>. QED BY <3>1, <3>2, SubSeqProperties DEF Texts
  <2>5. Unquoted(cut) \in Texts
    <3>. HIDE DEF cut
    <3>. QED BY <2>4, UnquotedIsText DEF Texts
  <2>. QED BY <1>2, <2>5 DEF Value
<1>. QED BY <1>1, <1>2

\* What main has behind it at each stage.
StagesOK ==
    /\ main \in {"pool", "ping", "wait", "shutdown"} => \A k \in Required : env[k] # <<>>
    /\ main \in {"ping", "wait", "shutdown"} => pool = "open"
    /\ listener \in {"starting", "listening"} => main \in {"wait", "shutdown"}
    /\ main \in {"dotenv", "pool", "ping"} => listener = "none"

BInv == BootTypeOK /\ StagesOK /\ SettingsComeFromTheirSource

LEMMA FileIsRead ==
    ASSUME BootTypeOK
    PROVE  /\ file \in Seq(Line) /\ Len(file) \in Nat /\ DOMAIN file = 1..Len(file)
           /\ pos \in Nat \ {0}
           /\ pos <= Len(file) => file[pos] \in Line
<1>1. file \in Seq(Line)
  BY FilesAssumption DEF BootTypeOK
<1>2. Len(file) \in Nat /\ DOMAIN file = 1..Len(file)
  BY <1>1, LenProperties
<1>3. pos \in 1..(Len(file) + 1)
  BY DEF BootTypeOK
<1>4. pos <= Len(file) => pos \in 1..Len(file)
  BY <1>2, <1>3
<1>. QED BY <1>1, <1>2, <1>3, <1>4, ElementOfSeq

LEMMA BootInitInv == BootInit => BInv
<1>. SUFFICES ASSUME BootInit PROVE BInv
  OBVIOUS
<1>1. file \in Seq(Line) /\ given \in [Keys -> Texts]
  BY FilesAssumption DEF BootInit
<1>2. Len(file) \in Nat
  BY <1>1, LenProperties
<1>3. BootTypeOK
  BY <1>1, <1>2 DEF BootInit, BootTypeOK
<1>4. \A k \in Keys : Giving(k) = {}
  BY <1>2 DEF BootInit, Giving
<1>5. SettingsComeFromTheirSource
  BY <1>4 DEF BootInit, SettingsComeFromTheirSource
<1>. QED BY <1>3, <1>5 DEF BInv, StagesOK, BootInit

\* A line gives its key a value if nothing has given it one.
LEMMA ReadLineSettings ==
    ASSUME BInv, ReadLine
    PROVE  SettingsComeFromTheirSource'
<1>. USE DEF BInv
<1>1. /\ pos \in Nat \ {0} /\ pos <= Len(file) /\ pos' = pos + 1
      /\ file' = file /\ given' = given
      /\ env \in [Keys -> Texts]
  BY FileIsRead DEF ReadLine, BootTypeOK
<1>. DEFINE gives(i, k) == file[i] # <<>> /\ file[i][1] = k /\ Value(file[i][2]) # <<>>
<1>2. 1..(pos' - 1) = 1..(pos - 1) \cup {pos} /\ pos \notin 1..(pos - 1)
  BY <1>1
<1>3. \A k \in Keys : Giving(k)' = IF gives(pos, k) THEN Giving(k) \cup {pos} ELSE Giving(k)
  BY <1>1, <1>2 DEF Giving
<1>. SUFFICES ASSUME NEW k \in Keys
              PROVE  env'[k] = IF given[k] # <<>> THEN given[k]
                               ELSE IF Giving(k)' = {} THEN <<>>
                               ELSE Value(file[Min(Giving(k)')][2])
  BY <1>1 DEF SettingsComeFromTheirSource, Giving
<1>4. env[k] = IF given[k] # <<>> THEN given[k]
               ELSE IF Giving(k) = {} THEN <<>> ELSE Value(file[Min(Giving(k))][2])
  BY DEF SettingsComeFromTheirSource
<1>5. env'[k] = IF file[pos] # <<>> /\ file[pos][1] = k /\ env[k] = <<>> THEN Value(file[pos][2]) ELSE env[k]
  BY <1>1 DEF ReadLine, SetIfEmpty
<1>6. CASE given[k] # <<>>
  BY <1>4, <1>5, <1>6
<1>7. CASE given[k] = <<>> /\ Giving(k) = {}
  <2>1. CASE gives(pos, k)
    <3>1. Giving(k)' = {pos}
      BY <1>3, <1>7, <2>1
    <3>2. Min({pos}) = pos
      <4>1. {pos} \in SUBSET Nat /\ pos \in {pos} /\ \A x \in {pos} : pos <= x
        BY <1>1
      <4>. QED BY <4>1, MinIs
    <3>. QED BY <1>4, <1>5, <1>7, <2>1, <3>1, <3>2
  <2>2. CASE ~gives(pos, k)
    BY <1>3, <1>4, <1>5, <1>7, <2>2
  <2>. QED BY <2>1, <2>2
<1>8. CASE given[k] = <<>> /\ Giving(k) # {}
  <2>1. Giving(k) \in SUBSET (1..(pos - 1)) /\ Giving(k) \in SUBSET Nat
    BY <1>1 DEF Giving
  <2>2. Min(Giving(k)) \in Giving(k) /\ \A y \in Giving(k) : Min(Giving(k)) <= y
    BY <1>8, <2>1, MinIsLeast
  <2>3. env[k] # <<>>
    BY <1>4, <1>8, <2>2 DEF Giving
  <2>4. Min(Giving(k)') = Min(Giving(k)) /\ Giving(k)' # {}
    <3>1. Min(Giving(k)) <= pos
      BY <1>1, <2>1, <2>2
    <3>2. Giving(k)' \in SUBSET Nat /\ \A y \in Giving(k)' : Min(Giving(k)) <= y
      BY <1>1, <1>3, <2>1, <2>2, <3>1
    <3>3. Min(Giving(k)) \in Giving(k)'
      BY <1>3, <2>2
    <3>. QED BY <3>2, <3>3, MinIs
  <2>. QED BY <1>4, <1>5, <1>8, <2>3, <2>4
<1>. QED BY <1>6, <1>7, <1>8

LEMMA ReadLineInv == ASSUME BInv, ReadLine PROVE BInv'
<1>. USE DEF BInv
<1>1. pos \in Nat \ {0} /\ Len(file) \in Nat /\ pos <= Len(file) /\ file[pos] \in Line
  BY FileIsRead DEF ReadLine
<1>2. env' \in [Keys -> Texts]
  <2>1. CASE file[pos] = <<>>
    BY <2>1 DEF ReadLine, BootTypeOK
  <2>2. CASE file[pos] # <<>>
    <3>1. file[pos] \in Keys \X Texts
      BY <1>1, <2>2 DEF Line
    <3>2. Value(file[pos][2]) \in Texts
      BY <3>1, ValueIsText
    <3>. QED BY <2>2, <3>1, <3>2 DEF ReadLine, SetIfEmpty, BootTypeOK
  <2>. QED BY <2>1, <2>2
<1>3. BootTypeOK'
  BY <1>1, <1>2 DEF BootTypeOK, ReadLine
<1>4. StagesOK'
  BY DEF StagesOK, ReadLine
<1>. QED BY <1>3, <1>4, ReadLineSettings

\* The other steps leave the settings alone.
LEMMA BootStepInv == BInv /\ BootNext => BInv'
<1>. SUFFICES ASSUME BInv, BootNext PROVE BInv'
  OBVIOUS
<1>. USE DEF BInv
<1>1. ASSUME UNCHANGED <<file, given, pos, env>> PROVE SettingsComeFromTheirSource'
  BY <1>1 DEF SettingsComeFromTheirSource, Giving
<1>2. CASE ReadLine
  BY <1>2, ReadLineInv
<1>3. CASE Load
  <2>1. BootTypeOK' /\ StagesOK'
    BY <1>3 DEF Load, BootTypeOK, StagesOK
  <2>. QED BY <1>1, <1>3, <2>1 DEF Load
<1>4. CASE NewPool
  <2>1. BootTypeOK' /\ StagesOK'
    BY <1>4 DEF NewPool, BootTypeOK, StagesOK
  <2>. QED BY <1>1, <1>4, <2>1 DEF NewPool
<1>5. CASE Ping
  <2>1. BootTypeOK' /\ StagesOK'
    BY <1>5 DEF Ping, BootTypeOK, StagesOK
  <2>. QED BY <1>1, <1>5, <2>1 DEF Ping
<1>6. CASE Listen
  <2>1. BootTypeOK' /\ StagesOK'
    BY <1>6 DEF Listen, BootTypeOK, StagesOK
  <2>. QED BY <1>1, <1>6, <2>1 DEF Listen
<1>7. CASE Shutdown
  <2>1. BootTypeOK' /\ StagesOK'
    BY <1>7 DEF Shutdown, BootTypeOK, StagesOK
  <2>. QED BY <1>1, <1>7, <2>1 DEF Shutdown
<1>. QED BY <1>2, <1>3, <1>4, <1>5, <1>6, <1>7 DEF BootNext

LEMMA BootIdleInv == BInv /\ UNCHANGED bootVars => BInv'
<1>. SUFFICES ASSUME BInv, UNCHANGED bootVars PROVE BInv'
  OBVIOUS
<1>. USE DEF bootVars, BInv
<1>1. BootTypeOK' /\ StagesOK'
  BY DEF BootTypeOK, StagesOK
<1>2. SettingsComeFromTheirSource'
  BY DEF SettingsComeFromTheirSource, Giving
<1>. QED BY <1>1, <1>2

-----------------------------------------------------------------------------
(* Pipeline. *)

FullStack == <<"logger", "recovery", "cors", "mux">>

LEMMA AppFacts ==
    /\ App[1] = "logger" /\ App[2] = "recovery" /\ App[3] = "cors" /\ App[4] = "mux"
    /\ Len(App) = 4 /\ Len(App)' = 4
<1>1. App = FullStack
  BY AppIs DEF FullStack
<1>2. (App = FullStack)'
  BY <1>1, PTL
<1>3. Len(FullStack) = 4 /\ Len(FullStack)' = 4
  BY DEF FullStack
<1>. QED BY <1>1, <1>2, <1>3 DEF FullStack

\* The types of the variables of the way, and the stack: the outer part of the chain.
WayTypeOK ==
    /\ req \in Requests \cup {NoRequest}
    /\ mode \in {"idle", "call", "auth", "handle", "return", "panic", "done"}
    /\ headers \in BOOLEAN /\ shown \in BOOLEAN
    /\ status \in 200..502 /\ wire \in {0} \cup 200..502
    /\ log \in Seq(200..502)
StackOK ==
    /\ stack \in Seq(Frames) /\ Len(stack) \in 0..4
    /\ \A k \in 1..Len(stack) : stack[k] = FullStack[k]

\* On the way in nothing is sent or logged, and CORS has set what it sets.
InOK ==
    /\ mode = "idle" => stack = <<>> /\ ~headers
    /\ mode # "idle" => req \in Requests
    /\ mode = "call" => Len(stack) < 4
    /\ mode \in {"auth", "handle"} => Len(stack) = 4 /\ req.path # "unknown"
    /\ mode = "panic" => Len(stack) >= 2 /\ req.path = "data"
    /\ mode \in {"idle", "call", "auth", "handle", "panic"} => wire = 0 /\ log = <<>>
    /\ mode \in {"auth", "handle", "panic"} \/ (mode = "call" /\ Len(stack) = 3) => headers = req.allowed
    /\ mode = "call" /\ Len(stack) < 3 => ~headers

\* On the way out the answer has been sent; rw knows its status until the logger logs it.
OutOK ==
    mode \in {"return", "done"} =>
      /\ wire # 0 /\ shown = req.allowed
      /\ IF req.path = "health" THEN log = <<>>
         ELSE IF stack = <<>> THEN log = <<wire>>
         ELSE log = <<>> /\ status = wire
      /\ mode = "done" => stack = <<>>

WInv == WayTypeOK /\ StackOK /\ InOK /\ OutOK

\* Which middleware is next tells how deep the call is.
LEMMA Depth ==
    ASSUME StackOK, NEW f \in Frames, IsNext(f), mode = "call" => Len(stack) < 4
    PROVE  /\ f = "logger" => Len(stack) = 0
           /\ f = "recovery" => Len(stack) = 1
           /\ f = "cors" => Len(stack) = 2
           /\ f = "mux" => Len(stack) = 3
           /\ f = FullStack[Len(stack) + 1]
<1>1. App[Len(stack) + 1] = f
  BY DEF IsNext
<1>2. Len(stack) \in {0, 1, 2, 3}
  BY DEF IsNext, StackOK
<1>3. CASE Len(stack) = 0
  <2>1. App[1] = f
    BY <1>1, <1>3
  <2>. QED BY <1>3, <2>1, AppFacts DEF FullStack
<1>4. CASE Len(stack) = 1
  <2>1. App[2] = f
    BY <1>1, <1>4
  <2>. QED BY <1>4, <2>1, AppFacts DEF FullStack
<1>5. CASE Len(stack) = 2
  <2>1. App[3] = f
    BY <1>1, <1>5
  <2>. QED BY <1>5, <2>1, AppFacts DEF FullStack
<1>6. CASE Len(stack) = 3
  <2>1. App[4] = f
    BY <1>1, <1>6
  <2>. QED BY <1>6, <2>1, AppFacts DEF FullStack
<1>. QED BY <1>2, <1>3, <1>4, <1>5, <1>6

LEMMA Enters ==
    ASSUME StackOK, Len(stack) < 4, NEW f \in Frames, f = FullStack[Len(stack) + 1], Enter(f)
    PROVE  StackOK' /\ Len(stack') = Len(stack) + 1
<1>1. /\ stack' \in Seq(Frames) /\ Len(stack') = Len(stack) + 1
      /\ \A i \in 1..Len(stack) : stack'[i] = stack[i]
      /\ stack'[Len(stack) + 1] = f
  BY AppendProperties DEF StackOK, Enter
<1>3. \A k \in 1..Len(stack') : stack'[k] = FullStack[k]
  <2>. TAKE k \in 1..Len(stack')
  <2>1. k \in 1..Len(stack) \/ k = Len(stack) + 1
    BY <1>1 DEF StackOK
  <2>. QED BY <1>1, <2>1 DEF StackOK
<1>. QED BY <1>1, <1>3 DEF StackOK

LEMMA Leaves ==
    ASSUME StackOK, stack # <<>>, stack' = Front(stack)
    PROVE  /\ StackOK' /\ Len(stack') = Len(stack) - 1
           /\ Len(stack) >= 1 /\ Last(stack) = FullStack[Len(stack)]
           /\ stack' = <<>> <=> Len(stack) = 1
<1>1. Len(stack) \in 1..4
  BY EmptySeq DEF StackOK
<1>2. \A i \in 1..(Len(stack) - 1) : stack[i] \in Frames
  <2>. TAKE i \in 1..(Len(stack) - 1)
  <2>1. i \in 1..Len(stack)
    BY <1>1
  <2>. QED BY <2>1, ElementOfSeq DEF StackOK
<1>3. /\ stack' \in Seq(Frames) /\ Len(stack') = Len(stack) - 1
      /\ \A i \in 1..(Len(stack) - 1) : stack'[i] = stack[i]
  <2>1. Len(stack) - 1 \in Int
    BY <1>1
  <2>2. /\ stack' \in Seq(Frames)
        /\ Len(stack') = IF 1 <= Len(stack) - 1 THEN (Len(stack) - 1) - 1 + 1 ELSE 0
        /\ \A i \in 1..((Len(stack) - 1) - 1 + 1) : stack'[i] = stack[1 + i - 1]
    BY <1>2, <2>1, SubSeqProperties DEF Front
  <2>3. Len(stack') = Len(stack) - 1
    <3>1. Len(stack') = IF 1 <= Len(stack) - 1 THEN (Len(stack) - 1) - 1 + 1 ELSE 0
      BY <2>2
    <3>. QED BY <1>1, <3>1
  <2>4. ASSUME NEW i \in 1..(Len(stack) - 1) PROVE stack'[i] = stack[i]
    <3>1. i \in 1..((Len(stack) - 1) - 1 + 1) /\ 1 + i - 1 = i
      BY <1>1
    <3>. QED BY <2>2, <3>1
  <2>. QED BY <2>2, <2>3, <2>4
<1>5. StackOK'
  BY <1>1, <1>3 DEF StackOK
<1>6. stack' = <<>> <=> Len(stack') = 0
  BY <1>3, EmptySeq
<1>. QED BY <1>1, <1>3, <1>5, <1>6 DEF StackOK, Last

\* The logger is on the stack as soon as anything is.
LEMMA WrappedIs == ASSUME StackOK PROVE Wrapped <=> req.path # "health" /\ stack # <<>>
<1>1. Len(stack) \in Nat /\ (stack = <<>> <=> Len(stack) = 0)
  BY EmptySeq DEF StackOK
<1>2. Contains(stack, "logger") => Len(stack) # 0
  BY DEF Contains
<1>3. Len(stack) # 0 => Contains(stack, "logger")
  BY <1>1 DEF Contains, StackOK, FullStack
<1>. QED BY <1>1, <1>2, <1>3 DEF Wrapped

LEMMA InitWay == Init => WInv
<1>. SUFFICES ASSUME Init PROVE WInv
  OBVIOUS
<1>1. <<>> \in Seq(Frames) /\ Len(<<>>) = 0 /\ <<>> \in Seq(200..502)
  BY EmptySeq
<1>. USE DEF Init
<1>2. WayTypeOK
  <2>1. status \in 200..502 /\ wire \in {0} \cup 200..502
    OBVIOUS
  <2>. QED BY <1>1, <2>1 DEF WayTypeOK
<1>3. StackOK
  BY <1>1 DEF StackOK
<1>4. InOK /\ OutOK
  BY DEF InOK, OutOK
<1>. QED BY <1>2, <1>3, <1>4 DEF WInv

\* Which layer is at which depth, by name.
LEMMA FullStackAt ==
    ASSUME NEW n \in 1..4
    PROVE  (FullStack[n] = "logger" <=> n = 1) /\ (FullStack[n] = "recovery" <=> n = 2)
<1>1. /\ FullStack[1] = "logger" /\ FullStack[2] = "recovery"
      /\ FullStack[3] = "cors" /\ FullStack[4] = "mux"
  BY DEF FullStack
<1>2. CASE n = 1
  BY <1>1, <1>2
<1>3. CASE n = 2
  BY <1>1, <1>3
<1>4. CASE n = 3
  BY <1>1, <1>4
<1>5. CASE n = 4
  BY <1>1, <1>5
<1>. QED BY <1>2, <1>3, <1>4, <1>5

\* The first answer goes out, and rw remembers its status if it is there.
LEMMA Writes ==
    ASSUME WayTypeOK, StackOK, wire = 0, NEW code \in 200..502, Write(code)
    PROVE  /\ wire' = code /\ wire' # 0 /\ wire' \in {0} \cup 200..502
           /\ shown' = headers' /\ status' \in 200..502
           /\ req.path # "health" /\ stack # <<>> => status' = code
<1>1. wire' = code /\ shown' = headers'
  BY DEF Write
<1>2. status' = IF Wrapped THEN code ELSE status
  BY DEF Write
<1>3. status \in 200..502 /\ status' \in 200..502
  BY <1>2 DEF WayTypeOK
<1>4. code # 0
  OBVIOUS
<1>. QED BY <1>1, <1>2, <1>3, <1>4, WrappedIs

LEMMA NotEmpty == \A s : Len(s) # 0 => s # <<>>
OBVIOUS

LEMMA AcceptInv == ASSUME WInv, Accept PROVE WInv'
<1>. USE DEF Accept, Silent, WInv
<1>1. WayTypeOK'
  BY DEF WayTypeOK
<1>2. StackOK'
  BY DEF StackOK
<1>3. Len(stack') = 0
  BY EmptySeq DEF InOK
<1>4. InOK'
  BY <1>3 DEF InOK
<1>5. OutOK'
  BY DEF OutOK
<1>. QED BY <1>1, <1>2, <1>4, <1>5

LEMMA LoggerInv == ASSUME WInv, Logger PROVE WInv'
<1>. USE DEF Logger, WInv
<1>1. Len(stack) = 0 /\ "logger" = FullStack[Len(stack) + 1] /\ mode = "call"
  BY Depth DEF InOK, Frames, IsNext
<1>2. StackOK' /\ Len(stack') = 1
  BY <1>1, Enters DEF Frames
<1>3. WayTypeOK'
  <2>1. status' \in 200..502
    OBVIOUS
  <2>. QED BY <1>1, <2>1 DEF WayTypeOK
<1>4. InOK'
  BY <1>1, <1>2 DEF InOK
<1>5. OutOK'
  BY <1>1 DEF OutOK
<1>. QED BY <1>2, <1>3, <1>4, <1>5

LEMMA RecoveryInv == ASSUME WInv, Recovery PROVE WInv'
<1>. USE DEF Recovery, Silent, WInv
<1>1. Len(stack) = 1 /\ "recovery" = FullStack[Len(stack) + 1] /\ mode = "call"
  BY Depth DEF InOK, Frames, IsNext
<1>2. StackOK' /\ Len(stack') = 2
  BY <1>1, Enters DEF Frames
<1>3. WayTypeOK'
  BY <1>1 DEF WayTypeOK
<1>4. InOK'
  BY <1>1, <1>2 DEF InOK
<1>5. OutOK'
  BY <1>1 DEF OutOK
<1>. QED BY <1>2, <1>3, <1>4, <1>5

\* An answer ends the way in: what any of the layers does when it writes and returns.
LEMMA Answered ==
    ASSUME WInv, mode \in {"call", "auth", "handle"}, mode' = "return", NEW code \in 200..502, Write(code),
           UNCHANGED <<req, log>>, headers' = req.allowed, StackOK', stack # <<>>, stack' # <<>>
    PROVE  WInv'
<1>. USE DEF WInv
<1>1. wire = 0 /\ log = <<>> /\ req \in Requests
  BY DEF InOK
<1>2. /\ wire' = code /\ wire' # 0 /\ wire' \in {0} \cup 200..502
      /\ shown' = headers' /\ status' \in 200..502
      /\ req.path # "health" => status' = code
  <2>1. /\ wire' = code /\ wire' # 0 /\ wire' \in {0} \cup 200..502
        /\ shown' = headers' /\ status' \in 200..502
        /\ req.path # "health" /\ stack # <<>> => status' = code
    BY <1>1, Writes
  <2>. QED BY <2>1
<1>3. req.allowed \in BOOLEAN
  BY <1>1 DEF Requests
<1>4. WayTypeOK'
  BY <1>2, <1>3 DEF WayTypeOK
<1>5. InOK'
  BY <1>1 DEF InOK
<1>6. OutOK'
  BY <1>1, <1>2 DEF OutOK
<1>. QED BY <1>4, <1>5, <1>6

LEMMA CORSInv == ASSUME WInv, CORS PROVE WInv'
<1>. USE DEF CORS, WInv
<1>1. Len(stack) = 2 /\ "cors" = FullStack[Len(stack) + 1] /\ mode = "call"
  BY Depth DEF InOK, Frames, IsNext
<1>2. StackOK' /\ Len(stack') = 3
  BY <1>1, Enters DEF Frames
<1>3. stack # <<>> /\ stack' # <<>>
  <2>1. Len(stack) # 0 /\ Len(stack') # 0
    BY <1>1, <1>2
  <2>. QED BY <2>1, NotEmpty
<1>4. CASE req.method = "OPTIONS"
  <2>1. 204 \in 200..502
    OBVIOUS
  <2>. QED BY <1>1, <1>2, <1>3, <1>4, <2>1, Answered
<1>5. CASE req.method # "OPTIONS"
  <2>1. Silent /\ UNCHANGED <<req, mode, log>> /\ headers' = req.allowed
    BY <1>5
  <2>2. req \in Requests /\ req.allowed \in BOOLEAN
    BY <1>1 DEF InOK, Requests
  <2>3. WayTypeOK'
    BY <2>1, <2>2 DEF WayTypeOK, Silent
  <2>4. InOK'
    BY <1>1, <1>2, <2>1, <2>2 DEF InOK, Silent
  <2>5. OutOK'
    BY <1>1, <2>1 DEF OutOK
  <2>. QED BY <1>2, <2>3, <2>4, <2>5
<1>. QED BY <1>4, <1>5

LEMMA RouteInv == ASSUME WInv, Route PROVE WInv'
<1>. USE DEF Route, WInv
<1>1. Len(stack) = 3 /\ "mux" = FullStack[Len(stack) + 1] /\ mode = "call"
  BY Depth DEF InOK, Frames, IsNext
<1>2. StackOK' /\ Len(stack') = 4
  BY <1>1, Enters DEF Frames
<1>3. stack # <<>> /\ stack' # <<>>
  <2>1. Len(stack) # 0 /\ Len(stack') # 0
    BY <1>1, <1>2
  <2>. QED BY <2>1, NotEmpty
<1>4. headers' = req.allowed
  BY <1>1 DEF InOK
<1>5. ASSUME NEW code \in 200..502, Write(code), mode' = "return" PROVE WInv'
  BY <1>1, <1>2, <1>3, <1>4, <1>5, Answered
<1>6. ASSUME Silent, mode' \in {"handle", "auth"} PROVE WInv'
  <2>1. WayTypeOK'
    BY <1>6 DEF WayTypeOK, Silent
  <2>2. InOK'
    BY <1>1, <1>2, <1>4, <1>6 DEF InOK, Silent
  <2>3. OutOK'
    BY <1>6 DEF OutOK
  <2>. QED BY <1>2, <2>1, <2>2, <2>3
<1>7. 404 \in 200..502 /\ 405 \in 200..502
  OBVIOUS
<1>. QED BY <1>5, <1>6, <1>7

LEMMA InnermostInv ==
    ASSUME WInv, Auth \/ Handle \/ Panic
    PROVE  WInv'
<1>. USE DEF WInv
<1>1. /\ Len(stack) = 4 /\ mode \in {"auth", "handle"} /\ req \in Requests
      /\ UNCHANGED <<req, stack, headers, log>>
  BY DEF Auth, Handle, Panic, InOK
<1>2. stack # <<>> /\ headers' = req.allowed
  <2>1. Len(stack) # 0
    BY <1>1
  <2>2. headers' = req.allowed
    BY <1>1 DEF InOK
  <2>. QED BY <2>1, <2>2, NotEmpty
<1>3. StackOK'
  BY <1>1 DEF StackOK
<1>4. ASSUME NEW code \in 200..502, Write(code), mode' = "return" PROVE WInv'
  BY <1>1, <1>2, <1>3, <1>4, Answered
<1>5. ASSUME Silent, mode' = "handle" \/ (mode' = "panic" /\ req.path = "data") PROVE WInv'
  <2>1. WayTypeOK'
    BY <1>1, <1>5 DEF WayTypeOK, Silent
  <2>2. InOK'
    <3>1. mode' \in {"handle", "panic"} /\ wire' = 0 /\ log' = <<>> /\ Len(stack') = 4
      BY <1>1, <1>5 DEF InOK, Silent
    <3>2. mode' = "handle" => req'.path # "unknown"
      BY <1>1, <1>5 DEF InOK
    <3>3. mode' = "panic" => req'.path = "data"
      BY <1>1, <1>5
    <3>4. req' \in Requests /\ headers' = req'.allowed
      BY <1>1, <1>2
    <3>. QED BY <3>1, <3>2, <3>3, <3>4 DEF InOK
  <2>3. OutOK'
    BY <1>5 DEF OutOK
  <2>. QED BY <1>3, <2>1, <2>2, <2>3
<1>6. CASE Auth
  <2>1. 401 \in 200..502
    OBVIOUS
  <2>. QED BY <1>4, <1>5, <1>6, <2>1 DEF Auth
<1>7. CASE Handle
  <2>1. PICK code \in Outcomes[req.path] : Write(code)
    BY <1>7 DEF Handle
  <2>2. req.path \in DOMAIN Outcomes
    <3>1. req.path # "unknown"
      BY <1>7 DEF Handle, InOK
    <3>. QED BY <1>1, <3>1 DEF Requests
  <2>3. code \in 200..502
    BY <2>1, <2>2 DEF Outcomes
  <2>. QED BY <1>4, <1>7, <2>1, <2>3 DEF Handle
<1>8. CASE Panic
  BY <1>5, <1>8 DEF Panic
<1>. QED BY <1>6, <1>7, <1>8

\* The way out: the logger logs the status it sees when it is left.
LEMMA ReturnInv == ASSUME WInv, Return PROVE WInv'
<1>. USE DEF WInv
<1>1. mode = "return" /\ UNCHANGED <<req, headers, status, wire, shown>> /\ req \in Requests
  BY DEF Return, Silent, InOK
<1>2. CASE stack = <<>>
  <2>1. mode' = "done" /\ UNCHANGED <<stack, log>>
    BY <1>2 DEF Return
  <2>2. WayTypeOK'
    BY <1>1, <2>1 DEF WayTypeOK
  <2>3. StackOK'
    BY <2>1 DEF StackOK
  <2>4. InOK'
    BY <1>1, <2>1 DEF InOK
  <2>5. OutOK'
    BY <1>1, <1>2, <2>1 DEF OutOK
  <2>. QED BY <2>2, <2>3, <2>4, <2>5
<1>3. CASE stack # <<>>
  <2>1. /\ stack' = Front(stack) /\ mode' = "return"
        /\ log' = IF Last(stack) = "logger" /\ req.path # "health" THEN Append(log, status) ELSE log
    BY <1>1, <1>3 DEF Return
  <2>2. /\ StackOK' /\ Last(stack) = FullStack[Len(stack)]
        /\ stack' = <<>> <=> Len(stack) = 1
    BY <1>3, <2>1, Leaves
  <2>3. Last(stack) = "logger" <=> stack' = <<>>
    <3>1. Len(stack) \in 1..4
      BY <1>3, <2>1, Leaves DEF StackOK
    <3>2. FullStack[Len(stack)] = "logger" <=> Len(stack) = 1
      BY <3>1, FullStackAt
    <3>. QED BY <2>2, <3>2
  <2>4. log = <<>> /\ wire # 0 /\ shown = req.allowed /\ (req.path # "health" => status = wire)
    BY <1>1, <1>3 DEF OutOK
  <2>5. log' = IF req.path # "health" /\ stack' = <<>> THEN <<wire>> ELSE <<>>
    BY <2>1, <2>3, <2>4
  <2>6. WayTypeOK'
    <3>1. wire \in 200..502
      BY <2>4 DEF WayTypeOK
    <3>2. <<>> \in Seq(200..502) /\ <<wire>> \in Seq(200..502)
      BY <3>1
    <3>3. log' = <<>> \/ log' = <<wire>>
      BY <2>5
    <3>4. log' \in Seq(200..502)
      BY <3>2, <3>3
    <3>. QED BY <1>1, <2>1, <3>4 DEF WayTypeOK
  <2>7. InOK'
    BY <1>1, <2>1 DEF InOK
  <2>8. OutOK'
    BY <1>1, <2>1, <2>4, <2>5 DEF OutOK
  <2>. QED BY <2>2, <2>6, <2>7, <2>8
<1>. QED BY <1>2, <1>3

\* A panic meets Recovery, which is below the logger, so that its 500 is logged.
LEMMA UnwindInv == ASSUME WInv, Unwind PROVE WInv'
<1>. USE DEF WInv
<1>1. /\ mode = "panic" /\ UNCHANGED <<req, headers, log>> /\ req \in Requests /\ Len(stack) \in 2..4
      /\ headers = req.allowed /\ wire = 0 /\ log = <<>> /\ req.path = "data"
  BY DEF Unwind, InOK, StackOK
<1>2. stack # <<>>
  <2>1. Len(stack) # 0
    BY <1>1
  <2>. QED BY <2>1, NotEmpty
<1>3. stack' = Front(stack)
  BY <1>2 DEF Unwind
<1>4. /\ StackOK' /\ Last(stack) = FullStack[Len(stack)] /\ Len(stack') = Len(stack) - 1
  BY <1>2, <1>3, Leaves
<1>5. Last(stack) = "recovery" <=> Len(stack) = 2
  <2>1. FullStack[Len(stack)] = "recovery" <=> Len(stack) = 2
    <3>1. Len(stack) \in 1..4
      BY <1>1
    <3>. QED BY <3>1, FullStackAt
  <2>. QED BY <1>4, <2>1
<1>6. CASE Len(stack) = 2
  <2>1. mode' = "return" /\ Write(500)
    BY <1>2, <1>5, <1>6 DEF Unwind
  <2>2. 500 \in 200..502
    OBVIOUS
  <2>3. /\ wire' = 500 /\ wire' # 0 /\ wire' \in {0} \cup 200..502
        /\ shown' = headers' /\ status' \in 200..502
        /\ req.path # "health" /\ stack # <<>> => status' = 500
    BY <1>1, <2>1, <2>2, Writes
  <2>4. stack' # <<>>
    <3>1. Len(stack') # 0
      BY <1>4, <1>6
    <3>. QED BY <3>1, NotEmpty
  <2>5. WayTypeOK'
    BY <1>1, <2>1, <2>3 DEF WayTypeOK
  <2>6. InOK'
    BY <1>1, <2>1 DEF InOK
  <2>7. OutOK'
    BY <1>1, <1>2, <2>1, <2>3, <2>4 DEF OutOK
  <2>. QED BY <1>4, <2>5, <2>6, <2>7
<1>7. CASE Len(stack) # 2
  <2>1. UNCHANGED mode /\ Silent
    BY <1>2, <1>5, <1>7 DEF Unwind
  <2>2. WayTypeOK'
    BY <1>1, <2>1 DEF WayTypeOK, Silent
  <2>3. InOK'
    BY <1>1, <1>4, <1>7, <2>1 DEF InOK, Silent
  <2>4. OutOK'
    BY <1>1, <2>1 DEF OutOK
  <2>. QED BY <1>4, <2>2, <2>3, <2>4
<1>. QED BY <1>6, <1>7

LEMMA WayIdleInv == WInv /\ UNCHANGED wayVars => WInv'
<1>. SUFFICES ASSUME WInv, UNCHANGED wayVars PROVE WInv'
  OBVIOUS
<1>. USE DEF wayVars, WInv
<1>1. WayTypeOK' /\ StackOK'
  BY DEF WayTypeOK, StackOK
<1>2. InOK' /\ OutOK'
  BY DEF InOK, OutOK
<1>. QED BY <1>1, <1>2

-----------------------------------------------------------------------------
IInv == BInv /\ WInv

LEMMA NextInv == IInv /\ [Next]_vars => IInv'
<1>. SUFFICES ASSUME IInv, [Next]_vars PROVE IInv'
  OBVIOUS
<1>. USE DEF IInv
<1>1. CASE BootNext /\ UNCHANGED wayVars
  BY <1>1, BootStepInv, WayIdleInv
<1>2. CASE Way /\ UNCHANGED bootVars
  <2>1. WInv'
    BY <1>2, AcceptInv, LoggerInv, RecoveryInv, CORSInv, RouteInv, InnermostInv, ReturnInv, UnwindInv DEF Way
  <2>. QED BY <1>2, <2>1, BootIdleInv
<1>3. CASE UNCHANGED vars
  BY <1>3, BootIdleInv, WayIdleInv DEF vars
<1>. QED BY <1>1, <1>2, <1>3 DEF Next, Stopped

\* IInv is inductive.
THEOREM Invariance == Spec => []IInv
<1>1. Init => IInv
  BY BootInitInv, InitWay DEF Init, IInv
<1>. QED BY <1>1, NextInv, PTL DEF Spec

-----------------------------------------------------------------------------
\* The values of the variables stay in their types.
THEOREM TypeCorrect == Spec => []TypeOK
<1>1. IInv => TypeOK
  BY AppFacts DEF IInv, BInv, WInv, WayTypeOK, StackOK, Frames, TypeOK
<1>. QED BY <1>1, Invariance, PTL

\* The platform's value comes first, then the first one of the file that says anything.
THEOREM SettingsHaveTheirSource == Spec => []SettingsComeFromTheirSource
<1>1. IInv => SettingsComeFromTheirSource
  BY DEF IInv, BInv
<1>. QED BY <1>1, Invariance, PTL

\* No connection is accepted before the secrets are there and the database has answered.
THEOREM ListeningMeansReady == Spec => []ListensOnlyWhenReady
<1>1. IInv => ListensOnlyWhenReady
  BY DEF IInv, BInv, StagesOK, ListensOnlyWhenReady
<1>. QED BY <1>1, Invariance, PTL

\* Every request is answered, and logged with the status it was answered with.
THEOREM LogIsTrue == Spec => []LoggedAsSent
<1>1. IInv => LoggedAsSent
  BY DEF IInv, WInv, OutOK, LoggedAsSent
<1>. QED BY <1>1, Invariance, PTL

\* Whichever layer answers, an allowed origin may read the answer, and no other may.
THEOREM OriginReadsEveryAnswer == Spec => []AllowedOriginReadsEveryAnswer
<1>1. IInv => AllowedOriginReadsEveryAnswer
  BY DEF IInv, WInv, OutOK, AllowedOriginReadsEveryAnswer
<1>. QED BY <1>1, Invariance, PTL

=============================================================================
