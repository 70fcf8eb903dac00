----------------------------- MODULE ScriptProofs ----------------------------
(***************************************************************************)
(* That the interpreter of Commands implements Script, for every text.     *)
(*                                                                         *)
(* Script knows no vectors: a loop jumps back to where Beginning says.     *)
(* The invariant adds to that of CommandsProofs that every vector of the   *)
(* interpreter is exact: its commands and the bodies of its loops are all  *)
(* that stands in its interval of the text, and each loop begins where     *)
(* Beginning says.  Then the position of Script is the one behind what the *)
(* activation on top has passed, the loops around it are the upper bounds  *)
(* of the activations above the first, and their iterations are the counts *)
(* of these activations.                                                   *)
(*                                                                         *)
(* Beginning is defined by recursion over the text.  What is needed of it  *)
(* is proved by taking the first position at which it would fail.          *)
(***************************************************************************)
EXTENDS CommandsProofs, FiniteSetTheorems

(* Where a loop jumps back to depends on what is before it.                *)
LEMMA BehindWhichAgrees ==
  ASSUME NEW s, NEW u, NEW b, NEW d, NEW i \in Nat \ {0},
         \A p \in 1..i : s[p] = u[p], \A p \in 1..i - 1 : b[p] = d[p]
  PROVE  Meaning!BehindWhich(s, b, i) = Meaning!BehindWhich(u, d, i)
<1>1. \A p \in 1..i - 1 : p \in 1..i /\ s[p] = u[p] /\ b[p] = d[p]
  OBVIOUS
<1>2. ASSUME NEW p \in 1..i - 1
      PROVE  Meaning!Enclosed(s, b, p, i) <=> Meaning!Enclosed(u, d, p, i)
  <2>1. \A k \in p + 1..i - 1 : k \in 1..i - 1
    OBVIOUS
  <2> QED BY <1>1, <2>1 DEF Meaning!Enclosed
<1>3. s[i] = u[i]
  OBVIOUS
<1>4. Meaning!LabelsOf(s, b, i) = Meaning!LabelsOf(u, d, i)
  BY <1>1, <1>2, <1>3 DEF Meaning!LabelsOf
<1> QED BY <1>3, <1>4 DEF Meaning!BehindWhich

(* f tells for the first n positions of s where a loop there jumps back.   *)
Begins(s, n, f) == f = [i \in 1..n |-> Meaning!BehindWhich(s, f, i)]

(* There is such a function for every text.                                *)
LEMMA BeginningExists ==
  ASSUME NEW s, NEW m \in Nat
  PROVE  \E f : Begins(s, m, f)
<1> DEFINE T == {n \in Nat : ~\E f : Begins(s, n, f)}
           L == OpToRel(<, Nat)
<1>1. SUFFICES ASSUME T # {} PROVE FALSE
  OBVIOUS
<1>2. PICK n \in T : \A y \in T : ~(<<y, n>> \in L)
  <2>1. T \subseteq Nat
    OBVIOUS
  <2> HIDE DEF T, L
  <2> QED BY <1>1, <2>1, WFMin, NatLessThanWellFounded DEF L
<1>3. n \in Nat /\ ~\E f : Begins(s, n, f)
  OBVIOUS
<1>4. CASE n = 0
  <2> DEFINE f == [i \in 1..0 |-> 0]
  <2>1. f = [i \in 1..0 |-> Meaning!BehindWhich(s, f, i)]
    <3>1. \A i \in 1..0 : FALSE
      OBVIOUS
    <3> QED BY <3>1
  <2> HIDE DEF f
  <2>2. Begins(s, n, f)
    BY <1>4, <2>1 DEF Begins
  <2> QED BY <1>3, <2>2
<1>5. CASE n # 0
  <2>1. n - 1 \in Nat
    BY <1>3, <1>5
  <2>2. PICK f : Begins(s, n - 1, f)
    <3>1. <<n - 1, n>> \in L
      BY <1>3, <2>1 DEF OpToRel
    <3>2. n - 1 \notin T
      BY <3>1, <1>2
    <3> QED BY <2>1, <3>2
  <2>3. PICK g : g = [i \in 1..n |-> IF i < n THEN f[i] ELSE Meaning!BehindWhich(s, f, n)]
    OBVIOUS
  <2>4. ASSUME NEW i \in 1..n PROVE g[i] = Meaning!BehindWhich(s, g, i)
    <3>1. \A p \in 1..i - 1 : g[p] = f[p]
      BY <1>3, <2>3
    <3>2. Meaning!BehindWhich(s, f, i) = Meaning!BehindWhich(s, g, i)
      BY <1>3, <3>1, BehindWhichAgrees
    <3>3. CASE i < n
      <4>1. g[i] = f[i] /\ i \in 1..n - 1
        BY <1>3, <2>3, <3>3
      <4>2. f[i] = Meaning!BehindWhich(s, f, i)
        BY <2>2, <4>1 DEF Begins
      <4> QED BY <3>2, <4>1, <4>2
    <3>4. CASE i = n
      <4>1. g[n] = Meaning!BehindWhich(s, f, n)
        BY <1>3, <2>3, <3>4
      <4> QED BY <3>2, <3>4, <4>1
    <3> QED BY <1>3, <3>3, <3>4
  <2>5. Begins(s, n, g)
    BY <2>3, <2>4 DEF Begins
  <2> QED BY <1>3, <2>5
<1> QED BY <1>4, <1>5

(* Two such functions agree as far as both go and the texts do.            *)
LEMMA BeginningUnique ==
  ASSUME NEW s, NEW u, NEW m \in Nat, NEW n \in Nat, NEW f, NEW g,
         m <= n, \A p \in 1..m : s[p] = u[p],
         Begins(s, m, f), Begins(u, n, g)
  PROVE  \A i \in 1..m : f[i] = g[i]
<1> DEFINE T == {i \in Nat : i \in 1..m /\ f[i] # g[i]}
           L == OpToRel(<, Nat)
<1>1. SUFFICES ASSUME T # {} PROVE FALSE
  OBVIOUS
<1>2. PICK i \in T : \A y \in T : ~(<<y, i>> \in L)
  <2>1. T \subseteq Nat
    OBVIOUS
  <2> HIDE DEF T, L
  <2> QED BY <1>1, <2>1, WFMin, NatLessThanWellFounded DEF L
<1>3. i \in Nat /\ i \in 1..m /\ i \in 1..n /\ f[i] # g[i]
  OBVIOUS
<1>4. \A p \in 1..i - 1 : f[p] = g[p]
  <2> TAKE p \in 1..i - 1
  <2>1. p \in Nat /\ p < i /\ p \in 1..m
    BY <1>3
  <2>2. <<p, i>> \in L
    BY <1>3, <2>1 DEF OpToRel
  <2>3. p \notin T
    BY <1>2, <2>2
  <2> QED BY <2>1, <2>3
<1>5. \A p \in 1..i : s[p] = u[p]
  BY <1>3
<1>6. Meaning!BehindWhich(s, f, i) = Meaning!BehindWhich(u, g, i)
  <2>1. i \in Nat \ {0}
    BY <1>3
  <2> QED BY <2>1, <1>4, <1>5, BehindWhichAgrees
<1>7. f[i] = Meaning!BehindWhich(s, f, i) /\ g[i] = Meaning!BehindWhich(u, g, i)
  BY <1>3 DEF Begins
<1> QED BY <1>3, <1>6, <1>7

(* Beginning is such a function, although it is defined by what it is for  *)
(* the loops before.                                                       *)
LEMMA BeginningBegins ==
  ASSUME NEW S, NEW s \in Seq(S)
  PROVE  Begins(s, Len(s), Meaning!Beginning(s))
<1>1. Len(s) \in Nat /\ DOMAIN s = 1..Len(s)
  BY LenProperties
<1>2. PICK f : f = [i \in DOMAIN s |-> Meaning!BehindWhich(s, f, i)]
  <2>1. \E f : Begins(s, Len(s), f)
    BY <1>1, BeginningExists
  <2> QED BY <1>1, <2>1 DEF Begins
<1>3. Meaning!Beginning(s) = CHOOSE b : b = [i \in DOMAIN s |-> Meaning!BehindWhich(s, b, i)]
  BY DEF Meaning!Beginning
<1>4. Meaning!Beginning(s) = [i \in DOMAIN s |-> Meaning!BehindWhich(s, Meaning!Beginning(s), i)]
  BY <1>2, <1>3
<1> QED BY <1>1, <1>4 DEF Begins

(* The loop at position i jumps back behind the last label of its name     *)
(* that is not enclosed, or to the beginning, or nowhere.                  *)
JumpsBack(s, b, i) ==
  /\ s[i].label = NoLabel => b[i] = 0
  /\ s[i].label # NoLabel /\ Meaning!LabelsOf(s, b, i) = {} => b[i] = Meaning!Nowhere
  /\ s[i].label # NoLabel /\ Meaning!LabelsOf(s, b, i) # {} =>
       /\ b[i] \in Meaning!LabelsOf(s, b, i)
       /\ \A p \in Meaning!LabelsOf(s, b, i) : p <= b[i]

LEMMA BeginningJumps ==
  ASSUME NEW S, NEW s \in Seq(S), NEW b, b = Meaning!Beginning(s), NEW i \in 1..Len(s)
  PROVE  JumpsBack(s, b, i) /\ b[i] \in Int /\ b[i] < i
<1>1. Len(s) \in Nat /\ i \in Nat
  BY LenProperties
<1>2. b[i] = Meaning!BehindWhich(s, b, i)
  BY BeginningBegins DEF Begins
<1> DEFINE named == Meaning!LabelsOf(s, b, i)
<1>3. named \in SUBSET (0..i) /\ named \subseteq 1..i - 1
  BY <1>1 DEF Meaning!LabelsOf
<1>4. named # {} => Max(named) \in named /\ \A y \in named : Max(named) >= y
  BY <1>1, <1>3, MaxExists
<1> HIDE DEF named
<1>5. CASE s[i].label = NoLabel
  <2>1. b[i] = 0
    BY <1>2, <1>5 DEF Meaning!BehindWhich
  <2> QED BY <1>1, <1>5, <2>1 DEF JumpsBack
<1>6. CASE s[i].label # NoLabel /\ named = {}
  <2>1. b[i] = Meaning!Nowhere
    BY <1>2, <1>6 DEF Meaning!BehindWhich, named
  <2> QED BY <1>1, <1>6, <2>1 DEF JumpsBack, named, Meaning!Nowhere
<1>7. CASE s[i].label # NoLabel /\ named # {}
  <2>1. b[i] = Max(named)
    <3>1. b[i] = Meaning!Max(named)
      BY <1>2, <1>7 DEF Meaning!BehindWhich, named
    <3> QED BY <3>1 DEF Meaning!Max, Max
  <2>2. b[i] \in named /\ \A p \in named : p <= b[i]
    <3>1. \A y \in named : y \in Int
      BY <1>3
    <3> QED BY <2>1, <1>4, <1>7, <3>1
  <2>3. b[i] \in Int /\ b[i] < i
    <3>1. b[i] \in 1..i - 1
      BY <1>3, <2>2
    <3> QED BY <1>1, <3>1
  <2> QED BY <1>7, <2>2, <2>3 DEF JumpsBack, named
<1> QED BY <1>5, <1>6, <1>7

(* Loops do not overlap: what a loop jumps back behind is not within an    *)
(* earlier loop.                                                           *)
LEMMA LoopsNest ==
  ASSUME NEW S, NEW s \in Seq(S), NEW b, b = Meaning!Beginning(s),
         NEW i \in 1..Len(s), NEW j \in 1..Len(s), i < j, s[i].op = "loop", b[i] >= 0
  PROVE  b[j] >= i \/ b[j] <= b[i]
<1>1. /\ JumpsBack(s, b, j) /\ b[j] \in Int /\ b[i] \in Int /\ Len(s) \in Nat
      /\ i \in Nat /\ j \in Nat
  BY BeginningJumps, LenProperties
<1>2. CASE b[j] = 0 \/ b[j] = Meaning!Nowhere
  BY <1>1, <1>2 DEF Meaning!Nowhere
<1>3. CASE b[j] \in Meaning!LabelsOf(s, b, j)
  <2>1. ~Meaning!Enclosed(s, b, b[j], j) /\ b[j] \in 1..j - 1
    BY <1>3 DEF Meaning!LabelsOf
  <2>2. CASE b[j] < i
    <3>1. i \in b[j] + 1..j - 1
      BY <1>1, <2>1, <2>2
    <3>2. ~(b[i] < b[j])
      BY <2>1, <3>1 DEF Meaning!Enclosed
    <3> QED BY <1>1, <3>2
  <2> QED BY <1>1, <2>2
<1> QED BY <1>1, <1>2, <1>3 DEF JumpsBack

-----------------------------------------------------------------------------

(* A command is what is written at its position of the text.               *)
Written(s, c) ==
  /\ c.id \in 1..Len(s)
  /\ s[c.id].op = c.op /\ s[c.id].label = c.label /\ s[c.id].times = c.loops

(* The commands of v and their bodies are all that stands in its interval: *)
(* a command that is no loop follows the one before it, and a loop follows *)
(* its body, which begins where the text says.                             *)
Exact(b, v) ==
  /\ v.hi = Before(v, Len(v.seq) + 1) + 1
  /\ \A q \in 1..Len(v.seq) :
       IF v.seq[q].op = "loop" THEN b[v.seq[q].id] = Before(v, q)
                               ELSE v.seq[q].id = Before(v, q) + 1

(* No loop of the text lacks its label.                                    *)
LoopsBegin(s, b) == \A i \in 1..Len(s) : s[i].op = "loop" => b[i] >= 0

(* Vectors of commands of s.                                               *)
Faithful(s, C, V) ==
  /\ \A c \in C : Written(s, c)
  /\ \A v \in V : Exact(Meaning!Beginning(s), v)

(* What stands before a position of a vector.                              *)
LEMMA BeforeBounds ==
  ASSUME NEW C, NEW V, NEW v, WellNested(C, V, v)
  PROVE  /\ Len(v.seq) \in Nat /\ v.lo \in Nat /\ v.hi \in Nat
         /\ \A q \in 1..Len(v.seq) + 1 :
              /\ Before(v, q) \in Nat /\ v.lo <= Before(v, q) /\ Before(v, q) < v.hi
              /\ \A p \in 1..q - 1 : v.seq[p].id <= Before(v, q)
         /\ \A q \in 1..Len(v.seq) :
              v.seq[q] \in C /\ v.seq[q].id \in Nat /\ Before(v, q) < v.seq[q].id
<1>1. /\ v.seq \in Seq(C) /\ Len(v.seq) \in Nat /\ v.lo \in Nat /\ v.hi \in Nat
      /\ v.lo < v.hi /\ \A q \in 1..Len(v.seq) : v.seq[q] \in C
  BY ElementOfSeq DEF WellNested, VectorIn
<1>2. \A q \in 1..Len(v.seq) :
        /\ v.seq[q].id \in Nat /\ v.lo < v.seq[q].id /\ v.seq[q].id < v.hi
        /\ \A p \in 1..q - 1 : v.seq[p].id < v.seq[q].id
  BY DEF WellNested
<1>3. ASSUME NEW q \in 1..Len(v.seq) + 1
      PROVE  /\ Before(v, q) \in Nat /\ v.lo <= Before(v, q) /\ Before(v, q) < v.hi
             /\ \A p \in 1..q - 1 : v.seq[p].id <= Before(v, q)
             /\ q <= Len(v.seq) => Before(v, q) < v.seq[q].id
  <2>1. CASE q = 1
    BY <2>1, <1>1, <1>2 DEF Before
  <2>2. CASE q > 1
    <3>1. q - 1 \in 1..Len(v.seq) /\ q # 1 /\ Before(v, q) = v.seq[q - 1].id
      BY <2>2, <1>1 DEF Before
    <3>2. ASSUME NEW p \in 1..q - 1 PROVE v.seq[p].id <= Before(v, q)
      <4>1. CASE p = q - 1
        BY <4>1, <3>1, <1>2
      <4>2. CASE p # q - 1
        <5>1. p \in 1..(q - 1) - 1 /\ p \in 1..Len(v.seq)
          BY <4>2, <3>1, <1>1
        <5> QED BY <5>1, <3>1, <1>2
      <4> QED BY <4>1, <4>2
    <3>3. q <= Len(v.seq) => Before(v, q) < v.seq[q].id
      BY <1>1, <1>2, <3>1
    <3> QED BY <3>1, <3>2, <3>3, <1>1, <1>2
  <2> QED BY <2>1, <2>2
<1>4. \A q \in 1..Len(v.seq) : q \in 1..Len(v.seq) + 1 /\ q <= Len(v.seq)
  BY <1>1
<1> QED BY <1>1, <1>2, <1>3, <1>4

(* A position within the interval of v is that of a command of v or lies   *)
(* within the body of a loop of v.                                         *)
LEMMA Covered ==
  ASSUME NEW C, NEW V, NEW v, WellNested(C, V, v), NEW b, Exact(b, v),
         NEW i \in Nat, v.lo < i, i < v.hi
  PROVE  \E q \in 1..Len(v.seq) :
           /\ Before(v, q) < i /\ i <= v.seq[q].id
           /\ i = v.seq[q].id \/ v.seq[q].op = "loop"
<1> DEFINE T == {q \in 1..Len(v.seq) : i <= v.seq[q].id}
           L == OpToRel(<, Nat)
<1>1. /\ Len(v.seq) \in Nat /\ v.lo \in Nat /\ v.hi \in Nat
      /\ \A q \in 1..Len(v.seq) :
           v.seq[q].id \in Nat /\ Before(v, q) \in Nat /\ Before(v, q) < v.seq[q].id
  <2>1. \A q \in 1..Len(v.seq) : q \in 1..Len(v.seq) + 1
    BY BeforeBounds
  <2> QED BY <2>1, BeforeBounds
<1>2. v.hi = Before(v, Len(v.seq) + 1) + 1
  BY DEF Exact
<1>3. Len(v.seq) # 0 /\ i <= v.seq[Len(v.seq)].id
  <2>1. CASE Len(v.seq) = 0
    BY <2>1, <1>1, <1>2 DEF Before
  <2>2. CASE Len(v.seq) # 0
    BY <2>2, <1>1, <1>2 DEF Before
  <2> QED BY <2>1, <2>2
<1>4. T # {} /\ T \subseteq Nat
  <2>1. Len(v.seq) \in 1..Len(v.seq)
    BY <1>1, <1>3
  <2> QED BY <2>1, <1>1, <1>3
<1>5. PICK q \in T : \A y \in T : ~(<<y, q>> \in L)
  <2> HIDE DEF T, L
  <2> QED BY <1>4, WFMin, NatLessThanWellFounded DEF L
<1>6. q \in 1..Len(v.seq) /\ i <= v.seq[q].id
  OBVIOUS
<1>7. Before(v, q) < i
  <2>1. CASE q = 1
    BY <2>1, <1>1 DEF Before
  <2>2. CASE q > 1
    <3>1. q - 1 \in 1..Len(v.seq) /\ q # 1 /\ q \in Nat /\ q - 1 \in Nat /\ q - 1 < q
      BY <2>2, <1>1, <1>6
    <3>2. <<q - 1, q>> \in L
      BY <3>1 DEF OpToRel
    <3>3. ~(i <= v.seq[q - 1].id)
      BY <3>1, <3>2, <1>5
    <3> QED BY <3>1, <3>3, <1>1 DEF Before
  <2> QED BY <2>1, <2>2, <1>1, <1>6
<1>8. i = v.seq[q].id \/ v.seq[q].op = "loop"
  <2>1. v.seq[q].op # "loop" => v.seq[q].id = Before(v, q) + 1
    BY <1>6 DEF Exact
  <2> QED BY <2>1, <1>1, <1>6, <1>7
<1> QED BY <1>6, <1>7, <1>8

(* A loop behind a command of v, and within the interval of v, does not    *)
(* jump back before that command.                                          *)
LEMMA NoStraddle ==
  ASSUME NEW S, NEW s \in Seq(S), NEW b, b = Meaning!Beginning(s), LoopsBegin(s, b),
         NEW C, NEW V, NEW v, WellNested(C, V, v), Exact(b, v),
         \A c \in C : Written(s, c),
         NEW i \in 1..Len(s), s[i].op = "loop", i < v.hi,
         NEW q \in 1..Len(v.seq), v.seq[q].id < i
  PROVE  b[i] >= v.seq[q].id
<1>1. /\ Len(v.seq) \in Nat /\ v.lo \in Nat /\ v.hi \in Nat /\ Len(s) \in Nat /\ i \in Nat
      /\ q \in Nat /\ b[i] \in Int
  BY BeforeBounds, BeginningJumps, LenProperties
<1>2. \A p \in 1..Len(v.seq) :
        /\ v.seq[p].id \in Nat /\ Before(v, p) \in Nat
        /\ \A r \in 1..p - 1 : v.seq[r].id <= Before(v, p)
        /\ Before(v, p) < v.seq[p].id /\ v.lo <= Before(v, p) /\ v.seq[p] \in C
  <2>1. \A p \in 1..Len(v.seq) : p \in 1..Len(v.seq) + 1
    BY <1>1
  <2> QED BY <2>1, BeforeBounds
<1>3. v.lo < i
  BY <1>1, <1>2
<1>4. PICK p \in 1..Len(v.seq) : /\ Before(v, p) < i /\ i <= v.seq[p].id
                                 /\ i = v.seq[p].id \/ v.seq[p].op = "loop"
  BY <1>1, <1>3, Covered
<1>5. Before(v, p) >= v.seq[q].id
  <2>1. ~(p <= q)
    <3>1. CASE p = q
      BY <3>1, <1>1, <1>2, <1>4
    <3>2. CASE p < q
      <4>1. p \in 1..q - 1
        BY <3>2, <1>1
      <4> QED BY <4>1, <1>1, <1>2, <1>4
    <3> QED BY <3>1, <3>2, <1>1
  <2>2. q \in 1..p - 1
    BY <2>1, <1>1
  <2> QED BY <2>2, <1>1, <1>2
<1>6. Written(s, v.seq[p])
  BY <1>2
<1>7. v.seq[p].op = "loop" => b[v.seq[p].id] = Before(v, p)
  BY DEF Exact
<1>8. CASE i = v.seq[p].id
  <2>1. v.seq[p].op = "loop"
    BY <1>6, <1>8 DEF Written
  <2> QED BY <2>1, <1>5, <1>7, <1>8
<1>9. CASE i # v.seq[p].id
  <2>1. v.seq[p].id \in 1..Len(s) /\ i < v.seq[p].id /\ b[v.seq[p].id] = Before(v, p)
    BY <1>1, <1>2, <1>4, <1>6, <1>7, <1>9 DEF Written
  <2>2. b[i] >= 0
    BY DEF LoopsBegin
  <2>3. b[v.seq[p].id] >= i \/ b[v.seq[p].id] <= b[i]
    BY <2>1, <2>2, LoopsNest
  <2> QED BY <2>1, <2>3, <1>1, <1>2, <1>4, <1>5
<1> QED BY <1>8, <1>9

-----------------------------------------------------------------------------

(* What a text means does not change when a command is added to it.        *)
LEMMA BeginningExtends ==
  ASSUME NEW S, NEW s \in Seq(S), NEW t \in S
  PROVE  /\ Append(s, t) \in Seq(S) /\ Len(Append(s, t)) = Len(s) + 1 /\ Len(s) \in Nat
         /\ Append(s, t)[Len(s) + 1] = t
         /\ \A p \in 1..Len(s) :
              /\ Append(s, t)[p] = s[p]
              /\ Meaning!Beginning(Append(s, t))[p] = Meaning!Beginning(s)[p]
<1> DEFINE u == Append(s, t)
<1>1. /\ u \in Seq(S) /\ Len(u) = Len(s) + 1 /\ Len(s) \in Nat /\ u[Len(s) + 1] = t
      /\ \A p \in 1..Len(s) : u[p] = s[p]
  BY LenProperties
<1> HIDE DEF u
<1>2. Begins(s, Len(s), Meaning!Beginning(s)) /\ Begins(u, Len(u), Meaning!Beginning(u))
  BY <1>1, BeginningBegins
<1>3. \A p \in 1..Len(s) : Meaning!Beginning(s)[p] = Meaning!Beginning(u)[p]
  <2>1. Len(u) \in Nat /\ Len(s) <= Len(u) /\ \A p \in 1..Len(s) : s[p] = u[p]
    BY <1>1
  <2>2. PICK f : f = Meaning!Beginning(s)
    OBVIOUS
  <2>3. PICK g : g = Meaning!Beginning(u)
    OBVIOUS
  <2>4. Begins(s, Len(s), f) /\ Begins(u, Len(u), g)
    BY <1>2, <2>2, <2>3
  <2>5. \A p \in 1..Len(s) : f[p] = g[p]
    <3>1. PICK m : m = Len(s)
      OBVIOUS
    <3>2. PICK n : n = Len(u)
      OBVIOUS
    <3>3. m \in Nat /\ n \in Nat /\ m <= n
      BY <1>1, <2>1, <3>1, <3>2
    <3>4. \A p \in 1..m : s[p] = u[p]
      BY <2>1, <3>1
    <3>5. Begins(s, m, f)
      BY <2>4, <3>1
    <3>6. Begins(u, n, g)
      BY <2>4, <3>2
    <3>7. \A p \in 1..m : f[p] = g[p]
      BY <3>3, <3>4, <3>5, <3>6, BeginningUnique
    <3> QED BY <3>1, <3>7
  <2> QED BY <2>2, <2>3, <2>5
<1> QED BY <1>1, <1>3 DEF u

(* The vector of the text s, as it stands when t is read behind it.        *)
TextOf(s, C, V, v) ==
  /\ WellNested(C, V, v) /\ Exact(Meaning!Beginning(s), v)
  /\ Faithful(s, C, V) /\ LoopsBegin(s, Meaning!Beginning(s))
  /\ v.lo = 0 /\ v.hi = Len(s) + 1

NamedOf(v, t) ==
  {q \in 1..Len(v.seq) : v.seq[q].op = "label" /\ v.seq[q].label = t.label}

(* The labels of the text that no loop has enclosed are those that are     *)
(* still in the vector (Loop::PopToInnerSequence looks only there).        *)
LEMMA LabelsInVector ==
  ASSUME NEW S, NEW s \in Seq(S), NEW t \in S, NEW C, NEW V, NEW v, TextOf(s, C, V, v)
  PROVE  Meaning!LabelsOf(Append(s, t), Meaning!Beginning(Append(s, t)), Len(s) + 1)
           = {v.seq[q].id : q \in NamedOf(v, t)}
<1> DEFINE n == Len(s)
<1>1. PICK u : u = Append(s, t)
  OBVIOUS
<1>2. PICK b : b = Meaning!Beginning(s)
  OBVIOUS
<1>3. PICK d : d = Meaning!Beginning(u)
  OBVIOUS
<1>4. /\ n \in Nat /\ u[n + 1] = t
      /\ \A p \in 1..n : u[p] = s[p] /\ d[p] = b[p]
  BY <1>1, <1>2, <1>3, BeginningExtends
<1>5. /\ WellNested(C, V, v) /\ Exact(b, v) /\ LoopsBegin(s, b) /\ v.lo = 0 /\ v.hi = n + 1
      /\ \A c \in C : Written(s, c)
  BY <1>2 DEF TextOf, Faithful
<1>6. \A q \in 1..Len(v.seq) :
        /\ Written(s, v.seq[q]) /\ v.seq[q].id \in Nat /\ Before(v, q) \in Nat
        /\ v.seq[q].id \in 1..n
  <2>1. \A q \in 1..Len(v.seq) : q \in 1..Len(v.seq) + 1
    BY <1>5, BeforeBounds
  <2>2. \A q \in 1..Len(v.seq) : v.seq[q] \in C
    BY <1>5, BeforeBounds
  <2>3. \A q \in 1..Len(v.seq) : v.seq[q].id \in Nat /\ Before(v, q) \in Nat
    BY <1>5, <2>1, BeforeBounds
  <2> QED BY <1>5, <2>2, <2>3 DEF Written
<1>7. ASSUME NEW p \in Meaning!LabelsOf(u, d, n + 1)
      PROVE  \E q \in NamedOf(v, t) : p = v.seq[q].id
  <2>1. /\ p \in 1..n /\ s[p].op = "label" /\ s[p].label = t.label
        /\ \A k \in p + 1..n : ~(s[k].op = "loop" /\ b[k] < p)
    <3>1. p \in 1..(n + 1) - 1 /\ u[p].op = "label" /\ u[p].label = u[n + 1].label
      BY DEF Meaning!LabelsOf
    <3>2. \A k \in p + 1..(n + 1) - 1 : ~(u[k].op = "loop" /\ d[k] < p)
      BY DEF Meaning!LabelsOf, Meaning!Enclosed
    <3>3. p \in 1..n /\ \A k \in p + 1..n : k \in 1..n /\ k \in p + 1..(n + 1) - 1
      BY <1>4, <3>1
    <3> QED BY <1>4, <3>1, <3>2, <3>3
  <2>2. PICK q \in 1..Len(v.seq) : /\ Before(v, q) < p /\ p <= v.seq[q].id
                                   /\ p = v.seq[q].id \/ v.seq[q].op = "loop"
    <3>1. p \in Nat /\ v.lo < p /\ p < v.hi
      BY <1>4, <1>5, <2>1
    <3> QED BY <1>5, <3>1, Covered
  <2>3. CASE p = v.seq[q].id
    <3>1. q \in NamedOf(v, t)
      BY <1>6, <2>1, <2>3 DEF NamedOf, Written
    <3> QED BY <2>3, <3>1
  <2>4. CASE p # v.seq[q].id
    <3>1. b[v.seq[q].id] = Before(v, q) /\ s[v.seq[q].id].op = "loop"
      BY <1>5, <1>6, <2>2, <2>4 DEF Exact, Written
    <3>2. v.seq[q].id \in p + 1..n
      BY <1>4, <1>6, <2>1, <2>2, <2>4
    <3> QED BY <2>1, <2>2, <3>1, <3>2
  <2> QED BY <2>3, <2>4
<1>8. ASSUME NEW q \in NamedOf(v, t)
      PROVE  v.seq[q].id \in Meaning!LabelsOf(u, d, n + 1)
  <2>1. q \in 1..Len(v.seq) /\ v.seq[q].op = "label" /\ v.seq[q].label = t.label
    BY DEF NamedOf
  <2>2. PICK p : p = v.seq[q].id
    OBVIOUS
  <2>3. p \in 1..(n + 1) - 1 /\ u[p].op = "label" /\ u[p].label = u[n + 1].label
    <3>1. p \in 1..n /\ s[p].op = "label" /\ s[p].label = t.label
      BY <1>6, <2>1, <2>2 DEF Written
    <3> QED BY <1>4, <3>1
  <2>4. ASSUME NEW k \in p + 1..(n + 1) - 1, u[k].op = "loop" PROVE ~(d[k] < p)
    <3>1. k \in 1..n /\ p \in 1..n /\ p < k /\ k < v.hi
      BY <1>4, <1>5, <2>3
    <3>2. s[k].op = "loop" /\ d[k] = b[k]
      BY <1>4, <2>4, <3>1
    <3>3. b[k] >= p
      BY <1>2, <1>5, <2>1, <2>2, <3>1, <3>2, NoStraddle
    <3>4. b[k] \in Int
      BY <1>2, <3>1, BeginningJumps
    <3> QED BY <1>4, <3>1, <3>2, <3>3, <3>4
  <2>5. ~Meaning!Enclosed(u, d, p, n + 1)
    BY <2>4 DEF Meaning!Enclosed
  <2> QED BY <2>2, <2>3, <2>5 DEF Meaning!LabelsOf
<1>9. Meaning!LabelsOf(u, d, n + 1) = {v.seq[q].id : q \in NamedOf(v, t)}
  BY <1>7, <1>8
<1> QED BY <1>1, <1>3, <1>9

(* A loop that is read jumps back behind the command that                  *)
(* Loop::PopToInnerSequence leaves last in the vector, and nowhere if its  *)
(* label is not there.                                                     *)
LEMMA LoopBegins ==
  ASSUME NEW S, NEW s \in Seq(S), NEW t \in S, NEW C, NEW V, NEW v, TextOf(s, C, V, v),
         NEW d, d = Meaning!Beginning(Append(s, t))[Len(s) + 1]
  PROVE  /\ t.label = NoLabel => d = 0
         /\ t.label # NoLabel /\ NamedOf(v, t) = {} => d = Meaning!Nowhere
         /\ t.label # NoLabel /\ NamedOf(v, t) # {} =>
              /\ Max(NamedOf(v, t)) \in 1..Len(v.seq)
              /\ d = Before(v, Max(NamedOf(v, t)) + 1)
<1> DEFINE n == Len(s)
           named == NamedOf(v, t)
           ids == {v.seq[q].id : q \in named}
<1>1. PICK u : u = Append(s, t)
  OBVIOUS
<1>2. PICK f : f = Meaning!Beginning(u)
  OBVIOUS
<1>3. u \in Seq(S) /\ Len(u) = n + 1 /\ n \in Nat /\ u[n + 1] = t
  BY <1>1, BeginningExtends
<1>4. JumpsBack(u, f, n + 1)
  <2>1. n + 1 \in 1..Len(u)
    BY <1>3
  <2> QED BY <1>2, <1>3, <2>1, BeginningJumps
<1>5. Meaning!LabelsOf(u, f, n + 1) = ids
  BY <1>1, <1>2, LabelsInVector
<1>6. d = f[n + 1]
  BY <1>1, <1>2
<1>7. WellNested(C, V, v)
  BY DEF TextOf
<1>8. named \subseteq 1..Len(v.seq) /\ named \in SUBSET (0..Len(v.seq)) /\ Len(v.seq) \in Nat
  BY <1>7, BeforeBounds DEF NamedOf
<1>9. ids = {} <=> named = {}
  OBVIOUS
<1>10. ASSUME named # {}, d \in ids, \A p \in ids : p <= d
       PROVE  Max(named) \in 1..Len(v.seq) /\ d = Before(v, Max(named) + 1)
  <2> HIDE DEF named
  <2>1. Max(named) \in named /\ \A q \in named : Max(named) >= q
    BY <1>8, <1>10, MaxExists
  <2>2. PICK m : m = Max(named)
    OBVIOUS
  <2>3. m \in 1..Len(v.seq) /\ m \in named /\ \A q \in named : m >= q
    BY <1>8, <2>1, <2>2
  <2>4. Before(v, m + 1) = v.seq[m].id
    BY <2>3 DEF Before
  <2>5. v.seq[m].id <= d
    BY <1>10, <2>3
  <2>6. PICK q \in named : d = v.seq[q].id
    BY <1>10
  <2>7. q \in 1..(m + 1) - 1 /\ q \in 1..Len(v.seq)
    BY <1>8, <2>3
  <2>8. /\ v.seq[q].id <= Before(v, m + 1)
        /\ v.seq[q].id \in Nat /\ v.seq[m].id \in Nat
    <3>1. m + 1 \in 1..Len(v.seq) + 1
      BY <2>3
    <3> QED BY <1>7, <2>3, <2>7, <3>1, BeforeBounds
  <2>9. d = v.seq[m].id
    BY <2>4, <2>5, <2>6, <2>8
  <2> QED BY <2>2, <2>3, <2>4, <2>9
<1> HIDE DEF ids, named
<1> QED BY <1>3, <1>4, <1>5, <1>6, <1>9, <1>10 DEF JumpsBack, named

-----------------------------------------------------------------------------

(* A vector stays exact when the text grows behind it.                     *)
LEMMA ExactExtends ==
  ASSUME NEW S, NEW s \in Seq(S), NEW t \in S, NEW C, NEW V, NEW v, WellNested(C, V, v),
         \A c \in C : Written(s, c), Exact(Meaning!Beginning(s), v)
  PROVE  Exact(Meaning!Beginning(Append(s, t)), v)
<1>1. PICK b : b = Meaning!Beginning(s)
  OBVIOUS
<1>2. PICK d : d = Meaning!Beginning(Append(s, t))
  OBVIOUS
<1>3. \A p \in 1..Len(s) : d[p] = b[p]
  BY <1>1, <1>2, BeginningExtends
<1>4. \A q \in 1..Len(v.seq) : v.seq[q].id \in 1..Len(s)
  <2>1. \A q \in 1..Len(v.seq) : v.seq[q] \in C
    BY BeforeBounds
  <2> QED BY <2>1 DEF Written
<1>5. Exact(b, v)
  BY <1>1
<1>6. Exact(d, v)
  BY <1>3, <1>4, <1>5 DEF Exact
<1> QED BY <1>2, <1>6

(* A command stays written when the text grows behind it.                  *)
LEMMA WrittenExtends ==
  ASSUME NEW S, NEW s \in Seq(S), NEW t \in S, NEW c, Written(s, c)
  PROVE  Written(Append(s, t), c)
<1>1. PICK u : u = Append(s, t)
  OBVIOUS
<1>2. Len(u) = Len(s) + 1 /\ Len(s) \in Nat /\ \A p \in 1..Len(s) : u[p] = s[p]
  BY <1>1, BeginningExtends
<1>3. Written(u, c)
  BY <1>2 DEF Written
<1> QED BY <1>1, <1>3

(* The rest of an exact vector is exact.                                   *)
LEMMA RestExact ==
  ASSUME NEW C, NEW V, NEW v, WellNested(C, V, v), NEW b, Exact(b, v), NEW m \in 0..Len(v.seq)
  PROVE  Exact(b, Rest(v, m))
<1>1. PICK r : r = Rest(v, m)
  OBVIOUS
<1>2. PICK n : n = Len(v.seq)
  OBVIOUS
<1>3. n \in Nat /\ m \in Nat /\ m <= n /\ v \in VectorIn(C) /\ r.hi = v.hi
  BY <1>1, <1>2, BeforeBounds DEF WellNested, Rest
<1>4. /\ Len(r.seq) = n - m
      /\ \A i \in 1..n - m : m + i \in 1..n /\ r.seq[i] = v.seq[m + i]
      /\ \A i \in 1..(n - m) + 1 : Before(r, i) = Before(v, m + i)
  <2>1. /\ Len(Rest(v, m).seq) = Len(v.seq) - m
        /\ \A i \in 1..Len(v.seq) - m :
             m + i \in 1..Len(v.seq) /\ Rest(v, m).seq[i] = v.seq[m + i]
        /\ \A i \in 1..(Len(v.seq) - m) + 1 : Before(Rest(v, m), i) = Before(v, m + i)
    BY <1>3, RestOf
  <2> QED BY <1>1, <1>2, <2>1
<1>5. r.hi = Before(r, Len(r.seq) + 1) + 1
  <2>1. (n - m) + 1 \in 1..(n - m) + 1 /\ m + ((n - m) + 1) = n + 1
    BY <1>3
  <2> QED BY <1>2, <1>3, <1>4, <2>1 DEF Exact
<1>6. ASSUME NEW q \in 1..Len(r.seq)
      PROVE  IF r.seq[q].op = "loop" THEN b[r.seq[q].id] = Before(r, q)
                                     ELSE r.seq[q].id = Before(r, q) + 1
  <2>1. q \in 1..n - m /\ q \in 1..(n - m) + 1
    BY <1>3, <1>4
  <2>2. r.seq[q] = v.seq[m + q] /\ Before(r, q) = Before(v, m + q) /\ m + q \in 1..Len(v.seq)
    BY <1>2, <1>4, <2>1
  <2> QED BY <2>2 DEF Exact
<1>7. Exact(b, r)
  BY <1>5, <1>6 DEF Exact
<1> QED BY <1>1, <1>7

(* The command c is read behind v: it is a loop that begins behind         *)
(* position m, or m is the end of v.                                       *)
Fits(b, v, m, c) ==
  /\ c.id = v.hi
  /\ IF c.op = "loop" THEN b[c.id] = Before(v, m + 1) ELSE m = Len(v.seq)

(* The vector is exact with the command that is read.                      *)
LEMMA ClosingExact ==
  ASSUME NEW C, NEW V, NEW v, WellNested(C, V, v), NEW b, Exact(b, v),
         NEW m \in 0..Len(v.seq), NEW c, Fits(b, v, m, c)
  PROVE  Exact(b, Closing(v, m, c))
<1>1. PICK w : w = Closing(v, m, c)
  OBVIOUS
<1>2. m \in Nat /\ m <= Len(v.seq) /\ v \in VectorIn(C) /\ w.hi = v.hi + 1 /\ Len(v.seq) \in Nat
  BY <1>1, BeforeBounds DEF WellNested, Closing
<1>3. /\ Len(w.seq) = m + 1 /\ w.seq[m + 1] = c
      /\ \A i \in 1..m : w.seq[i] = v.seq[i]
      /\ \A i \in 1..m + 1 : Before(w, i) = Before(v, i)
  <2>1. v \in VectorIn(C)
    BY <1>2
  <2>2. ASSUME NEW x
        PROVE  /\ Closing(v, m, x).seq \in Seq(C \cup {x})
               /\ Len(Closing(v, m, x).seq) = m + 1 /\ Closing(v, m, x).seq[m + 1] = x
               /\ \A i \in 1..m : Closing(v, m, x).seq[i] = v.seq[i]
               /\ \A i \in 1..m + 1 : Before(Closing(v, m, x), i) = Before(v, i)
    BY <2>1, ClosingOf
  <2> QED BY <1>1, <2>2
<1>4. w.hi = Before(w, Len(w.seq) + 1) + 1
  <2>1. Before(w, m + 2) = c.id
    BY <1>2, <1>3 DEF Before, Fits
  <2>2. Len(w.seq) + 1 = m + 2
    BY <1>2, <1>3
  <2> QED BY <1>2, <2>1, <2>2 DEF Fits
<1>5. ASSUME NEW q \in 1..Len(w.seq)
      PROVE  IF w.seq[q].op = "loop" THEN b[w.seq[q].id] = Before(w, q)
                                     ELSE w.seq[q].id = Before(w, q) + 1
  <2>1. Before(w, q) = Before(v, q)
    BY <1>3
  <2>2. CASE q \in 1..m
    <3>1. w.seq[q] = v.seq[q] /\ q \in 1..Len(v.seq)
      BY <1>2, <1>3, <2>2
    <3> QED BY <2>1, <3>1 DEF Exact
  <2>3. CASE q = m + 1
    <3>1. w.seq[q] = c
      BY <1>3, <2>3
    <3>2. c.op # "loop" => c.id = Before(v, m + 1) + 1
      BY DEF Exact, Fits
    <3> QED BY <2>1, <2>3, <3>1, <3>2 DEF Fits
  <2> QED BY <1>2, <1>3, <2>2, <2>3
<1>6. Exact(b, w)
  BY <1>4, <1>5 DEF Exact
<1> QED BY <1>1, <1>6

(* The vector stays that of the text when a command is read.               *)
LEMMA TextGrows ==
  ASSUME NEW S, NEW s \in Seq(S), NEW t \in S, NEW C, NEW V, NEW v,
         TextOf(s, C, V, v), Closed(C, V), NEW m \in 0..Len(v.seq),
         NEW c, c.id = v.hi, c.op = t.op, c.label = t.label, c.loops = t.times,
         IF t.op = "loop" THEN Meaning!Beginning(Append(s, t))[v.hi] = Before(v, m + 1)
                          ELSE m = Len(v.seq)
  PROVE  /\ Faithful(Append(s, t), C \cup {c}, V \cup {Rest(v, m)})
         /\ LoopsBegin(Append(s, t), Meaning!Beginning(Append(s, t)))
         /\ Exact(Meaning!Beginning(Append(s, t)), Closing(v, m, c))
<1>1. PICK u : u = Append(s, t)
  OBVIOUS
<1>2. PICK d : d = Meaning!Beginning(u)
  OBVIOUS
<1>3. PICK b : b = Meaning!Beginning(s)
  OBVIOUS
<1>4. /\ Len(u) = Len(s) + 1 /\ Len(s) \in Nat /\ u[Len(s) + 1] = t
      /\ \A p \in 1..Len(s) : u[p] = s[p] /\ d[p] = b[p]
  BY <1>1, <1>2, <1>3, BeginningExtends
<1>5. /\ WellNested(C, V, v) /\ Exact(b, v) /\ LoopsBegin(s, b) /\ v.hi = Len(s) + 1
      /\ \A x \in C : Written(s, x)
      /\ \A w \in V : Exact(b, w) /\ WellNested(C, V, w)
  BY <1>3 DEF TextOf, Faithful, Closed
<1>6. Written(u, c)
  BY <1>4, <1>5 DEF Written
<1>7. \A x \in C \cup {c} : Written(u, x)
  BY <1>1, <1>5, <1>6, WrittenExtends
<1>8. Exact(d, v) /\ \A w \in V : Exact(d, w)
  BY <1>1, <1>2, <1>3, <1>5, ExactExtends
<1>9. Exact(d, Rest(v, m))
  BY <1>5, <1>8, RestExact
<1>10. Faithful(u, C \cup {c}, V \cup {Rest(v, m)})
  BY <1>2, <1>7, <1>8, <1>9 DEF Faithful
<1>11. IF t.op = "loop" THEN d[v.hi] = Before(v, m + 1) ELSE m = Len(v.seq)
  BY <1>1, <1>2
<1>12. Exact(d, Closing(v, m, c))
  BY <1>5, <1>8, <1>11, ClosingExact DEF Fits
<1>13. LoopsBegin(u, d)
  <2>1. ASSUME NEW i \in 1..Len(u), u[i].op = "loop" PROVE d[i] >= 0
    <3>1. CASE i \in 1..Len(s)
      BY <1>4, <1>5, <2>1, <3>1 DEF LoopsBegin
    <3>2. CASE i = Len(s) + 1
      <4>1. d[i] = Before(v, m + 1)
        BY <1>4, <1>5, <1>11, <2>1, <3>2
      <4>2. m + 1 \in 1..Len(v.seq) + 1
        BY <1>5, BeforeBounds
      <4>3. Before(v, m + 1) \in Nat
        BY <1>5, <4>2, BeforeBounds
      <4> QED BY <4>1, <4>3
    <3> QED BY <1>4, <3>1, <3>2
  <2> QED BY <2>1 DEF LoopsBegin
<1> QED BY <1>1, <1>2, <1>10, <1>12, <1>13

-----------------------------------------------------------------------------

(* A set that is listed without repetition has as many elements as the     *)
(* list.                                                                   *)
LEMMA ListedCardinality ==
  ASSUME NEW m \in Nat, NEW f, \A i, j \in 1..m : f[i] = f[j] => i = j
  PROVE  Cardinality({f[i] : i \in 1..m}) = m
<1> DEFINE A == {f[i] : i \in 1..m}
           g == [i \in 1..m |-> f[i]]
<1>1. g \in Bijection(1..m, A)
  BY DEF Bijection, Injection, Surjection, IsInjective
<1>2. ExistsBijection(1..m, A)
  BY <1>1 DEF ExistsBijection
<1> HIDE DEF A
<1>3. Cardinality(A) = m
  BY <1>2, FS_CountingElements
<1> QED BY <1>3 DEF A

(* The same cardinality, as the instance of Script names it.               *)
LEMMA SameCardinality ==
  ASSUME NEW A
  PROVE  Meaning!Cardinality(A) = Cardinality(A)
BY DEF Meaning!Cardinality, Cardinality

(* The upper bounds of the activations above the first, which are the      *)
(* loops around them, and their ranks from the outermost.                  *)
Descending(n, h) ==
  \A k \in 2..n : h[k] \in Nat /\ \A j \in 2..k - 1 : h[k] < h[j]

LEMMA Ranks ==
  ASSUME NEW n \in Nat \ {0}, NEW h, Descending(n, h)
  PROVE  /\ Cardinality({h[k] : k \in 2..n}) = n - 1
         /\ \A k \in 2..n :
              Cardinality({x \in {h[j] : j \in 2..n} : x >= h[k]}) = k - 1
<1>1. ASSUME NEW m \in 1..n
      PROVE  Cardinality({h[k] : k \in 2..m}) = m - 1
  <2>1. PICK f : f = [i \in 1..m - 1 |-> h[i + 1]]
    OBVIOUS
  <2>2. \A i \in 1..m - 1 : f[i] = h[i + 1] /\ i + 1 \in 2..n
    BY <2>1
  <2>3. ASSUME NEW i \in 1..m - 1, NEW j \in 1..m - 1, f[i] = f[j]
        PROVE  i = j
    <3>1. CASE i < j
      <4>1. i + 1 \in 2..(j + 1) - 1
        BY <3>1
      <4>2. h[j + 1] < h[i + 1]
        BY <2>2, <4>1 DEF Descending
      <4> QED BY <2>2, <2>3, <4>2 DEF Descending
    <3>2. CASE j < i
      <4>1. j + 1 \in 2..(i + 1) - 1
        BY <3>2
      <4>2. h[i + 1] < h[j + 1]
        BY <2>2, <4>1 DEF Descending
      <4> QED BY <2>2, <2>3, <4>2 DEF Descending
    <3> QED BY <3>1, <3>2
  <2>4. m - 1 \in Nat
    OBVIOUS
  <2>5. Cardinality({f[i] : i \in 1..m - 1}) = m - 1
    BY <2>3, <2>4, ListedCardinality
  <2>6. {f[i] : i \in 1..m - 1} = {h[k] : k \in 2..m}
    <3>1. \A i \in 1..m - 1 : f[i] = h[i + 1] /\ i + 1 \in 2..m
      BY <2>1
    <3>2. \A k \in 2..m : k - 1 \in 1..m - 1 /\ f[k - 1] = h[k]
      BY <2>1
    <3> QED BY <3>1, <3>2
  <2> QED BY <2>5, <2>6
<1>2. ASSUME NEW k \in 2..n
      PROVE  {x \in {h[j] : j \in 2..n} : x >= h[k]} = {h[j] : j \in 2..k}
  <2>1. ASSUME NEW j \in 2..n PROVE h[j] >= h[k] <=> j \in 2..k
    <3>1. CASE j < k
      BY <3>1 DEF Descending
    <3>2. CASE j = k
      BY <3>2 DEF Descending
    <3>3. CASE j > k
      BY <3>3 DEF Descending
    <3> QED BY <3>1, <3>2, <3>3
  <2>2. \A j \in 2..k : j \in 2..n
    OBVIOUS
  <2> QED BY <2>1, <2>2
<1>3. n \in 1..n /\ \A k \in 2..n : k \in 1..n
  OBVIOUS
<1> QED BY <1>1, <1>2, <1>3

-----------------------------------------------------------------------------

(* The activation k runs the body of the loop that the one below it is at, *)
(* and the first runs the script, which ends at e.  Its suffix has a count *)
(* for each activation below it.                                           *)
Inside(fs, lo, hi, e, k) ==
  /\ Len(fs[k].loopsuffix) = k - 1
  /\ k = 1 => lo[k] = 0 /\ hi[k] = e
  /\ k > 1 =>
       /\ lo[k] = LastPassed(fs[k - 1], lo[k - 1]) /\ hi[k] = Current(fs[k - 1])
       /\ fs[k - 1].seq[fs[k - 1].it].op = "loop"
       /\ fs[k].loops = fs[k - 1].seq[fs[k - 1].it].loops

(* The activations of a run of the script s.                               *)
RunOf(s, C, V, fs, lo, hi) ==
  /\ Closed(C, V) /\ Stack(C, V, fs, lo, hi) /\ Len(fs) # 0
  /\ Faithful(s, C, V) /\ LoopsBegin(s, Meaning!Beginning(s))
  /\ \A k \in 1..Len(fs) : Inside(fs, lo, hi, Len(s) + 1, k)

(* What the nesting of the activations says of their intervals.            *)
LEMMA Intervals ==
  ASSUME NEW s, NEW C, NEW V, NEW fs, NEW lo, NEW hi, RunOf(s, C, V, fs, lo, hi)
  PROVE  /\ Len(fs) \in Nat \ {0} /\ Len(fs) \in 1..Len(fs)
         /\ \A k \in 1..Len(fs) :
              /\ fs[k] \in FrameIn(C) /\ lo[k] \in Nat /\ hi[k] \in Nat
              /\ fs[k].it \in 1..Len(fs[k].seq) + 1 /\ Len(fs[k].seq) \in Nat
              /\ VectorOf(fs[k], lo[k], hi[k]) \in V
              /\ WellNested(C, V, VectorOf(fs[k], lo[k], hi[k]))
              /\ Exact(Meaning!Beginning(s), VectorOf(fs[k], lo[k], hi[k]))
              /\ LastPassed(fs[k], lo[k]) \in Nat
              /\ lo[k] <= LastPassed(fs[k], lo[k]) /\ LastPassed(fs[k], lo[k]) < hi[k]
              /\ fs[k].it <= Len(fs[k].seq) =>
                   /\ Current(fs[k]) \in Nat /\ Current(fs[k]) < hi[k]
                   /\ LastPassed(fs[k], lo[k]) < Current(fs[k])
                   /\ Written(s, fs[k].seq[fs[k].it])
              /\ \A j \in 1..k - 1 :
                   /\ fs[j].it <= Len(fs[j].seq)
                   /\ LastPassed(fs[j], lo[j]) <= lo[k] /\ hi[k] <= Current(fs[j])
                   /\ hi[k] < hi[j]
                   /\ Continues(fs[k].loopsuffix, fs[j].loopsuffix)
<1> USE DEF RunOf
<1>1. Len(fs) \in Nat \ {0} /\ fs \in Seq(FrameIn(C))
  BY StackType DEF Stack
<1>2. Len(fs) \in 1..Len(fs)
  BY <1>1
<1> SUFFICES ASSUME NEW k \in 1..Len(fs)
    PROVE     /\ fs[k] \in FrameIn(C) /\ lo[k] \in Nat /\ hi[k] \in Nat
              /\ fs[k].it \in 1..Len(fs[k].seq) + 1 /\ Len(fs[k].seq) \in Nat
              /\ VectorOf(fs[k], lo[k], hi[k]) \in V
              /\ WellNested(C, V, VectorOf(fs[k], lo[k], hi[k]))
              /\ Exact(Meaning!Beginning(s), VectorOf(fs[k], lo[k], hi[k]))
              /\ LastPassed(fs[k], lo[k]) \in Nat
              /\ lo[k] <= LastPassed(fs[k], lo[k]) /\ LastPassed(fs[k], lo[k]) < hi[k]
              /\ fs[k].it <= Len(fs[k].seq) =>
                   /\ Current(fs[k]) \in Nat /\ Current(fs[k]) < hi[k]
                   /\ LastPassed(fs[k], lo[k]) < Current(fs[k])
                   /\ Written(s, fs[k].seq[fs[k].it])
              /\ \A j \in 1..k - 1 :
                   /\ fs[j].it <= Len(fs[j].seq)
                   /\ LastPassed(fs[j], lo[j]) <= lo[k] /\ hi[k] <= Current(fs[j])
                   /\ hi[k] < hi[j]
                   /\ Continues(fs[k].loopsuffix, fs[j].loopsuffix)
  BY <1>1, <1>2
<1>3. Level(V, fs, lo, hi, k)
  BY DEF Stack
<1>4. /\ fs[k] \in FrameIn(C) /\ lo[k] \in Nat /\ hi[k] \in Nat
      /\ WellNested(C, V, VectorOf(fs[k], lo[k], hi[k]))
      /\ lo[k] <= LastPassed(fs[k], lo[k]) /\ LastPassed(fs[k], lo[k]) < hi[k]
      /\ LastPassed(fs[k], lo[k]) \in Nat
      /\ fs[k].it <= Len(fs[k].seq) =>
           /\ Current(fs[k]) \in Nat /\ Current(fs[k]) < hi[k]
           /\ LastPassed(fs[k], lo[k]) < Current(fs[k])
  BY StackType
<1>5. fs[k].it \in 1..Len(fs[k].seq) + 1 /\ VectorOf(fs[k], lo[k], hi[k]) \in V
  BY <1>3 DEF Level
<1>6. Exact(Meaning!Beginning(s), VectorOf(fs[k], lo[k], hi[k])) /\ \A c \in C : Written(s, c)
  BY <1>5 DEF Faithful
<1>7. fs[k].seq \in Seq(C) /\ Len(fs[k].seq) \in Nat
  BY <1>4 DEF FrameIn
<1>8. ASSUME fs[k].it <= Len(fs[k].seq) PROVE Written(s, fs[k].seq[fs[k].it])
  <2>1. fs[k].it \in 1..Len(fs[k].seq)
    BY <1>5, <1>7, <1>8
  <2>2. fs[k].seq[fs[k].it] \in C
    BY <1>7, <2>1, ElementOfSeq
  <2> QED BY <1>6, <2>2
<1>9. ASSUME NEW j \in 1..k - 1
      PROVE  /\ fs[j].it <= Len(fs[j].seq)
             /\ LastPassed(fs[j], lo[j]) <= lo[k] /\ hi[k] <= Current(fs[j])
             /\ hi[k] < hi[j]
             /\ Continues(fs[k].loopsuffix, fs[j].loopsuffix)
  <2>1. /\ fs[j].it <= Len(fs[j].seq)
        /\ LastPassed(fs[j], lo[j]) <= lo[k] /\ hi[k] <= Current(fs[j])
        /\ Continues(fs[k].loopsuffix, fs[j].loopsuffix)
    BY <1>3 DEF Level
  <2>2. j \in 1..Len(fs)
    BY <1>1
  <2>3. Current(fs[j]) \in Nat /\ Current(fs[j]) < hi[j] /\ hi[j] \in Nat
    BY <2>1, <2>2, StackType
  <2> QED BY <1>4, <2>1, <2>3
<1> QED BY <1>4, <1>5, <1>6, <1>7, <1>8, <1>9

(* Passed, for the activations fs.                                         *)
PassedBy(fs) ==
  {0} \cup {fs[k].seq[fs[k].it - 1].id : k \in {n \in DOMAIN fs : fs[n].it > 1}}

(* A set of positions has one greatest element.                            *)
LEMMA MaxIs ==
  ASSUME NEW A \in SUBSET Int, NEW x \in A, \A y \in A : y <= x
  PROVE  Max(A) = x
<1>1. x \in A /\ \A y \in A : x >= y
  OBVIOUS
<1>2. Max(A) \in A /\ \A y \in A : Max(A) >= y
  BY <1>1 DEF Max
<1>3. Max(A) \in Int /\ x \in Int /\ Max(A) >= x /\ x >= Max(A)
  BY <1>2
<1> QED BY <1>3

(* The greatest position that was passed is that behind which the          *)
(* activation on top is.                                                   *)
LEMMA PassedMost ==
  ASSUME NEW s, NEW C, NEW V, NEW fs, NEW lo, NEW hi, RunOf(s, C, V, fs, lo, hi)
  PROVE  Max(PassedBy(fs)) = LastPassed(fs[Len(fs)], lo[Len(fs)])
<1>1. PICK n : n = Len(fs)
  OBVIOUS
<1>2. n \in Nat \ {0} /\ n \in 1..n /\ DOMAIN fs = 1..n
  BY <1>1, Intervals, LenProperties DEF RunOf, Stack
<1>3. \A k \in 1..n :
        /\ LastPassed(fs[k], lo[k]) \in Nat /\ lo[k] <= LastPassed(fs[k], lo[k])
        /\ lo[k] \in Nat /\ fs[k].it \in Nat \ {0}
        /\ \A j \in 1..k - 1 : LastPassed(fs[j], lo[j]) <= lo[k]
  <2> TAKE k \in 1..n
  <2>1. /\ LastPassed(fs[k], lo[k]) \in Nat /\ lo[k] <= LastPassed(fs[k], lo[k])
        /\ lo[k] \in Nat
    BY <1>1, Intervals
  <2>2. fs[k].it \in 1..Len(fs[k].seq) + 1 /\ Len(fs[k].seq) \in Nat
    BY <1>1, Intervals
  <2>3. \A j \in 1..k - 1 : LastPassed(fs[j], lo[j]) <= lo[k]
    BY <1>1, Intervals
  <2> QED BY <2>1, <2>2, <2>3
<1>4. \A k \in 1..n :
        LastPassed(fs[k], lo[k])
          = IF fs[k].it = 1 THEN lo[k] ELSE fs[k].seq[fs[k].it - 1].id
  BY DEF LastPassed, Before, VectorOf
<1>5. \A k \in 1..n : fs[k].it > 1 => fs[k].seq[fs[k].it - 1].id = LastPassed(fs[k], lo[k])
  BY <1>3, <1>4
<1>6. \A k \in 1..n : LastPassed(fs[k], lo[k]) <= LastPassed(fs[n], lo[n])
  <2> TAKE k \in 1..n
  <2>1. CASE k = n
    BY <2>1, <1>2, <1>3
  <2>2. CASE k # n
    <3>1. k \in 1..n - 1
      BY <2>2, <1>2
    <3>2. LastPassed(fs[k], lo[k]) <= lo[n] /\ lo[n] <= LastPassed(fs[n], lo[n])
      BY <3>1, <1>2, <1>3
    <3> QED BY <3>2, <1>2, <1>3
  <2> QED BY <2>1, <2>2
<1>7. /\ PassedBy(fs) \in SUBSET Int
      /\ \A x \in PassedBy(fs) : x <= LastPassed(fs[n], lo[n])
  <2>1. \A k \in {i \in DOMAIN fs : fs[i].it > 1} :
          /\ fs[k].seq[fs[k].it - 1].id \in Nat
          /\ fs[k].seq[fs[k].it - 1].id <= LastPassed(fs[n], lo[n])
    BY <1>2, <1>3, <1>5, <1>6
  <2>2. 0 <= LastPassed(fs[n], lo[n])
    BY <1>2, <1>3
  <2> QED BY <2>1, <2>2 DEF PassedBy
<1>8. LastPassed(fs[n], lo[n]) \in PassedBy(fs)
  <2> DEFINE T == {k \in 1..n : LastPassed(fs[k], lo[k]) \notin PassedBy(fs)}
             L == OpToRel(<, Nat)
  <2>1. SUFFICES ASSUME T # {} PROVE FALSE
    BY <1>2
  <2>2. PICK k \in T : \A y \in T : ~(<<y, k>> \in L)
    <3>1. T \subseteq Nat
      OBVIOUS
    <3> HIDE DEF T, L
    <3> QED BY <2>1, <3>1, WFMin, NatLessThanWellFounded DEF L
  <2>3. k \in 1..n /\ k \in Nat /\ LastPassed(fs[k], lo[k]) \notin PassedBy(fs)
    OBVIOUS
  <2>4. fs[k].it = 1 /\ LastPassed(fs[k], lo[k]) = lo[k]
    <3>1. fs[k].it > 1 => LastPassed(fs[k], lo[k]) \in PassedBy(fs)
      BY <1>2, <1>5, <2>3 DEF PassedBy
    <3> QED BY <3>1, <1>3, <1>4, <2>3
  <2>5. Inside(fs, lo, hi, Len(s) + 1, k)
    BY <1>1, <2>3 DEF RunOf
  <2>6. CASE k = 1
    BY <2>3, <2>4, <2>5, <2>6 DEF Inside, PassedBy
  <2>7. CASE k > 1
    <3>1. lo[k] = LastPassed(fs[k - 1], lo[k - 1])
      BY <2>5, <2>7 DEF Inside
    <3>2. k - 1 \in 1..n /\ k - 1 \in Nat /\ k - 1 < k
      BY <1>2, <2>3, <2>7
    <3>3. <<k - 1, k>> \in L
      BY <2>3, <3>2 DEF OpToRel
    <3>4. LastPassed(fs[k - 1], lo[k - 1]) \in PassedBy(fs)
      BY <2>2, <3>2, <3>3
    <3> QED BY <2>3, <2>4, <3>1, <3>4
  <2> QED BY <2>3, <2>6, <2>7
<1>9. Max(PassedBy(fs)) = LastPassed(fs[n], lo[n])
  BY <1>7, <1>8, MaxIs
<1> QED BY <1>1, <1>9

(* What iterationBar gives for position i when the activations are fs.     *)
IterationOf(fs, i) ==
  IF \E k \in 2..Len(fs) : Current(fs[k - 1]) = i
  THEN fs[CHOOSE k \in 2..Len(fs) : Current(fs[k - 1]) = i].timesleft
  ELSE 0

(* The iteration of a loop is that of the activation for its body.         *)
LEMMA Iterations ==
  ASSUME NEW s, NEW C, NEW V, NEW fs, NEW lo, NEW hi, RunOf(s, C, V, fs, lo, hi)
  PROVE  /\ Descending(Len(fs), hi)
         /\ \A k \in 2..Len(fs) :
              /\ Current(fs[k - 1]) = hi[k] /\ IterationOf(fs, hi[k]) = fs[k].timesleft
              /\ hi[k] \in 1..Len(s) /\ s[hi[k]].op = "loop"
              /\ Meaning!Beginning(s)[hi[k]] = lo[k] /\ s[hi[k]].times = fs[k].loops
         /\ \A i : (\A k \in 2..Len(fs) : i # hi[k]) => IterationOf(fs, i) = 0
<1>1. PICK n : n = Len(fs)
  OBVIOUS
<1>2. n \in Nat \ {0}
  BY <1>1, Intervals
<1>3. \A k \in 1..n : hi[k] \in Nat /\ \A j \in 1..k - 1 : hi[k] < hi[j]
  BY <1>1, Intervals
<1>4. Descending(n, hi)
  <2>1. \A k \in 2..n : k \in 1..n /\ \A j \in 2..k - 1 : j \in 1..k - 1
    OBVIOUS
  <2> QED BY <2>1, <1>3 DEF Descending
<1>5. ASSUME NEW k \in 2..n
      PROVE  /\ Current(fs[k - 1]) = hi[k]
             /\ hi[k] \in 1..Len(s) /\ s[hi[k]].op = "loop"
             /\ Meaning!Beginning(s)[hi[k]] = lo[k] /\ s[hi[k]].times = fs[k].loops
  <2>1. k \in 1..n /\ k - 1 \in 1..n /\ k - 1 \in 1..k - 1 /\ k > 1
    BY <1>2
  <2>2. Inside(fs, lo, hi, Len(s) + 1, k)
    BY <1>1, <2>1 DEF RunOf
  <2>3. PICK f : f = fs[k - 1]
    OBVIOUS
  <2>4. /\ lo[k] = LastPassed(f, lo[k - 1]) /\ hi[k] = Current(f)
        /\ f.seq[f.it].op = "loop" /\ fs[k].loops = f.seq[f.it].loops
    BY <2>1, <2>2, <2>3 DEF Inside
  <2>5. /\ f.it \in 1..Len(f.seq) /\ Written(s, f.seq[f.it])
        /\ Exact(Meaning!Beginning(s), VectorOf(f, lo[k - 1], hi[k - 1]))
    <3>1. f.it <= Len(f.seq)
      BY <1>1, <2>1, <2>3, Intervals
    <3>2. /\ f.it \in 1..Len(f.seq) + 1 /\ Len(f.seq) \in Nat
          /\ Exact(Meaning!Beginning(s), VectorOf(f, lo[k - 1], hi[k - 1]))
      BY <1>1, <2>1, <2>3, Intervals
    <3>3. Written(s, f.seq[f.it])
      BY <1>1, <2>1, <2>3, <3>1, Intervals
    <3> QED BY <3>1, <3>2, <3>3
  <2>6. /\ hi[k] \in 1..Len(s) /\ s[hi[k]].op = "loop" /\ s[hi[k]].times = fs[k].loops
    BY <2>4, <2>5 DEF Written, Current
  <2>7. Meaning!Beginning(s)[hi[k]] = Before(VectorOf(f, lo[k - 1], hi[k - 1]), f.it)
    BY <2>4, <2>5 DEF Exact, VectorOf, Current
  <2>8. Before(VectorOf(f, lo[k - 1], hi[k - 1]), f.it) = lo[k]
    BY <2>4 DEF LastPassed, Before, VectorOf
  <2> QED BY <2>3, <2>4, <2>6, <2>7, <2>8
<1>6. ASSUME NEW k \in 2..n PROVE IterationOf(fs, hi[k]) = fs[k].timesleft
  <2>1. PICK j : j = CHOOSE i \in 2..Len(fs) : Current(fs[i - 1]) = hi[k]
    OBVIOUS
  <2>2. j \in 2..n /\ Current(fs[j - 1]) = hi[k]
    BY <1>1, <1>5, <2>1
  <2>3. hi[j] = hi[k]
    BY <1>5, <2>2
  <2>4. j = k
    <3>1. CASE j < k
      <4>1. j \in 1..k - 1 /\ k \in 1..n /\ j \in 1..n
        BY <1>2, <2>2, <3>1
      <4> QED BY <4>1, <1>3, <2>3
    <3>2. CASE k < j
      <4>1. k \in 1..j - 1 /\ k \in 1..n /\ j \in 1..n
        BY <1>2, <2>2, <3>2
      <4> QED BY <4>1, <1>3, <2>3
    <3> QED BY <1>2, <2>2, <3>1, <3>2
  <2>5. \E i \in 2..Len(fs) : Current(fs[i - 1]) = hi[k]
    BY <1>1, <1>5
  <2> QED BY <2>1, <2>4, <2>5 DEF IterationOf
<1>7. ASSUME NEW i, \A k \in 2..n : i # hi[k] PROVE IterationOf(fs, i) = 0
  BY <1>1, <1>5, <1>7 DEF IterationOf
<1> QED BY <1>1, <1>4, <1>5, <1>6, <1>7

(* The suffix of an activation is made of the counts of those up to it.    *)
LEMMA SuffixIs ==
  ASSUME NEW s, NEW C, NEW V, NEW fs, NEW lo, NEW hi, RunOf(s, C, V, fs, lo, hi)
  PROVE  fs[Len(fs)].loopsuffix = [j \in 1..Len(fs) - 1 |-> fs[j + 1].timesleft]
<1>1. PICK n : n = Len(fs)
  OBVIOUS
<1>2. n \in Nat \ {0} /\ n \in 1..n
  BY <1>1, Intervals
<1>3. \A k \in 1..n : fs[k].loopsuffix \in Seq(Nat) /\ Len(fs[k].loopsuffix) = k - 1
  <2> TAKE k \in 1..n
  <2>1. fs[k] \in FrameIn(C) /\ Inside(fs, lo, hi, Len(s) + 1, k)
    BY <1>1, Intervals DEF RunOf
  <2> QED BY <2>1 DEF FrameIn, Inside
<1>4. ASSUME NEW j \in 1..n - 1
      PROVE  fs[n].loopsuffix[j] = fs[j + 1].timesleft
  <2>1. j + 1 \in 1..n /\ j \in 1..n /\ (j + 1) - 1 = j /\ j + 1 > 1
    BY <1>2
  <2>2. PICK k : k = j + 1
    OBVIOUS
  <2>3. Level(V, fs, lo, hi, k)
    BY <1>1, <2>1, <2>2 DEF RunOf, Stack
  <2>4. fs[k].loopsuffix = Append(fs[j].loopsuffix, fs[k].timesleft)
    BY <2>1, <2>2, <2>3 DEF Level
  <2>5. fs[k].loopsuffix[j] = fs[k].timesleft
    BY <1>3, <2>1, <2>4
  <2>6. CASE k = n
    BY <2>2, <2>5, <2>6
  <2>7. CASE k # n
    <3>1. k \in 1..n - 1
      BY <1>2, <2>2, <2>7
    <3>2. Continues(fs[n].loopsuffix, fs[k].loopsuffix)
      BY <1>1, <1>2, <3>1, Intervals
    <3>3. j \in 1..Len(fs[k].loopsuffix)
      BY <1>3, <2>1, <2>2
    <3>4. fs[n].loopsuffix[j] = fs[k].loopsuffix[j]
      BY <3>2, <3>3 DEF Continues
    <3> QED BY <2>2, <2>5, <3>4
  <2> QED BY <2>6, <2>7
<1>5. PICK x : x = fs[n].loopsuffix
  OBVIOUS
<1>6. x \in Seq(Nat) /\ Len(x) = n - 1
  BY <1>2, <1>3, <1>5
<1>7. x = [j \in 1..Len(x) |-> x[j]]
  BY <1>6, LenProperties
<1>8. x = [j \in 1..n - 1 |-> fs[j + 1].timesleft]
  BY <1>4, <1>5, <1>6, <1>7
<1> QED BY <1>1, <1>5, <1>8

(* The activation on top is at a command.                                  *)
AtCommand(fs) == fs[Len(fs)].it <= Len(fs[Len(fs)].seq)

(* The loops around the command that the activation on top is at are those *)
(* whose bodies are run.                                                   *)
Surrounded(s, fs, hi) ==
  /\ \A k \in 2..Len(fs) : hi[k] \in Meaning!LoopsAround(s, Current(fs[Len(fs)]))
  /\ \A i \in Meaning!LoopsAround(s, Current(fs[Len(fs)])) :
       \E k \in 2..Len(fs) : i = hi[k]

(* So they are, in every state of a run.                                   *)
LEMMA LoopsAroundTop ==
  ASSUME NEW S, NEW s \in Seq(S), NEW C, NEW V, NEW fs, NEW lo, NEW hi,
         RunOf(s, C, V, fs, lo, hi), AtCommand(fs)
  PROVE  Surrounded(s, fs, hi)
<1>1. PICK n : n = Len(fs)
  OBVIOUS
<1>2. PICK b : b = Meaning!Beginning(s)
  OBVIOUS
<1>3. PICK p : p = Current(fs[n])
  OBVIOUS
<1>4. n \in Nat \ {0} /\ n \in 1..n /\ Len(s) \in Nat /\ fs[n].it <= Len(fs[n].seq)
  BY <1>1, Intervals, LenProperties DEF AtCommand
<1>5. \A k \in 1..n :
        /\ lo[k] \in Nat /\ hi[k] \in Nat
        /\ LastPassed(fs[k], lo[k]) \in Nat /\ lo[k] <= LastPassed(fs[k], lo[k])
        /\ \A j \in 1..k - 1 : LastPassed(fs[j], lo[j]) <= lo[k]
        /\ \A j \in 1..k - 1 : hi[k] < hi[j]
  BY <1>1, Intervals
<1>6. p \in Nat /\ p < hi[n] /\ LastPassed(fs[n], lo[n]) < p
  BY <1>1, <1>3, <1>4, Intervals
<1>7. \A k \in 2..n :
        /\ Current(fs[k - 1]) = hi[k]
        /\ hi[k] \in 1..Len(s) /\ s[hi[k]].op = "loop" /\ b[hi[k]] = lo[k]
  BY <1>1, <1>2, Iterations
<1>8. ASSUME NEW k \in 2..n PROVE hi[k] \in Meaning!LoopsAround(s, p)
  <2>1. k \in 1..n
    OBVIOUS
  <2>2. lo[k] < p /\ p < hi[k]
    <3>1. CASE k = n
      BY <3>1, <1>4, <1>5, <1>6
    <3>2. CASE k # n
      <4>1. k \in 1..n - 1
        BY <3>2, <1>4
      <4>2. LastPassed(fs[k], lo[k]) <= lo[n] /\ hi[n] < hi[k]
        BY <4>1, <1>4, <1>5
      <4> QED BY <4>2, <2>1, <1>4, <1>5, <1>6
    <3> QED BY <3>1, <3>2
  <2>3. hi[k] \in p + 1..Len(s)
    BY <2>1, <2>2, <1>5, <1>6, <1>7
  <2> QED BY <2>2, <2>3, <1>2, <1>7 DEF Meaning!LoopsAround
<1>9. ASSUME NEW i \in Meaning!LoopsAround(s, p)
      PROVE  \E k \in 2..n : i = hi[k]
  <2>1. i \in p + 1..Len(s) /\ s[i].op = "loop" /\ b[i] < p
    BY <1>2 DEF Meaning!LoopsAround
  <2>2. i \in 1..Len(s) /\ i \in Nat /\ p < i /\ b[i] \in Int
    <3>1. i \in 1..Len(s)
      BY <1>4, <1>6, <2>1
    <3> QED BY <1>2, <1>6, <2>1, <3>1, BeginningJumps
  <2> DEFINE K == {k \in 1..n : hi[k] >= i}
  <2>3. 1 \in 1..n /\ hi[1] = Len(s) + 1
    BY <1>1, <1>4 DEF RunOf, Inside
  <2>4. K # {} /\ K \in SUBSET (0..n)
    BY <1>4, <2>2, <2>3
  <2>5. PICK k \in K : \A j \in K : k >= j
    <3> HIDE DEF K
    <3> QED BY <1>4, <2>4, MaxExists
  <2>6. k \in 1..n /\ hi[k] >= i
    OBVIOUS
  <2>7. CASE hi[k] = i
    <3>1. k # 1
      BY <2>2, <2>3, <2>7, <1>4
    <3>2. k \in 2..n
      BY <2>6, <3>1
    <3> QED BY <2>7, <3>2
  <2>8. CASE hi[k] # i
    <3>1. i < hi[k]
      BY <1>5, <2>2, <2>6, <2>8
    <3>2. /\ fs[k].it <= Len(fs[k].seq) /\ Current(fs[k]) \in Nat
          /\ Current(fs[k]) < i /\ p <= Current(fs[k])
      <4>1. CASE k = n
        BY <4>1, <1>3, <1>4, <1>6, <2>2
      <4>2. CASE k # n
        <5>1. k + 1 \in 2..n /\ (k + 1) - 1 = k /\ k \in 1..n - 1 /\ k + 1 \in 1..n /\ k \in Nat
          BY <4>2, <2>6, <1>4
        <5>2. ~(hi[k + 1] >= i)
          BY <2>5, <5>1
        <5>3. Current(fs[k]) = hi[k + 1]
          BY <1>7, <5>1
        <5>4. fs[k].it <= Len(fs[k].seq)
          BY <1>1, <1>4, <5>1, Intervals
        <5>5. hi[n] <= hi[k + 1]
          <6>1. CASE k + 1 = n
            BY <6>1, <1>4, <1>5
          <6>2. CASE k + 1 # n
            <7>1. k + 1 \in 1..n - 1
              BY <5>1, <6>2, <1>4
            <7> QED BY <7>1, <1>4, <1>5
          <6> QED BY <6>1, <6>2
        <5>6. hi[k + 1] \in Nat /\ hi[n] \in Nat
          BY <5>1, <1>4, <1>5
        <5> QED BY <1>6, <2>2, <5>2, <5>3, <5>4, <5>5, <5>6
      <4> QED BY <4>1, <4>2
    <3>3. PICK v : v = VectorOf(fs[k], lo[k], hi[k])
      OBVIOUS
    <3>4. /\ v.seq = fs[k].seq /\ v.hi = hi[k]
      BY <3>3 DEF VectorOf
    <3>5. /\ WellNested(C, V, v) /\ Exact(b, v) /\ fs[k].it \in 1..Len(fs[k].seq)
      <4>1. /\ WellNested(C, V, v) /\ Exact(b, v)
            /\ fs[k].it \in 1..Len(fs[k].seq) + 1 /\ Len(fs[k].seq) \in Nat
        BY <1>1, <1>2, <2>6, <3>3, Intervals
      <4> QED BY <3>2, <4>1
    <3>6. LoopsBegin(s, b) /\ \A c \in C : Written(s, c)
      BY <1>2 DEF RunOf, Faithful
    <3>7. PICK q : q = fs[k].it
      OBVIOUS
    <3>8. q \in 1..Len(v.seq) /\ v.seq[q].id = Current(fs[k])
      BY <3>4, <3>5, <3>7 DEF Current
    <3>9. b[i] >= v.seq[q].id
      BY <1>2, <2>1, <2>2, <3>1, <3>2, <3>4, <3>5, <3>6, <3>8, NoStraddle
    <3> QED BY <1>6, <2>1, <2>2, <3>2, <3>8, <3>9
  <2> QED BY <2>7, <2>8
<1> QED BY <1>1, <1>3, <1>8, <1>9 DEF Surrounded

(* They are ordered as the activations are.                                *)
LEMMA AroundTop ==
  ASSUME NEW S, NEW s \in Seq(S), NEW C, NEW V, NEW fs, NEW lo, NEW hi,
         RunOf(s, C, V, fs, lo, hi), AtCommand(fs)
  PROVE  Meaning!Around(s, Current(fs[Len(fs)])) = [j \in 1..Len(fs) - 1 |-> hi[j + 1]]
<1>1. PICK n : n = Len(fs)
  OBVIOUS
<1>2. PICK p : p = Current(fs[n])
  OBVIOUS
<1>3. PICK A : A = {hi[k] : k \in 2..n}
  OBVIOUS
<1>4. n \in Nat \ {0} /\ Descending(n, hi)
  BY <1>1, Intervals, Iterations
<1>5. Meaning!LoopsAround(s, p) = A
  <2>1. Surrounded(s, fs, hi)
    BY LoopsAroundTop
  <2>2. /\ \A k \in 2..n : hi[k] \in Meaning!LoopsAround(s, p)
        /\ \A i \in Meaning!LoopsAround(s, p) : \E k \in 2..n : i = hi[k]
    BY <1>1, <1>2, <2>1 DEF Surrounded
  <2> QED BY <1>3, <2>2
<1>6. /\ Cardinality(A) = n - 1
      /\ \A k \in 2..n : Cardinality({x \in A : x >= hi[k]}) = k - 1
  <2>1. /\ Cardinality({hi[k] : k \in 2..n}) = n - 1
        /\ \A k \in 2..n :
             Cardinality({x \in {hi[j] : j \in 2..n} : x >= hi[k]}) = k - 1
    BY <1>4, Ranks
  <2> QED BY <1>3, <2>1
<1>7. ASSUME NEW j \in 1..n - 1
      PROVE  (CHOOSE i \in A : Meaning!Cardinality(Meaning!Outward(s, p, i)) = j) = hi[j + 1]
  <2>1. \A i : Meaning!Outward(s, p, i) = {x \in A : x >= i}
    BY <1>5 DEF Meaning!Outward
  <2>2. \A i : Meaning!Cardinality(Meaning!Outward(s, p, i)) = Cardinality({x \in A : x >= i})
    BY <2>1, SameCardinality
  <2>3. j + 1 \in 2..n /\ (j + 1) - 1 = j
    BY <1>4
  <2>4. hi[j + 1] \in A /\ Meaning!Cardinality(Meaning!Outward(s, p, hi[j + 1])) = j
    BY <1>3, <1>6, <2>2, <2>3
  <2>5. ASSUME NEW i \in A, Meaning!Cardinality(Meaning!Outward(s, p, i)) = j
        PROVE  i = hi[j + 1]
    <3>1. PICK k \in 2..n : i = hi[k]
      BY <1>3
    <3>2. k - 1 = j
      BY <1>6, <2>2, <2>5, <3>1
    <3>3. k = j + 1
      BY <3>2
    <3> QED BY <3>1, <3>3
  <2> QED BY <2>4, <2>5
<1>8. Meaning!Cardinality(Meaning!LoopsAround(s, p)) = n - 1
  BY <1>5, <1>6, SameCardinality
<1>9. Meaning!Around(s, p) = [j \in 1..n - 1 |-> hi[j + 1]]
  BY <1>5, <1>7, <1>8 DEF Meaning!Around
<1> QED BY <1>1, <1>2, <1>9

-----------------------------------------------------------------------------

ReadTokens == {AsRead(t) : t \in Token}

(* What Loop::ParseCommand reads of a token: all but a count that is too   *)
(* long.                                                                   *)
LEMMA ReadAs ==
  ASSUME NEW t \in Token
  PROVE  /\ AsRead(t) \in ReadTokens /\ AsRead(t).op = t.op /\ AsRead(t).label = t.label
         /\ AsRead(t).times = CountOf(t.times)
         /\ t.op = "label" => t.label # NoLabel
         /\ t.op # "loop" => AsRead(t).times = 0
<1>1. AsRead(t) \in ReadTokens
  BY DEF ReadTokens
<1>2. AsRead(t).op = t.op /\ AsRead(t).label = t.label /\ AsRead(t).times = CountOf(t.times)
  BY DEF Token, AsRead
<1>3. t.op = "label" => t.label # NoLabel
  BY LabelAssumption DEF Token
<1>4. t.op # "loop" => CountOf(t.times) = 0
  <2>1. t.op # "loop" => t.times = 0
    BY DEF Token
  <2> QED BY <2>1 DEF CountOf
<1> QED BY <1>1, <1>2, <1>3, <1>4

(* The script is the text, token by token.                                 *)
LEMMA ScriptIs ==
  ASSUME cmds \in Seq(Token)
  PROVE  /\ scriptBar \in Seq(ReadTokens) /\ Len(scriptBar) = Len(cmds) /\ Len(cmds) \in Nat
         /\ \A i \in 1..Len(cmds) : scriptBar[i] = AsRead(cmds[i]) /\ cmds[i] \in Token
<1>1. Len(cmds) \in Nat /\ DOMAIN cmds = 1..Len(cmds) /\ \A i \in 1..Len(cmds) : cmds[i] \in Token
  BY LenProperties, ElementOfSeq
<1>2. scriptBar = [i \in 1..Len(cmds) |-> AsRead(cmds[i])]
  BY <1>1 DEF scriptBar
<1>3. \A i \in 1..Len(cmds) : AsRead(cmds[i]) \in ReadTokens
  BY <1>1, ReadAs
<1>4. scriptBar \in [1..Len(cmds) -> ReadTokens]
  BY <1>2, <1>3
<1>5. scriptBar \in Seq(ReadTokens)
  BY <1>1, <1>4, IsASeq
<1>6. Len(scriptBar) = Len(cmds)
  BY <1>1, <1>4, <1>5, LenProperties
<1> QED BY <1>1, <1>2, <1>5, <1>6

(* To read a token is to append what is read of it.                        *)
LEMMA ScriptGrowsBy ==
  ASSUME cmds \in Seq(Token), NEW t \in Token, cmds' = Append(cmds, t)
  PROVE  scriptBar' = Append(scriptBar, AsRead(t))
<1>1. /\ scriptBar \in Seq(ReadTokens) /\ Len(scriptBar) = Len(cmds) /\ Len(cmds) \in Nat
      /\ \A i \in 1..Len(cmds) : scriptBar[i] = AsRead(cmds[i])
  BY ScriptIs
<1>2. PICK u : u = Append(scriptBar, AsRead(t))
  OBVIOUS
<1>3. AsRead(t) \in ReadTokens
  BY ReadAs
<1>4. /\ u \in Seq(ReadTokens) /\ Len(u) = Len(cmds) + 1 /\ u[Len(cmds) + 1] = AsRead(t)
      /\ \A i \in 1..Len(cmds) : u[i] = scriptBar[i]
  BY <1>1, <1>2, <1>3
<1>5. /\ DOMAIN cmds' = 1..Len(cmds) + 1 /\ cmds'[Len(cmds) + 1] = t
      /\ \A i \in 1..Len(cmds) : cmds'[i] = cmds[i]
  BY <1>1
<1>6. scriptBar' = [i \in 1..Len(cmds) + 1 |-> AsRead(cmds'[i])]
  BY <1>5 DEF scriptBar
<1>7. \A i \in 1..Len(cmds) + 1 : AsRead(cmds'[i]) = u[i]
  BY <1>1, <1>4, <1>5
<1>8. u = [i \in 1..Len(cmds) + 1 |-> u[i]]
  BY <1>4, LenProperties
<1> QED BY <1>2, <1>6, <1>7, <1>8

-----------------------------------------------------------------------------

(* Each activation but the first runs the body of the loop that the one    *)
(* below it is at.                                                         *)
Insides(fs, lo, hi, e) == \A k \in 1..Len(fs) : Inside(fs, lo, hi, e, k)

(* It does so still when some are left and the one then on top goes on or  *)
(* begins another round.                                                   *)
LEMMA InsidesChanged ==
  ASSUME NEW C, NEW fs, NEW fs2, NEW lo, NEW hi, NEW e, NEW n,
         fs \in Seq(FrameIn(C)), TopChanged(C, fs, fs2, n), Insides(fs, lo, hi, e),
         fs2[n].loops = fs[n].loops, Len(fs2[n].loopsuffix) = Len(fs[n].loopsuffix)
  PROVE  Insides(fs2, lo, hi, e)
<1>1. /\ n \in 1..Len(fs) /\ Len(fs2) = n /\ Len(fs) \in Nat
      /\ \A k \in 1..n - 1 : fs2[k] = fs[k]
  BY LenProperties DEF TopChanged
<1> SUFFICES ASSUME NEW k \in 1..n PROVE Inside(fs2, lo, hi, e, k)
  BY <1>1 DEF Insides
<1>2. Inside(fs, lo, hi, e, k)
  BY <1>1 DEF Insides
<1>3. k > 1 => fs2[k - 1] = fs[k - 1]
  BY <1>1
<1>4. fs2[k].loops = fs[k].loops /\ Len(fs2[k].loopsuffix) = Len(fs[k].loopsuffix)
  <2>1. CASE k = n
    BY <2>1
  <2>2. CASE k # n
    BY <2>2, <1>1
  <2> QED BY <2>1, <2>2
<1> QED BY <1>2, <1>3, <1>4 DEF Inside

(* It does so still when the body of a loop is entered.                    *)
LEMMA InsidesPushed ==
  ASSUME NEW C, NEW fs, NEW fs2, NEW lo, NEW lo2, NEW hi, NEW hi2, NEW e, NEW n,
         fs \in Seq(FrameIn(C)), lo \in [Nat -> Nat], hi \in [Nat -> Nat],
         Pushed(n, fs, fs2, lo, lo2, hi, hi2), Insides(fs, lo, hi, e),
         fs[n].seq[fs[n].it].op = "loop",
         fs2[n + 1].loops = fs[n].seq[fs[n].it].loops
  PROVE  Insides(fs2, lo2, hi2, e)
<1>1. n \in Nat \ {0}
  BY DEF Pushed
<1>2. /\ n \in Nat \ {0} /\ n = Len(fs) /\ Len(fs2) = n + 1
      /\ \A k \in 1..n : fs2[k] = fs[k]
      /\ fs2[n + 1].loopsuffix = Append(fs[n].loopsuffix, 0)
  BY DEF Pushed
<1>3. \A k \in 1..n : lo2[k] = lo[k] /\ hi2[k] = hi[k]
  <2>1. \A k \in 1..n : k \in Nat /\ k # n + 1
    BY <1>1
  <2>2. lo2 = [lo EXCEPT ![n + 1] = LastPassed(fs[n], lo[n])]
    BY DEF Pushed
  <2>3. hi2 = [hi EXCEPT ![n + 1] = Current(fs[n])]
    BY DEF Pushed
  <2> QED BY <2>1, <2>2, <2>3
<1>4. lo2[n + 1] = LastPassed(fs[n], lo[n]) /\ hi2[n + 1] = Current(fs[n])
  BY <1>2 DEF Pushed
<1>5. ASSUME NEW k \in 1..n PROVE Inside(fs2, lo2, hi2, e, k)
  <2>1. Inside(fs, lo, hi, e, k)
    BY <1>2 DEF Insides
  <2>2. k > 1 => k - 1 \in 1..n
    BY <1>1
  <2>3. lo2[k] = lo[k] /\ hi2[k] = hi[k] /\ fs2[k] = fs[k]
    BY <1>2, <1>3
  <2>4. k > 1 => fs2[k - 1] = fs[k - 1] /\ lo2[k - 1] = lo[k - 1]
    BY <1>2, <1>3, <2>2
  <2> QED BY <2>1, <2>3, <2>4 DEF Inside
<1>6. Inside(fs2, lo2, hi2, e, n + 1)
  <2>1. n \in 1..n /\ (n + 1) - 1 = n /\ n + 1 # 1
    <3>1. \A m \in Nat \ {0} : m \in 1..m /\ (m + 1) - 1 = m /\ m + 1 # 1
      OBVIOUS
    <3> QED BY <1>1, <3>1, Zenon
  <2>2. Len(fs2[n + 1].loopsuffix) = (n + 1) - 1
    <3>1. Inside(fs, lo, hi, e, n)
      BY <1>2, <2>1 DEF Insides
    <3>2. fs[n].loopsuffix \in Seq(Nat)
      <4>1. fs[n] \in FrameIn(C)
        BY <1>2, <2>1, ElementOfSeq
      <4> QED BY <4>1 DEF FrameIn
    <3>3. Len(fs[n].loopsuffix) = n - 1
      BY <3>1 DEF Inside
    <3> QED BY <1>2, <3>2, <3>3
  <2>3. fs2[n] = fs[n] /\ lo2[n] = lo[n]
    BY <1>2, <1>3, <2>1
  <2> QED BY <1>4, <2>1, <2>2, <2>3 DEF Inside
<1>7. \A k \in 1..n + 1 : k \in 1..n \/ k = n + 1
  BY <1>2
<1> QED BY <1>2, <1>5, <1>6, <1>7 DEF Insides

-----------------------------------------------------------------------------


(* While the script is read and run, its vectors say what it says, and the *)
(* activations are for the loops around the command that is next.          *)
Meant(C, V, lo, hi) ==
  status \in {"reading", "running"} =>
    /\ TextOf(scriptBar, C, V, Text)
    /\ Insides(frames, lo, hi, Len(scriptBar) + 1)

(* The invariant that the refinement of Script needs.                      *)
RInv == IInv /\ \E C, V, lo, hi : Nested(C, V, lo, hi) /\ Meant(C, V, lo, hi)

(* The vector of the empty text.                                           *)
LEMMA NothingRead ==
  ASSUME NEW S, NEW v, v = [seq |-> <<>>, lo |-> 0, hi |-> 1]
  PROVE  TextOf(<<>>, {}, {}, v)
<1>1. <<>> \in Seq({}) /\ Len(<<>>) = 0 /\ \A i \in 1..0 : FALSE
  BY EmptySeq
<1>2. WellNested({}, {}, v)
  BY <1>1 DEF WellNested, VectorIn
<1>3. PICK b : b = Meaning!Beginning(<<>>)
  OBVIOUS
<1>4. Exact(b, v)
  <2>1. v.hi = Before(v, Len(v.seq) + 1) + 1
    BY <1>1 DEF Before
  <2> QED BY <1>1, <2>1 DEF Exact
<1>5. LoopsBegin(<<>>, b) /\ Faithful(<<>>, {}, {})
  BY <1>1 DEF LoopsBegin, Faithful
<1> QED BY <1>1, <1>2, <1>3, <1>4, <1>5 DEF TextOf

(* It holds before Parse begins.                                           *)
LEMMA InitMeant == Init => RInv
<1> SUFFICES ASSUME Init PROVE RInv
  OBVIOUS
<1>1. PICK z : z = [k \in Nat |-> 0]
  OBVIOUS
<1>2. IInv /\ Shape /\ Nested({}, {}, z, z)
  BY <1>1, InitNested, InitInv
<1>3. scriptBar = <<>> /\ Text = [seq |-> <<>>, lo |-> 0, hi |-> 1] /\ frames = <<>>
  <2>1. scriptBar \in Seq(ReadTokens) /\ Len(scriptBar) = 0
    BY <1>2, EmptySeq, ScriptIs DEF Shape, Init
  <2> QED BY <2>1, EmptySeq DEF Init, Text
<1>4. TextOf(<<>>, {}, {}, Text)
  BY <1>3, NothingRead
<1>5. Insides(<<>>, z, z, 1)
  <2>1. Len(<<>>) = 0 /\ \A k \in 1..0 : FALSE
    BY EmptySeq
  <2> QED BY <2>1 DEF Insides
<1>6. Meant({}, {}, z, z)
  BY <1>3, <1>4, <1>5, EmptySeq DEF Meant
<1> QED BY <1>2, <1>6 DEF RInv

(* The command that a step of Parse reads closes what Script says: its     *)
(* body begins where the loop does.                                        *)
LEMMA ClosesAt ==
  ASSUME NEW S, NEW s \in Seq(S), NEW t \in S, NEW C, NEW V, NEW v, TextOf(s, C, V, v),
         t.op = "loop", t.label = NoLabel \/ NamedOf(v, t) # {},
         t.label = NoLabel => NamedOf(v, t) = {},
         NEW m, m = IF NamedOf(v, t) = {} THEN 0 ELSE Max(NamedOf(v, t))
  PROVE  Meaning!Beginning(Append(s, t))[v.hi] = Before(v, m + 1)
<1>1. PICK d : d = Meaning!Beginning(Append(s, t))[Len(s) + 1]
  OBVIOUS
<1>2. v.hi = Len(s) + 1 /\ v.lo = 0
  BY DEF TextOf
<1>3. /\ t.label = NoLabel => d = 0
      /\ t.label # NoLabel /\ NamedOf(v, t) # {} => d = Before(v, Max(NamedOf(v, t)) + 1)
  BY <1>1, LoopBegins
<1>4. CASE t.label = NoLabel
  <2>1. d = 0 /\ m = 0
    BY <1>3, <1>4
  <2>2. Before(v, m + 1) = 0
    BY <1>2, <2>1 DEF Before
  <2> QED BY <1>1, <1>2, <2>1, <2>2
<1>5. CASE t.label # NoLabel
  BY <1>1, <1>2, <1>3, <1>5
<1> QED BY <1>4, <1>5

(* The labels that are looked for are those that are in the vector.        *)
LEMMA NamedAre ==
  ASSUME RInv, NEW t \in Token
  PROVE  /\ Named(t) = NamedOf(Text, AsRead(t))
         /\ t.op = "loop" /\ t.label = NoLabel /\ status = "reading" => Named(t) = {}
<1>1. PICK C, V, lo, hi : Nested(C, V, lo, hi) /\ Meant(C, V, lo, hi)
  BY DEF RInv
<1>2. sequence \in Seq(C) /\ DOMAIN sequence = 1..Len(sequence) /\ Text.seq = sequence
  BY <1>1, LenProperties DEF Nested, WellNested, VectorIn, Text
<1>3. AsRead(t).label = t.label
  BY ReadAs
<1>4. Named(t) = NamedOf(Text, AsRead(t))
  BY <1>2, <1>3 DEF Named, NamedOf
<1>5. ASSUME t.label = NoLabel, status = "reading", NEW p \in Named(t) PROVE FALSE
  <2>1. p \in 1..Len(sequence) /\ sequence[p].op = "label" /\ sequence[p].label = NoLabel
    BY <1>2, <1>5 DEF Named
  <2>2. Written(scriptBar, sequence[p])
    <3>1. sequence[p] \in C
      BY <1>2, <2>1, ElementOfSeq
    <3> QED BY <1>1, <1>5, <3>1 DEF Meant, TextOf, Faithful
  <2>3. PICK i : i = sequence[p].id
    OBVIOUS
  <2>4. i \in 1..Len(scriptBar) /\ scriptBar[i].op = "label" /\ scriptBar[i].label = NoLabel
    BY <2>1, <2>2, <2>3 DEF Written
  <2>5. cmds[i] \in Token /\ scriptBar[i] = AsRead(cmds[i])
    <3>1. cmds \in Seq(Token)
      BY DEF RInv, IInv, Shape
    <3> QED BY <2>4, <3>1, ScriptIs
  <2> QED BY <2>4, <2>5, ReadAs
<1> QED BY <1>4, <1>5

(* A command that is parsed keeps the invariant.                           *)
LEMMA ParseMeant ==
  ASSUME RInv, NEW t \in Token, ParseCommand(t) \/ ParseLoop(t)
  PROVE  RInv'
<1>1. PICK C, V, lo, hi : Nested(C, V, lo, hi) /\ Meant(C, V, lo, hi)
  BY DEF RInv
<1>2. IInv /\ Shape /\ cmds \in Seq(Token)
  BY DEF RInv, IInv, Shape
<1>3. PICK m \in 0..Len(sequence) :
         /\ ParseAny(t) /\ status' = status
         /\ sequence' = Append(SubSeq(sequence, 1, m), Command(t, Rest(Text, m).seq))
         /\ m = IF t.op = "loop" THEN Inner(t) ELSE Len(sequence)
  BY <1>2, Parsed
<1>4. PICK r : r = Rest(Text, m)
  OBVIOUS
<1>5. PICK c : c = Command(t, r.seq)
  OBVIOUS
<1>6. status = "reading" /\ cmds' = Append(cmds, t)
  BY <1>3 DEF ParseAny
<1>7. /\ IInv' /\ Nested(C \cup {c}, V \cup {r}, lo, hi)'
      /\ Text' = Closing(Text, m, c) /\ c.id = Text.hi
  BY <1>1, <1>2, <1>3, <1>4, <1>5, Encloses
<1>8. PICK s : s = scriptBar
  OBVIOUS
<1>9. PICK x : x = AsRead(t)
  OBVIOUS
<1>10. PICK v : v = Text
  OBVIOUS
<1>11. /\ s \in Seq(ReadTokens) /\ x \in ReadTokens /\ scriptBar' = Append(s, x)
  BY <1>2, <1>6, <1>8, <1>9, ScriptIs, ReadAs, ScriptGrowsBy
<1>12. TextOf(s, C, V, v) /\ Closed(C, V)
  BY <1>1, <1>6, <1>8, <1>10 DEF Meant, Nested
<1>13. c.op = x.op /\ c.label = x.label /\ c.loops = x.times /\ c.id = v.hi
  <2>1. c.op = t.op /\ c.label = t.label /\ c.loops = CountOf(t.times)
    BY <1>5 DEF Command
  <2> QED BY <1>7, <1>9, <1>10, <2>1, ReadAs
<1>14. m \in 0..Len(v.seq) /\ v.seq = sequence
  BY <1>10 DEF Text
<1>15. IF x.op = "loop" THEN Meaning!Beginning(Append(s, x))[v.hi] = Before(v, m + 1)
                        ELSE m = Len(v.seq)
  <2>1. CASE t.op # "loop"
    BY <1>3, <1>9, <1>14, <2>1, ReadAs
  <2>2. CASE t.op = "loop"
    <3>1. ParseLoop(t)
      BY <2>2 DEF ParseCommand
    <3>2. /\ x.op = "loop" /\ x.label = t.label
          /\ Named(t) = NamedOf(v, x) /\ (t.label = NoLabel => Named(t) = {})
      BY <1>6, <1>9, <1>10, <2>2, ReadAs, NamedAre
    <3>3. t.label = NoLabel \/ Named(t) # {}
      BY <3>1 DEF ParseLoop
    <3>4. m = IF NamedOf(v, x) = {} THEN 0 ELSE Max(NamedOf(v, x))
      BY <1>3, <2>2, <3>2 DEF Inner
    <3>5. /\ x.label = NoLabel \/ NamedOf(v, x) # {}
          /\ x.label = NoLabel => NamedOf(v, x) = {}
      BY <3>2, <3>3
    <3>6. Meaning!Beginning(Append(s, x))[v.hi] = Before(v, m + 1)
      BY <1>11, <1>12, <3>2, <3>4, <3>5, ClosesAt
    <3> QED BY <3>2, <3>6
  <2> QED BY <2>1, <2>2
<1>16. /\ Faithful(Append(s, x), C \cup {c}, V \cup {Rest(v, m)})
       /\ LoopsBegin(Append(s, x), Meaning!Beginning(Append(s, x)))
       /\ Exact(Meaning!Beginning(Append(s, x)), Closing(v, m, c))
  BY <1>11, <1>12, <1>13, <1>14, <1>15, TextGrows
<1>17. TextOf(scriptBar, C \cup {c}, V \cup {r}, Text)'
  <2>1. /\ Faithful(scriptBar', C \cup {c}, V \cup {r})
        /\ LoopsBegin(scriptBar', Meaning!Beginning(scriptBar'))
        /\ Exact(Meaning!Beginning(scriptBar'), Text')
    BY <1>4, <1>7, <1>10, <1>11, <1>16
  <2>2. WellNested(C \cup {c}, V \cup {r}, Text')
    BY <1>7 DEF Nested
  <2>3. Text'.lo = 0 /\ Text'.hi = Len(scriptBar') + 1
    <3>1. cmds' \in Seq(Token)
      BY <1>7 DEF IInv, Shape
    <3>2. Len(scriptBar') = Len(cmds')
      <4>1. cmds' = Append(cmds, t) /\ Len(s) = Len(cmds) /\ Len(cmds) \in Nat
        BY <1>2, <1>6, <1>8, ScriptIs
      <4>2. Len(cmds') = Len(cmds) + 1
        BY <1>2, <4>1
      <4>3. Len(Append(s, x)) = Len(s) + 1
        BY <1>11
      <4> QED BY <1>11, <4>1, <4>2, <4>3
    <3> QED BY <3>2 DEF Text
  <2>4. /\ Faithful(scriptBar, C \cup {c}, V \cup {r})'
        /\ LoopsBegin(scriptBar, Meaning!Beginning(scriptBar))'
        /\ Exact(Meaning!Beginning(scriptBar), Text)'
        /\ WellNested(C \cup {c}, V \cup {r}, Text)'
    BY <2>1, <2>2
  <2> QED BY <2>3, <2>4 DEF TextOf
<1>18. Insides(frames, lo, hi, Len(scriptBar) + 1)'
  <2>1. frames' = <<>>
    BY <1>3, <1>6, <1>7 DEF IInv, Shape
  <2>2. Len(<<>>) = 0 /\ \A k \in 1..0 : FALSE
    BY EmptySeq
  <2> QED BY <2>1, <2>2 DEF Insides
<1>19. Meant(C \cup {c}, V \cup {r}, lo, hi)'
  BY <1>17, <1>18 DEF Meant
<1> QED BY <1>7, <1>19 DEF RInv

(* A text stays what it is when its vector becomes that of an activation.  *)
LEMMA TextRun ==
  ASSUME NEW s, NEW C, NEW V, NEW v, TextOf(s, C, V, v), WellNested(C, V \cup {v}, v)
  PROVE  TextOf(s, C, V \cup {v}, v)
BY DEF TextOf, Faithful

(* Command::Run, called for the script, keeps the invariant.               *)
LEMMA RunMeant ==
  ASSUME RInv, Run
  PROVE  RInv'
<1>1. PICK C, V, lo, hi : Nested(C, V, lo, hi) /\ Meant(C, V, lo, hi)
  BY DEF RInv
<1>2. PICK W : W = V \cup {Text}
  OBVIOUS
<1>3. PICK low : low = [k \in Nat |-> 0]
  OBVIOUS
<1>4. PICK high : high = [k \in Nat |-> Len(cmds) + 1]
  OBVIOUS
<1>5. IInv' /\ Nested(C, W, low, high)'
  BY <1>1, <1>2, <1>3, <1>4, RunKeeps DEF RInv
<1>6. /\ status = "reading" /\ cmds' = cmds /\ sequence' = sequence
      /\ frames' = <<Frame(sequence, 1, <<>>)>>
  BY DEF Run
<1>7. Text' = Text /\ scriptBar' = scriptBar
  BY <1>6 DEF Text, scriptBar
<1>8. TextOf(scriptBar, C, W, Text)
  <2>1. WellNested(C, W, Text)
    BY <1>5, <1>7 DEF Nested
  <2>2. TextOf(scriptBar, C, V, Text)
    BY <1>1, <1>6 DEF Meant
  <2> QED BY <1>2, <2>1, <2>2, TextRun
<1>9. Insides(frames', low, high, Len(scriptBar) + 1)
  <2>1. Len(scriptBar) = Len(cmds)
    BY ScriptIs DEF RInv, IInv, Shape
  <2>2. low[1] = 0 /\ high[1] = Len(scriptBar) + 1
    BY <1>3, <1>4, <2>1
  <2>3. Len(frames') = 1 /\ frames'[1].loopsuffix = <<>> /\ Len(<<>>) = 0
    BY <1>6, EmptySeq DEF Frame
  <2>4. \A k \in 1..1 : k = 1 /\ ~(k > 1) /\ k - 1 = 0
    OBVIOUS
  <2> QED BY <2>2, <2>3, <2>4 DEF Insides, Inside
<1>10. Meant(C, W, low, high)'
  BY <1>7, <1>8, <1>9 DEF Meant
<1> QED BY <1>5, <1>10 DEF RInv

(* A step that changes only the activations leaves the text as it was.     *)
LEMMA FramesMeant ==
  ASSUME NEW C, NEW V, NEW lo, NEW hi, NEW lo2, NEW hi2,
         RInv, IInv', Nested(C, V, lo2, hi2)', Meant(C, V, lo, hi), status = "running",
         UNCHANGED <<cmds, sequence, status>>,
         Insides(frames', lo2, hi2, Len(scriptBar) + 1)
  PROVE  RInv' /\ Meant(C, V, lo2, hi2)'
<1>1. Text' = Text /\ scriptBar' = scriptBar
  BY DEF Text, scriptBar
<1>2. TextOf(scriptBar, C, V, Text)
  BY DEF Meant
<1>3. Meant(C, V, lo2, hi2)'
  BY <1>1, <1>2 DEF Meant
<1> QED BY <1>3 DEF RInv

(* What the invariants say of the activations while the script is run.     *)
LEMMA Runs ==
  ASSUME NEW C, NEW V, NEW lo, NEW hi, IInv, Nested(C, V, lo, hi), Meant(C, V, lo, hi),
         status = "running"
  PROVE  /\ RunOf(scriptBar, C, V, frames, lo, hi)
         /\ Insides(frames, lo, hi, Len(scriptBar) + 1)
         /\ Shape /\ Len(frames) \in Nat \ {0} /\ frames \in Seq(FrameIn(C))
         /\ lo \in [Nat -> Nat] /\ hi \in [Nat -> Nat]
         /\ top = frames[Len(frames)] /\ Closed(C, V) /\ Stack(C, V, frames, lo, hi)
<1>1. Shape
  BY DEF IInv
<1>2. /\ Len(frames) \in Nat \ {0} /\ frames \in Seq(FrameIn(C))
      /\ top = frames[Len(frames)] /\ Closed(C, V) /\ Stack(C, V, frames, lo, hi)
  BY <1>1, TopFrame
<1>3. TextOf(scriptBar, C, V, Text) /\ Insides(frames, lo, hi, Len(scriptBar) + 1)
  BY DEF Meant
<1>4. RunOf(scriptBar, C, V, frames, lo, hi)
  BY <1>2, <1>3 DEF RunOf, TextOf, Insides
<1>5. lo \in [Nat -> Nat] /\ hi \in [Nat -> Nat]
  BY <1>2 DEF Stack
<1> QED BY <1>1, <1>2, <1>3, <1>4, <1>5

-----------------------------------------------------------------------------

(* An activation that passes a command stays for the loop it is for.       *)
LEMMA PassesInside ==
  ASSUME NEW C, NEW fs, NEW fs2, NEW lo, NEW hi, NEW e, NEW n,
         fs \in Seq(FrameIn(C)), Passes(C, fs, fs2, n), Insides(fs, lo, hi, e)
  PROVE  Insides(fs2, lo, hi, e)
<1>1. TopChanged(C, fs, fs2, n) /\ fs2[n] = [fs[n] EXCEPT !.it = @ + 1]
  BY DEF Passes
<1>2. fs[n] \in FrameIn(C)
  BY <1>1, ElementOfSeq DEF TopChanged
<1>3. fs2[n].loops = fs[n].loops /\ fs2[n].loopsuffix = fs[n].loopsuffix
  BY <1>1, <1>2 DEF FrameIn
<1> QED BY <1>1, <1>3, InsidesChanged

(* So does one that begins another round.                                  *)
LEMMA RoundsInside ==
  ASSUME NEW C, NEW fs, NEW fs2, NEW lo, NEW hi, NEW e, NEW n,
         fs \in Seq(FrameIn(C)), Rounds(C, fs, fs2, n), Insides(fs, lo, hi, e)
  PROVE  Insides(fs2, lo, hi, e)
<1>1. TopChanged(C, fs, fs2, n) /\ n > 1 /\ fs2[n].loops = fs[n].loops
  BY DEF Rounds
<1>2. n \in 1..Len(fs) /\ n \in Nat /\ n - 1 \in 1..Len(fs)
  <2>1. n \in 1..Len(fs) /\ Len(fs) \in Nat
    BY <1>1, LenProperties DEF TopChanged
  <2> QED BY <1>1, <2>1
<1>3. fs[n - 1].loopsuffix \in Seq(Nat)
  <2>1. fs[n - 1] \in FrameIn(C)
    BY <1>2, ElementOfSeq
  <2> QED BY <2>1 DEF FrameIn
<1>4. Len(fs[n - 1].loopsuffix) = (n - 1) - 1 /\ Len(fs[n].loopsuffix) = n - 1
  BY <1>2 DEF Insides, Inside
<1>5. fs2[n].loopsuffix = Append(fs[n - 1].loopsuffix, fs2[n].timesleft)
  BY <1>1 DEF TopChanged
<1>6. Len(fs2[n].loopsuffix) = Len(fs[n].loopsuffix)
  <2>1. Len(fs2[n].loopsuffix) = ((n - 1) - 1) + 1
    BY <1>3, <1>4, <1>5
  <2> QED BY <1>2, <1>4, <2>1
<1> QED BY <1>1, <1>6, InsidesChanged

(* A command or a label that is passed keeps the invariant.                *)
LEMMA AdvanceMeant ==
  ASSUME RInv, NEW C, NEW V, NEW lo, NEW hi, Nested(C, V, lo, hi), Meant(C, V, lo, hi),
         status = "running", ~AtEnd,
         frames' = Advance(frames), UNCHANGED <<cmds, sequence, status>>,
         log' \in {log, Append(log, <<cmd.id, top.loopsuffix>>)}
  PROVE  /\ RInv' /\ IInv' /\ Nested(C, V, lo, hi)' /\ Meant(C, V, lo, hi)'
         /\ Passes(C, frames, frames', Len(frames))
<1>1. IInv
  BY DEF RInv
<1>2. IInv' /\ Nested(C, V, lo, hi)'
  BY <1>1, AdvanceKeeps
<1>3. /\ Shape /\ Insides(frames, lo, hi, Len(scriptBar) + 1) /\ frames \in Seq(FrameIn(C))
  BY <1>1, Runs
<1>4. Passes(C, frames, frames', Len(frames))
  BY <1>3, AdvancePasses
<1>5. Insides(frames', lo, hi, Len(scriptBar) + 1)
  BY <1>3, <1>4, PassesInside
<1> QED BY <1>2, <1>4, <1>5, FramesMeant

(* So does a loop that is left.                                            *)
LEMMA LoopDoneMeant ==
  ASSUME RInv, LoopDone,
         NEW C, NEW V, NEW lo, NEW hi, Nested(C, V, lo, hi), Meant(C, V, lo, hi)
  PROVE  /\ RInv' /\ IInv' /\ Nested(C, V, lo, hi)' /\ Meant(C, V, lo, hi)'
         /\ Passes(C, frames, frames', Len(frames) - 1)
<1>1. IInv /\ status = "running" /\ UNCHANGED <<cmds, sequence, status>>
  BY DEF RInv, LoopDone
<1>2. IInv' /\ Nested(C, V, lo, hi)'
  BY <1>1, LoopDoneKeeps
<1>3. /\ Shape /\ Insides(frames, lo, hi, Len(scriptBar) + 1) /\ frames \in Seq(FrameIn(C))
  BY <1>1, Runs
<1>4. Passes(C, frames, frames', Len(frames) - 1)
  BY <1>3, LoopDonePasses
<1>5. Insides(frames', lo, hi, Len(scriptBar) + 1)
  BY <1>3, <1>4, PassesInside
<1> QED BY <1>1, <1>2, <1>4, <1>5, FramesMeant

(* So does another round.                                                  *)
LEMMA AgainMeant ==
  ASSUME RInv, Again,
         NEW C, NEW V, NEW lo, NEW hi, Nested(C, V, lo, hi), Meant(C, V, lo, hi)
  PROVE  /\ RInv' /\ IInv' /\ Nested(C, V, lo, hi)' /\ Meant(C, V, lo, hi)'
         /\ Rounds(C, frames, frames', Len(frames))
<1>1. IInv /\ status = "running" /\ UNCHANGED <<cmds, sequence, status>>
  BY DEF RInv, Again
<1>2. IInv' /\ Nested(C, V, lo, hi)'
  BY <1>1, AgainKeeps
<1>3. /\ Shape /\ Insides(frames, lo, hi, Len(scriptBar) + 1) /\ frames \in Seq(FrameIn(C))
  BY <1>1, Runs
<1>4. Rounds(C, frames, frames', Len(frames))
  BY <1>3, AgainRounds
<1>5. Insides(frames', lo, hi, Len(scriptBar) + 1)
  BY <1>3, <1>4, RoundsInside
<1> QED BY <1>1, <1>2, <1>4, <1>5, FramesMeant

(* And so does the body of a loop that is entered.                         *)
LEMMA RunLoopMeant ==
  ASSUME RInv, RunLoop,
         NEW C, NEW V, NEW lo, NEW hi, Nested(C, V, lo, hi), Meant(C, V, lo, hi),
         NEW lo2, NEW hi2,
         lo2 = [lo EXCEPT ![Len(frames) + 1] = LastPassed(top, lo[Len(frames)])],
         hi2 = [hi EXCEPT ![Len(frames) + 1] = Current(top)]
  PROVE  /\ RInv' /\ IInv' /\ Nested(C, V, lo2, hi2)' /\ Meant(C, V, lo2, hi2)'
         /\ Pushed(Len(frames), frames, frames', lo, lo2, hi, hi2)
         /\ frames'[Len(frames) + 1] = Frame(cmd.loopedsequence, cmd.loops,
                                             Append(top.loopsuffix, 0))
<1>1. /\ IInv /\ status = "running" /\ UNCHANGED <<cmds, sequence, status>>
      /\ cmd.op = "loop"
  BY DEF RInv, RunLoop, Running
<1>2. IInv' /\ Nested(C, V, lo2, hi2)'
  BY <1>1, RunLoopKeeps
<1>3. /\ Shape /\ Insides(frames, lo, hi, Len(scriptBar) + 1) /\ frames \in Seq(FrameIn(C))
      /\ lo \in [Nat -> Nat] /\ hi \in [Nat -> Nat] /\ top = frames[Len(frames)]
  BY <1>1, Runs
<1>4. /\ Pushed(Len(frames), frames, frames', lo, lo2, hi, hi2)
      /\ frames'[Len(frames) + 1] = Frame(cmd.loopedsequence, cmd.loops,
                                          Append(top.loopsuffix, 0))
  BY <1>3, RunLoopPushes
<1>5. /\ frames[Len(frames)].seq[frames[Len(frames)].it].op = "loop"
      /\ frames'[Len(frames) + 1].loops = frames[Len(frames)].seq[frames[Len(frames)].it].loops
  BY <1>1, <1>3, <1>4 DEF cmd, Frame
<1>6. Insides(frames', lo2, hi2, Len(scriptBar) + 1)
  BY <1>3, <1>4, <1>5, InsidesPushed
<1> QED BY <1>1, <1>2, <1>4, <1>6, FramesMeant

(* Every step keeps the invariant.                                         *)
LEMMA StepMeant == RInv /\ [Next]_vars => RInv'
<1> SUFFICES ASSUME RInv, [Next]_vars PROVE RInv'
  OBVIOUS
<1>1. PICK C, V, lo, hi : Nested(C, V, lo, hi) /\ Meant(C, V, lo, hi)
  BY DEF RInv
<1>2. IInv /\ IInv'
  BY StepInv DEF RInv
<1>3. CASE status' \notin {"reading", "running"}
  <2>1. PICK D, W, low, high : Nested(D, W, low, high)'
    BY <1>2 DEF IInv
  <2>2. Meant(D, W, low, high)'
    BY <1>3 DEF Meant
  <2> QED BY <1>2, <2>1, <2>2 DEF RInv
<1>4. CASE ParseNext
  <2>1. CASE \E t \in Token : ParseCommand(t) \/ ParseLoop(t)
    BY <2>1, ParseMeant
  <2>2. CASE \E t \in Token : ParseError(t) \/ ParseLoopError(t)
    <3>1. status' = "rejected"
      BY <2>2 DEF ParseError, ParseLoopError
    <3> QED BY <1>3, <3>1
  <2> QED BY <1>4, <2>1, <2>2 DEF ParseNext
<1>5. CASE Run
  BY <1>5, RunMeant
<1>6. CASE RunCommand
  <2>1. /\ status = "running" /\ ~AtEnd /\ UNCHANGED <<cmds, sequence>>
        /\ log' = Append(log, <<cmd.id, top.loopsuffix>>)
    BY <1>6 DEF RunCommand, Running
  <2>2. CASE frames' = Advance(frames) /\ status' = status
    BY <1>1, <2>1, <2>2, AdvanceMeant
  <2>3. CASE status' = "failing"
    BY <1>3, <2>3
  <2> QED BY <1>6, <2>2, <2>3 DEF RunCommand
<1>7. CASE RunLabel
  BY <1>1, <1>7, AdvanceMeant DEF RunLabel, Running
<1>8. CASE RunLoop
  <2>1. PICK lo2 : lo2 = [lo EXCEPT ![Len(frames) + 1] = LastPassed(top, lo[Len(frames)])]
    OBVIOUS
  <2>2. PICK hi2 : hi2 = [hi EXCEPT ![Len(frames) + 1] = Current(top)]
    OBVIOUS
  <2> QED BY <1>1, <1>8, <2>1, <2>2, RunLoopMeant
<1>9. CASE Again
  BY <1>1, <1>9, AgainMeant
<1>10. CASE LoopDone
  BY <1>1, <1>10, LoopDoneMeant
<1>11. CASE RunDone \/ Unwind
  <2>1. status' \in {"done", "failed", "failing"}
    BY <1>11 DEF RunDone, Unwind
  <2> QED BY <1>3, <2>1
<1>12. CASE UNCHANGED vars
  <2>1. /\ cmds' = cmds /\ sequence' = sequence /\ status' = status /\ frames' = frames
        /\ log' = log
    BY <1>12 DEF vars
  <2>2. Text' = Text /\ scriptBar' = scriptBar
    BY <2>1 DEF Text, scriptBar
  <2>3. Nested(C, V, lo, hi)' /\ Meant(C, V, lo, hi)'
    BY <1>1, <2>1, <2>2 DEF Nested, Meant
  <2> QED BY <1>2, <2>3 DEF RInv
<1> QED BY <1>4, <1>5, <1>6, <1>7, <1>8, <1>9, <1>10, <1>11, <1>12 DEF Next, RunNext

(* The invariant holds in every state of every run.                        *)
THEOREM Meaningful == Spec => []RInv
BY InitMeant, StepMeant, PTL DEF Spec

-----------------------------------------------------------------------------

(* The command that the activation on top is at is that of the text: the   *)
(* one behind the last position passed, unless a body stands between.      *)
LEMMA NextIs ==
  ASSUME NEW s, NEW C, NEW V, NEW fs, NEW lo, NEW hi,
         RunOf(s, C, V, fs, lo, hi), AtCommand(fs),
         NEW n, n = Len(fs), NEW c, c = fs[n].seq[fs[n].it]
  PROVE  /\ Current(fs[n]) \in 1..Len(s) /\ Current(fs[n]) = c.id
         /\ s[Current(fs[n])].op = c.op
         /\ c.op # "loop" => Current(fs[n]) = LastPassed(fs[n], lo[n]) + 1
<1>1. PICK f : f = fs[n]
  OBVIOUS
<1>2. PICK v : v = VectorOf(f, lo[n], hi[n])
  OBVIOUS
<1>3. n \in 1..Len(fs)
  BY Intervals
<1>4. f.it <= Len(f.seq)
  BY <1>1 DEF AtCommand
<1>5. /\ f.it \in 1..Len(f.seq) + 1 /\ Len(f.seq) \in Nat
      /\ Exact(Meaning!Beginning(s), v)
  BY <1>1, <1>2, <1>3, Intervals
<1>6. Written(s, c)
  BY <1>1, <1>3, <1>4, Intervals
<1>7. f.it \in 1..Len(v.seq) /\ v.seq[f.it] = c
  BY <1>1, <1>2, <1>4, <1>5 DEF VectorOf
<1>8. LastPassed(f, lo[n]) = Before(v, f.it) /\ Current(f) = c.id
  BY <1>1, <1>2 DEF LastPassed, Before, VectorOf, Current
<1>9. c.op # "loop" => c.id = Before(v, f.it) + 1
  BY <1>5, <1>7 DEF Exact
<1> QED BY <1>1, <1>6, <1>8, <1>9 DEF Written

(* At the end of its vector, an activation is before the loop it is for,   *)
(* or at the end of the script.                                            *)
LEMMA EndIs ==
  ASSUME NEW s, NEW C, NEW V, NEW fs, NEW lo, NEW hi,
         RunOf(s, C, V, fs, lo, hi), ~AtCommand(fs), NEW n, n = Len(fs)
  PROVE  LastPassed(fs[n], lo[n]) + 1 = hi[n]
<1>1. PICK f : f = fs[n]
  OBVIOUS
<1>2. PICK v : v = VectorOf(f, lo[n], hi[n])
  OBVIOUS
<1>3. n \in 1..Len(fs)
  BY Intervals
<1>4. /\ f.it \in 1..Len(f.seq) + 1 /\ Len(f.seq) \in Nat
      /\ Exact(Meaning!Beginning(s), v)
  BY <1>1, <1>2, <1>3, Intervals
<1>5. f.it = Len(f.seq) + 1
  BY <1>1, <1>4 DEF AtCommand
<1>6. LastPassed(f, lo[n]) = Before(v, Len(v.seq) + 1) /\ v.hi = hi[n]
  BY <1>2, <1>5 DEF LastPassed, Before, VectorOf
<1> QED BY <1>1, <1>4, <1>6 DEF Exact

(* The bounds of the loops that are run are positions of the text, and     *)
(* each is there only once.                                                *)
LEMMA LoopsApart ==
  ASSUME NEW s, NEW C, NEW V, NEW fs, NEW lo, NEW hi, RunOf(s, C, V, fs, lo, hi),
         NEW k \in 2..Len(fs)
  PROVE  /\ hi[k] \in Nat /\ (AtCommand(fs) => Current(fs[Len(fs)]) # hi[k])
         /\ \A j \in 2..Len(fs) : j # k => hi[j] # hi[k]
<1>1. PICK n : n = Len(fs)
  OBVIOUS
<1>2. n \in Nat \ {0} /\ n \in 1..n /\ k \in 2..n /\ k \in 1..n
  BY <1>1, Intervals
<1>3. \A i \in 1..n : hi[i] \in Nat /\ \A j \in 1..i - 1 : hi[i] < hi[j]
  BY <1>1, Intervals
<1>4. ASSUME NEW j \in 2..n, j # k PROVE hi[j] # hi[k]
  <2>1. j \in 1..n /\ (j \in 1..k - 1 \/ k \in 1..j - 1)
    BY <1>2, <1>4
  <2> QED BY <2>1, <1>2, <1>3
<1>5. ASSUME AtCommand(fs) PROVE Current(fs[n]) # hi[k]
  <2>1. fs[n].it <= Len(fs[n].seq)
    BY <1>1, <1>5 DEF AtCommand
  <2>2. Current(fs[n]) \in Nat /\ Current(fs[n]) < hi[n]
    BY <1>1, <1>2, <2>1, Intervals
  <2>3. hi[n] <= hi[k]
    <3>1. CASE k = n
      BY <3>1, <1>2, <1>3
    <3>2. CASE k # n
      <4>1. k \in 1..n - 1
        BY <3>2, <1>2
      <4> QED BY <4>1, <1>2, <1>3
    <3> QED BY <3>1, <3>2
  <2> QED BY <1>2, <1>3, <2>2, <2>3
<1> QED BY <1>1, <1>2, <1>3, <1>4, <1>5

(* The iterations of two runs of one script, of which the second has       *)
(* count c for the loop at position p and agrees with the first elsewhere. *)
CountsChanged(fs, fs2, p, c) ==
  \A i : IterationOf(fs2, i) = IF i = p THEN c ELSE IterationOf(fs, i)

(* Nothing is counted when a command is passed.                            *)
LEMMA PassesCounts ==
  ASSUME NEW s, NEW C, NEW V, NEW fs, NEW fs2, NEW lo, NEW hi,
         RunOf(s, C, V, fs, lo, hi), RunOf(s, C, V, fs2, lo, hi),
         Len(fs2) = Len(fs), \A k \in 2..Len(fs) : fs2[k].timesleft = fs[k].timesleft
  PROVE  \A i : IterationOf(fs2, i) = IterationOf(fs, i)
<1> TAKE i
<1>1. CASE \E k \in 2..Len(fs) : i = hi[k]
  <2>1. PICK k \in 2..Len(fs) : i = hi[k]
    BY <1>1
  <2>2. IterationOf(fs, i) = fs[k].timesleft
    BY <2>1, Iterations
  <2>3. IterationOf(fs2, i) = fs2[k].timesleft
    BY <2>1, Iterations
  <2> QED BY <2>2, <2>3
<1>2. CASE \A k \in 2..Len(fs) : i # hi[k]
  <2>1. IterationOf(fs, i) = 0
    BY <1>2, Iterations
  <2>2. IterationOf(fs2, i) = 0
    BY <1>2, Iterations
  <2> QED BY <2>1, <2>2
<1> QED BY <1>1, <1>2

(* A loop that is entered has counted nothing.                             *)
LEMMA PushedCounts ==
  ASSUME NEW s, NEW C, NEW V, NEW fs, NEW fs2, NEW lo, NEW lo2, NEW hi, NEW hi2, NEW n,
         RunOf(s, C, V, fs, lo, hi), RunOf(s, C, V, fs2, lo2, hi2),
         Pushed(n, fs, fs2, lo, lo2, hi, hi2), fs2[n + 1].timesleft = 0
  PROVE  \A i : IterationOf(fs2, i) = IterationOf(fs, i)
<1> TAKE i
<1>1. n \in Nat \ {0}
  BY DEF Pushed
<1>2. n = Len(fs) /\ Len(fs2) = n + 1 /\ \A k \in 1..n : fs2[k] = fs[k]
  BY DEF Pushed
<1>3. AtCommand(fs)
  BY DEF Pushed, AtCommand
<1>4. hi2 = [hi EXCEPT ![n + 1] = Current(fs[n])]
  BY DEF Pushed
<1>5. /\ n + 1 \in 2..n + 1 /\ \A k \in 2..n : k \in 1..n /\ k \in 2..n + 1 /\ k \in Nat
      /\ \A k \in 2..n : k # n + 1 /\ \A k1 \in 2..n + 1 : k1 = n + 1 \/ k1 \in 2..n
  BY <1>1
<1>6. hi2[n + 1] = Current(fs[n]) /\ \A k \in 2..n : hi2[k] = hi[k]
  <2>1. hi \in [Nat -> Nat]
    BY DEF RunOf, Stack
  <2> QED BY <1>1, <1>4, <1>5, <2>1
<1>7. /\ \A k \in 2..n + 1 : IterationOf(fs2, hi2[k]) = fs2[k].timesleft
      /\ \A j : (\A k \in 2..n + 1 : j # hi2[k]) => IterationOf(fs2, j) = 0
  <2>1. /\ \A k \in 2..Len(fs2) : IterationOf(fs2, hi2[k]) = fs2[k].timesleft
        /\ \A j : (\A k \in 2..Len(fs2) : j # hi2[k]) => IterationOf(fs2, j) = 0
    BY Iterations
  <2> QED BY <1>2, <2>1
<1>8. /\ \A k \in 2..n : IterationOf(fs, hi[k]) = fs[k].timesleft
      /\ \A j : (\A k \in 2..n : j # hi[k]) => IterationOf(fs, j) = 0
  <2>1. /\ \A k \in 2..Len(fs) : IterationOf(fs, hi[k]) = fs[k].timesleft
        /\ \A j : (\A k \in 2..Len(fs) : j # hi[k]) => IterationOf(fs, j) = 0
    BY Iterations
  <2> QED BY <1>2, <2>1
<1>9. CASE \E k \in 2..n : i = hi[k]
  <2>1. PICK k \in 2..n : i = hi[k]
    BY <1>9
  <2>2. hi2[k] = i /\ k \in 2..n + 1 /\ fs2[k] = fs[k]
    BY <1>2, <1>5, <1>6, <2>1
  <2> QED BY <1>7, <1>8, <2>1, <2>2
<1>10. CASE i = Current(fs[n])
  <2>1. \A k \in 2..Len(fs) : Current(fs[Len(fs)]) # hi[k]
    BY <1>3, LoopsApart
  <2>2. \A k \in 2..n : i # hi[k]
    BY <1>2, <1>10, <2>1
  <2> QED BY <1>5, <1>6, <1>7, <1>8, <1>10, <2>2
<1>11. CASE i # Current(fs[n]) /\ \A k \in 2..n : i # hi[k]
  <2>1. \A k \in 2..n + 1 : i # hi2[k]
    <3> TAKE k \in 2..n + 1
    <3>1. k = n + 1 \/ k \in 2..n
      BY <1>1
    <3> QED BY <3>1, <1>6, <1>11
  <2> QED BY <1>7, <1>8, <1>11, <2>1
<1> QED BY <1>9, <1>10, <1>11

(* Another round counts for its loop.                                      *)
LEMMA RoundsCounts ==
  ASSUME NEW s, NEW C, NEW V, NEW fs, NEW fs2, NEW lo, NEW hi, NEW n,
         RunOf(s, C, V, fs, lo, hi), RunOf(s, C, V, fs2, lo, hi),
         n = Len(fs), Rounds(C, fs, fs2, n)
  PROVE  CountsChanged(fs, fs2, hi[n], fs[n].timesleft + 1)
<1>1. n \in Nat /\ n > 1 /\ Len(fs2) = n /\ fs2[n].timesleft = fs[n].timesleft + 1
  <2>1. n \in Nat
    BY Intervals
  <2> QED BY <2>1 DEF Rounds, TopChanged
<1>2. \A k \in 1..n - 1 : fs2[k] = fs[k]
  BY DEF Rounds, TopChanged
<1>3. n \in 2..n /\ \A k \in 2..n : k = n \/ k \in 1..n - 1
  BY <1>1
<1>4. /\ \A k \in 2..n : IterationOf(fs2, hi[k]) = fs2[k].timesleft
      /\ \A j : (\A k \in 2..n : j # hi[k]) => IterationOf(fs2, j) = 0
  BY <1>1, Iterations
<1>5. /\ \A k \in 2..n : IterationOf(fs, hi[k]) = fs[k].timesleft
      /\ \A j : (\A k \in 2..n : j # hi[k]) => IterationOf(fs, j) = 0
  BY Iterations
<1>6. ASSUME NEW i
      PROVE  IterationOf(fs2, i) = IF i = hi[n] THEN fs[n].timesleft + 1 ELSE IterationOf(fs, i)
  <2>1. CASE i = hi[n]
    BY <1>1, <1>3, <1>4, <2>1
  <2>2. CASE i # hi[n] /\ \E k \in 2..n : i = hi[k]
    <3>1. PICK k \in 2..n : i = hi[k]
      BY <2>2
    <3>2. fs2[k] = fs[k]
      BY <1>2, <1>3, <2>2, <3>1
    <3> QED BY <1>4, <1>5, <2>2, <3>1, <3>2
  <2>3. CASE i # hi[n] /\ \A k \in 2..n : i # hi[k]
    BY <1>4, <1>5, <2>3
  <2> QED BY <2>1, <2>2, <2>3
<1> QED BY <1>6 DEF CountsChanged

(* A loop that is left has counted nothing again.                          *)
LEMMA LeavesCounts ==
  ASSUME NEW s, NEW C, NEW V, NEW fs, NEW fs2, NEW lo, NEW hi, NEW n,
         RunOf(s, C, V, fs, lo, hi), RunOf(s, C, V, fs2, lo, hi),
         n = Len(fs), n > 1, Len(fs2) = n - 1,
         \A k \in 2..n - 1 : fs2[k].timesleft = fs[k].timesleft
  PROVE  CountsChanged(fs, fs2, hi[n], 0)
<1>1. n \in Nat
  BY Intervals
<1>2. n \in 2..n /\ \A k \in 2..n : k = n \/ k \in 2..n - 1
  BY <1>1
<1>3. \A k \in 2..n - 1 : k \in 2..n /\ k # n
  BY <1>1
<1>4. /\ \A k \in 2..n - 1 : IterationOf(fs2, hi[k]) = fs2[k].timesleft
      /\ \A j : (\A k \in 2..n - 1 : j # hi[k]) => IterationOf(fs2, j) = 0
  BY Iterations
<1>5. /\ \A k \in 2..n : IterationOf(fs, hi[k]) = fs[k].timesleft
      /\ \A j : (\A k \in 2..n : j # hi[k]) => IterationOf(fs, j) = 0
  BY Iterations
<1>6. \A k \in 2..n - 1 : hi[n] # hi[k]
  BY <1>2, <1>3, LoopsApart
<1>7. ASSUME NEW i
      PROVE  IterationOf(fs2, i) = IF i = hi[n] THEN 0 ELSE IterationOf(fs, i)
  <2>1. CASE i = hi[n]
    BY <1>4, <1>6, <2>1
  <2>2. CASE i # hi[n] /\ \E k \in 2..n : i = hi[k]
    <3>1. PICK k \in 2..n : i = hi[k]
      BY <2>2
    <3>2. k \in 2..n - 1
      BY <1>2, <2>2, <3>1
    <3> QED BY <1>4, <1>5, <2>2, <3>1, <3>2
  <2>3. CASE i # hi[n] /\ \A k \in 2..n : i # hi[k]
    BY <1>3, <1>4, <1>5, <2>3
  <2> QED BY <2>1, <2>2, <2>3
<1> QED BY <1>7 DEF CountsChanged

-----------------------------------------------------------------------------

(* pcBar and iterationBar, for the status st and the activations fs.       *)
PositionOf(st, fs) == IF st = "running" THEN Max(PassedBy(fs)) + 1 ELSE 0

CountsOf(st, fs) ==
  [i \in 1..MaxTokens |-> IF st = "running" THEN IterationOf(fs, i) ELSE 0]

(* They are those, before a step and behind it.                            *)
LEMMA BarsAre ==
  /\ pcBar = PositionOf(status, frames) /\ pcBar' = PositionOf(status', frames')
  /\ iterationBar = CountsOf(status, frames) /\ iterationBar' = CountsOf(status', frames')
<1>1. pcBar = PositionOf(status, frames) /\ pcBar' = PositionOf(status', frames')
  BY DEF pcBar, PositionOf, Passed, PassedBy
<1>2. iterationBar = CountsOf(status, frames)
  BY DEF iterationBar, CountsOf, IterationOf, LoopOf, Current
<1>3. iterationBar' = CountsOf(status', frames')
  BY DEF iterationBar, CountsOf, IterationOf, LoopOf, Current
<1> QED BY <1>1, <1>2, <1>3

(* While the script is not run, they are at rest.                          *)
LEMMA BarsAtRest ==
  ASSUME NEW st, NEW fs, st # "running"
  PROVE  PositionOf(st, fs) = 0 /\ CountsOf(st, fs) = Meaning!AtRest
BY DEF PositionOf, CountsOf, Meaning!AtRest, Meaning!Positions

(* While it is run, they are those of the activations.                     *)
LEMMA BarsRunning ==
  ASSUME NEW s, NEW C, NEW V, NEW fs, NEW lo, NEW hi, RunOf(s, C, V, fs, lo, hi),
         NEW n, n = Len(fs)
  PROVE  /\ PositionOf("running", fs) = LastPassed(fs[n], lo[n]) + 1
         /\ \A i \in 1..MaxTokens : CountsOf("running", fs)[i] = IterationOf(fs, i)
<1>1. PositionOf("running", fs) = LastPassed(fs[n], lo[n]) + 1
  BY PassedMost DEF PositionOf
<1>2. \A i \in 1..MaxTokens : CountsOf("running", fs)[i] = IterationOf(fs, i)
  BY DEF CountsOf
<1> QED BY <1>1, <1>2

(* The activations of a state in which the script is run are those of it.  *)
LEMMA RunsAre ==
  ASSUME NEW s, NEW C, NEW V, NEW v, NEW fs, NEW lo, NEW hi,
         Closed(C, V), Stack(C, V, fs, lo, hi), fs # <<>>,
         TextOf(s, C, V, v), Insides(fs, lo, hi, Len(s) + 1)
  PROVE  RunOf(s, C, V, fs, lo, hi)
<1>1. Len(fs) # 0
  BY EmptySeq DEF Stack
<1> QED BY <1>1 DEF RunOf, TextOf, Insides

(* So they are behind a step that keeps the invariant.                     *)
LEMMA RunsStill ==
  ASSUME NEW C, NEW V, NEW lo, NEW hi,
         IInv', Nested(C, V, lo, hi)', Meant(C, V, lo, hi)', status' = "running"
  PROVE  RunOf(scriptBar', C, V, frames', lo, hi)
<1>1. frames' # <<>> /\ Closed(C, V) /\ Stack(C, V, frames', lo, hi)
  BY DEF IInv, Shape, Nested
<1>2. TextOf(scriptBar', C, V, Text') /\ Insides(frames', lo, hi, Len(scriptBar') + 1)
  BY DEF Meant
<1> QED BY <1>1, <1>2, RunsAre

(* The script, as it is read.                                              *)
LEMMA ScriptTyped ==
  ASSUME IInv
  PROVE  /\ cmds \in Seq(Token) /\ scriptBar \in Seq(ReadTokens)
         /\ Len(scriptBar) = Len(cmds) /\ Len(scriptBar) \in Nat
         /\ Len(scriptBar) <= MaxTokens /\ MaxTokens \in Nat
<1>1. cmds \in Seq(Token) /\ Len(cmds) <= MaxTokens
  BY DEF IInv, Shape
<1> QED BY <1>1, ScriptIs, BoundsAssumption

(* The suffix of the command that is next has the iterations of the loops  *)
(* around it.                                                              *)
LEMMA SuffixAt ==
  ASSUME NEW S, NEW s \in Seq(S), NEW C, NEW V, NEW fs, NEW lo, NEW hi,
         RunOf(s, C, V, fs, lo, hi), AtCommand(fs), NEW n, n = Len(fs),
         NEW p, p = Current(fs[n]),
         NEW count, \A k \in 2..n : count[hi[k]] = fs[k].timesleft
  PROVE  [k \in DOMAIN Meaning!Around(s, p) |-> count[Meaning!Around(s, p)[k]]]
           = fs[n].loopsuffix
<1>1. Meaning!Around(s, p) = [j \in 1..n - 1 |-> hi[j + 1]]
  BY AroundTop
<1>2. fs[n].loopsuffix = [j \in 1..n - 1 |-> fs[j + 1].timesleft]
  BY SuffixIs
<1>3. n \in Nat
  BY Intervals
<1>4. \A j \in 1..n - 1 : count[hi[j + 1]] = fs[j + 1].timesleft
  <2>1. \A j \in 1..n - 1 : j + 1 \in 2..n
    BY <1>3
  <2> QED BY <2>1
<1>5. PICK around : around = Meaning!Around(s, p)
  OBVIOUS
<1>6. DOMAIN around = 1..n - 1 /\ \A j \in 1..n - 1 : around[j] = hi[j + 1]
  BY <1>1, <1>5
<1>7. [k \in DOMAIN around |-> count[around[k]]] = [j \in 1..n - 1 |-> fs[j + 1].timesleft]
  BY <1>4, <1>6
<1> QED BY <1>2, <1>5, <1>7

-----------------------------------------------------------------------------

(* What is next, in terms of Script: the position and the command there.   *)
LEMMA AtNext ==
  ASSUME NEW C, NEW V, NEW lo, NEW hi, IInv, Nested(C, V, lo, hi), Meant(C, V, lo, hi),
         status = "running", ~AtEnd, NEW n, n = Len(frames)
  PROVE  /\ AtCommand(frames) /\ statusBar = "running"
         /\ pcBar = LastPassed(frames[n], lo[n]) + 1
         /\ Current(frames[n]) \in 1..Len(scriptBar) /\ Current(frames[n]) = cmd.id
         /\ scriptBar[Current(frames[n])].op = cmd.op
         /\ cmd.op # "loop" => pcBar = Current(frames[n])
<1>1. /\ RunOf(scriptBar, C, V, frames, lo, hi) /\ top = frames[n]
  BY Runs
<1>2. AtCommand(frames)
  <2>1. Len(top.seq) \in Nat /\ top.it \in 1..Len(top.seq) + 1
    BY TopFrame DEF IInv
  <2> QED BY <1>1, <2>1 DEF AtCommand, AtEnd
<1>3. PICK c : c = frames[n].seq[frames[n].it]
  OBVIOUS
<1>4. c = cmd
  BY <1>1, <1>3 DEF cmd
<1>5. /\ Current(frames[n]) \in 1..Len(scriptBar) /\ Current(frames[n]) = c.id
      /\ scriptBar[Current(frames[n])].op = c.op
      /\ c.op # "loop" => Current(frames[n]) = LastPassed(frames[n], lo[n]) + 1
  <2>1. PICK s : s = scriptBar
    OBVIOUS
  <2>2. PICK fs : fs = frames
    OBVIOUS
  <2>3. /\ Current(fs[n]) \in 1..Len(s) /\ Current(fs[n]) = c.id
        /\ s[Current(fs[n])].op = c.op
        /\ c.op # "loop" => Current(fs[n]) = LastPassed(fs[n], lo[n]) + 1
    BY <1>1, <1>2, <1>3, <2>1, <2>2, NextIs
  <2> QED BY <2>1, <2>2, <2>3
<1>6. pcBar = LastPassed(frames[n], lo[n]) + 1
  BY <1>1, BarsAre, BarsRunning
<1>7. statusBar = "running"
  BY DEF statusBar
<1> QED BY <1>2, <1>4, <1>5, <1>6, <1>7

(* A command that is passed leaves the position behind it and counts       *)
(* nothing.                                                                *)
LEMMA AdvanceStep ==
  ASSUME RInv, NEW C, NEW V, NEW lo, NEW hi, Nested(C, V, lo, hi), Meant(C, V, lo, hi),
         status = "running", ~AtEnd, cmd.op # "loop",
         frames' = Advance(frames), UNCHANGED <<cmds, sequence, status>>,
         log' \in {log, Append(log, <<cmd.id, top.loopsuffix>>)}
  PROVE  pcBar' = pcBar + 1 /\ iterationBar' = iterationBar
<1>1. PICK n : n = Len(frames)
  OBVIOUS
<1>2. /\ IInv' /\ Nested(C, V, lo, hi)' /\ Meant(C, V, lo, hi)'
      /\ Passes(C, frames, frames', n)
  BY <1>1, AdvanceMeant
<1>3. RunOf(scriptBar, C, V, frames, lo, hi) /\ frames \in Seq(FrameIn(C)) /\ n \in Nat \ {0}
  BY <1>1, Runs DEF RInv
<1>4. RunOf(scriptBar', C, V, frames', lo, hi) /\ scriptBar' = scriptBar
  BY <1>2, RunsStill DEF scriptBar
<1>5. RunOf(scriptBar, C, V, frames', lo, hi)
  BY <1>4
<1>6. Len(frames') = n /\ frames'[n] = [frames[n] EXCEPT !.it = @ + 1]
  BY <1>2 DEF Passes, TopChanged
<1>7. frames[n] \in FrameIn(C)
  BY <1>1, <1>3, Intervals
<1>8. pcBar' = LastPassed(frames'[n], lo[n]) + 1
  BY <1>5, <1>6, BarsAre, BarsRunning
<1>9. LastPassed(frames'[n], lo[n]) = Current(frames[n])
  <2>1. frames[n].it \in 1..Len(frames[n].seq)
    <3>1. frames[n].it <= Len(frames[n].seq)
      BY <1>2 DEF Passes
    <3>2. frames[n].it \in 1..Len(frames[n].seq) + 1 /\ Len(frames[n].seq) \in Nat
      BY <1>1, <1>3, Intervals
    <3> QED BY <3>1, <3>2
  <2> QED BY <1>6, <1>7, <2>1, Passing
<1>10. pcBar = Current(frames[n])
  BY <1>1, AtNext DEF RInv
<1>11. \A k \in 2..n : frames'[k].timesleft = frames[k].timesleft
  <2>1. \A k \in 1..n - 1 : frames'[k] = frames[k]
    BY <1>2 DEF Passes, TopChanged
  <2>2. frames'[n].timesleft = frames[n].timesleft
    BY <1>6, <1>7 DEF FrameIn
  <2>3. \A k \in 2..n : k = n \/ k \in 1..n - 1
    BY <1>3
  <2> QED BY <2>1, <2>2, <2>3
<1>12. \A i : IterationOf(frames', i) = IterationOf(frames, i)
  BY <1>1, <1>3, <1>5, <1>6, <1>11, PassesCounts
<1>13. iterationBar' = iterationBar
  BY <1>12, BarsAre DEF CountsOf
<1> QED BY <1>8, <1>9, <1>10, <1>13

(* The iterations of the loops that are run.                               *)
LEMMA LoopCounts ==
  ASSUME NEW C, NEW V, NEW lo, NEW hi, IInv, Nested(C, V, lo, hi), Meant(C, V, lo, hi),
         status = "running"
  PROVE  \A k \in 2..Len(frames) :
           /\ hi[k] \in 1..Len(scriptBar) /\ hi[k] \in 1..MaxTokens
           /\ iterationBar[hi[k]] = frames[k].timesleft
           /\ scriptBar[hi[k]].op = "loop" /\ scriptBar[hi[k]].times = frames[k].loops
           /\ Meaning!Beginning(scriptBar)[hi[k]] = lo[k]
<1>1. RunOf(scriptBar, C, V, frames, lo, hi)
  BY Runs
<1> TAKE k \in 2..Len(frames)
<1>2. PICK s : s = scriptBar
  OBVIOUS
<1>3. PICK fs : fs = frames
  OBVIOUS
<1>4. /\ IterationOf(fs, hi[k]) = fs[k].timesleft
      /\ hi[k] \in 1..Len(s) /\ s[hi[k]].op = "loop"
      /\ Meaning!Beginning(s)[hi[k]] = lo[k] /\ s[hi[k]].times = fs[k].loops
  BY <1>1, <1>2, <1>3, Iterations
<1>5. hi[k] \in 1..MaxTokens
  BY <1>2, <1>4, ScriptTyped
<1>6. iterationBar[hi[k]] = IterationOf(fs, hi[k])
  BY <1>3, <1>5, BarsAre DEF CountsOf
<1> QED BY <1>2, <1>3, <1>4, <1>5, <1>6

(* To run a command is to execute the one at the position, under the       *)
(* suffix of the loops around it; if it fails, the script does.            *)
LEMMA CommandStep ==
  ASSUME RInv, RunCommand
  PROVE  Meaning!Execute
<1>1. PICK C, V, lo, hi : Nested(C, V, lo, hi) /\ Meant(C, V, lo, hi)
  BY DEF RInv
<1>2. PICK n : n = Len(frames)
  OBVIOUS
<1>3. /\ IInv /\ status = "running" /\ ~AtEnd /\ UNCHANGED <<cmds, sequence>>
      /\ cmd.op = "plain" /\ log' = Append(log, <<cmd.id, top.loopsuffix>>)
  BY DEF RInv, RunCommand, Running
<1>4. /\ AtCommand(frames) /\ statusBar = "running"
      /\ Current(frames[n]) \in 1..Len(scriptBar) /\ Current(frames[n]) = cmd.id
      /\ scriptBar[Current(frames[n])].op = cmd.op /\ pcBar = Current(frames[n])
  BY <1>1, <1>2, <1>3, AtNext
<1>5. RunOf(scriptBar, C, V, frames, lo, hi) /\ top = frames[n]
  BY <1>1, <1>2, <1>3, Runs
<1>6. Meaning!At("plain")
  <2>1. pcBar <= Len(scriptBar)
    BY <1>4
  <2> QED BY <1>3, <1>4, <2>1 DEF Meaning!At
<1>7. Meaning!Suffix(pcBar) = top.loopsuffix
  <2>1. PICK s : s = scriptBar
    OBVIOUS
  <2>2. PICK fs : fs = frames
    OBVIOUS
  <2>3. PICK p : p = Current(fs[n])
    OBVIOUS
  <2>4. PICK count : count = iterationBar
    OBVIOUS
  <2>5. \A k \in 2..n : count[hi[k]] = fs[k].timesleft
    BY <1>1, <1>2, <1>3, <2>2, <2>4, LoopCounts
  <2>6. s \in Seq(ReadTokens)
    BY <1>3, <2>1, ScriptTyped
  <2>7. RunOf(s, C, V, fs, lo, hi) /\ AtCommand(fs) /\ n = Len(fs)
    BY <1>2, <1>4, <1>5, <2>1, <2>2
  <2>8. [k \in DOMAIN Meaning!Around(s, p) |-> count[Meaning!Around(s, p)[k]]]
          = fs[n].loopsuffix
    BY <2>3, <2>5, <2>6, <2>7, SuffixAt
  <2> QED BY <1>4, <1>5, <2>1, <2>2, <2>3, <2>4, <2>8 DEF Meaning!Suffix
<1>8. log' = Append(log, <<pcBar, Meaning!Suffix(pcBar)>>)
  BY <1>3, <1>4, <1>7
<1>9. scriptBar' = scriptBar
  BY <1>3 DEF scriptBar
<1>10. CASE frames' = Advance(frames) /\ status' = status
  <2>1. pcBar' = pcBar + 1 /\ iterationBar' = iterationBar
    BY <1>1, <1>3, <1>10, AdvanceStep
  <2>2. statusBar' = statusBar
    BY <1>10 DEF statusBar
  <2> QED BY <1>6, <1>8, <1>9, <2>1, <2>2 DEF Meaning!Execute
<1>11. CASE status' = "failing"
  <2>1. pcBar' = 0 /\ iterationBar' = Meaning!AtRest /\ statusBar' = "failed"
    BY <1>11, BarsAre, BarsAtRest DEF statusBar
  <2> QED BY <1>6, <1>8, <1>9, <2>1 DEF Meaning!Execute
<1> QED BY <1>10, <1>11 DEF RunCommand

(* A label is passed.                                                      *)
LEMMA LabelStep ==
  ASSUME RInv, RunLabel
  PROVE  Meaning!Pass
<1>1. PICK C, V, lo, hi : Nested(C, V, lo, hi) /\ Meant(C, V, lo, hi)
  BY DEF RInv
<1>2. PICK n : n = Len(frames)
  OBVIOUS
<1>3. /\ IInv /\ status = "running" /\ ~AtEnd /\ UNCHANGED <<cmds, sequence, status>>
      /\ cmd.op = "label" /\ log' = log /\ frames' = Advance(frames)
  BY DEF RInv, RunLabel, Running
<1>4. /\ statusBar = "running" /\ Current(frames[n]) \in 1..Len(scriptBar)
      /\ scriptBar[Current(frames[n])].op = cmd.op /\ pcBar = Current(frames[n])
  BY <1>1, <1>2, <1>3, AtNext
<1>5. Meaning!At("label")
  <2>1. pcBar <= Len(scriptBar)
    BY <1>4
  <2> QED BY <1>3, <1>4, <2>1 DEF Meaning!At
<1>6. pcBar' = pcBar + 1 /\ iterationBar' = iterationBar
  BY <1>1, <1>3, AdvanceStep
<1>7. scriptBar' = scriptBar /\ statusBar' = statusBar
  BY <1>3 DEF scriptBar, statusBar
<1> QED BY <1>3, <1>5, <1>6, <1>7 DEF Meaning!Pass

(* Entering the body of a loop is no step of the script.                   *)
LEMMA LoopStep ==
  ASSUME RInv, RunLoop
  PROVE  UNCHANGED Meaning!scriptVars
<1>1. PICK C, V, lo, hi : Nested(C, V, lo, hi) /\ Meant(C, V, lo, hi)
  BY DEF RInv
<1>2. PICK n : n = Len(frames)
  OBVIOUS
<1>3. /\ IInv /\ status = "running" /\ ~AtEnd /\ UNCHANGED <<cmds, sequence, status, log>>
  BY DEF RInv, RunLoop, Running
<1>4. PICK lo2 : lo2 = [lo EXCEPT ![Len(frames) + 1] = LastPassed(top, lo[Len(frames)])]
  OBVIOUS
<1>5. PICK hi2 : hi2 = [hi EXCEPT ![Len(frames) + 1] = Current(top)]
  OBVIOUS
<1>6. /\ IInv' /\ Nested(C, V, lo2, hi2)' /\ Meant(C, V, lo2, hi2)'
      /\ Pushed(n, frames, frames', lo, lo2, hi, hi2)
      /\ frames'[n + 1] = Frame(cmd.loopedsequence, cmd.loops, Append(top.loopsuffix, 0))
  BY <1>1, <1>2, <1>4, <1>5, RunLoopMeant
<1>7. scriptBar' = scriptBar /\ statusBar' = statusBar
  BY <1>3 DEF scriptBar, statusBar
<1>8. RunOf(scriptBar, C, V, frames, lo, hi) /\ lo \in [Nat -> Nat]
  BY <1>1, <1>3, Runs
<1>9. RunOf(scriptBar, C, V, frames', lo2, hi2)
  <2>1. RunOf(scriptBar', C, V, frames', lo2, hi2)
    BY <1>3, <1>6, RunsStill
  <2> QED BY <1>7, <2>1
<1>10. frames'[n + 1].it = 1 /\ frames'[n + 1].timesleft = 0
  BY <1>6 DEF Frame
<1>11. n \in Nat \ {0} /\ Len(frames') = n + 1
  BY <1>6 DEF Pushed
<1>12. lo2[n + 1] = LastPassed(frames[n], lo[n])
  <2>1. lo2 = [lo EXCEPT ![n + 1] = LastPassed(frames[n], lo[n])]
    BY <1>6 DEF Pushed
  <2> QED BY <1>8, <1>11, <2>1
<1>13. pcBar' = pcBar
  <2>1. pcBar = LastPassed(frames[n], lo[n]) + 1
    BY <1>2, <1>3, <1>8, BarsAre, BarsRunning
  <2>2. pcBar' = LastPassed(frames'[n + 1], lo2[n + 1]) + 1
    BY <1>3, <1>9, <1>11, BarsAre, BarsRunning
  <2>3. LastPassed(frames'[n + 1], lo2[n + 1]) = lo2[n + 1]
    BY <1>10 DEF LastPassed, Before, VectorOf
  <2> QED BY <1>12, <2>1, <2>2, <2>3
<1>14. \A i : IterationOf(frames', i) = IterationOf(frames, i)
  BY <1>6, <1>8, <1>9, <1>10, PushedCounts
<1>15. iterationBar' = iterationBar
  BY <1>3, <1>14, BarsAre DEF CountsOf
<1> QED BY <1>3, <1>7, <1>13, <1>15 DEF Meaning!scriptVars

(* At the end of its body, the position is that of the loop.               *)
LEMMA AtLoop ==
  ASSUME NEW C, NEW V, NEW lo, NEW hi, IInv, Nested(C, V, lo, hi), Meant(C, V, lo, hi),
         status = "running", AtEnd, NEW n, n = Len(frames)
  PROVE  /\ RunOf(scriptBar, C, V, frames, lo, hi) /\ pcBar = hi[n] /\ n \in Nat
         /\ frames \in Seq(FrameIn(C)) /\ top = frames[n] /\ statusBar = "running"
         /\ n > 1 => Meaning!At("loop")
<1>1. /\ RunOf(scriptBar, C, V, frames, lo, hi) /\ top = frames[n] /\ n \in Nat \ {0}
      /\ frames \in Seq(FrameIn(C))
  BY Runs
<1>2. ~AtCommand(frames)
  <2>1. Len(top.seq) \in Nat /\ top.it \in 1..Len(top.seq) + 1
    BY TopFrame DEF IInv
  <2> QED BY <1>1, <2>1 DEF AtCommand, AtEnd
<1>3. pcBar = hi[n]
  <2>1. pcBar = LastPassed(frames[n], lo[n]) + 1
    BY <1>1, BarsAre, BarsRunning
  <2>2. LastPassed(frames[n], lo[n]) + 1 = hi[n]
    BY <1>1, <1>2, EndIs
  <2> QED BY <2>1, <2>2
<1>4. statusBar = "running"
  BY DEF statusBar
<1>5. n > 1 => Meaning!At("loop")
  <2>1. n > 1 => n \in 2..n
    BY <1>1
  <2>2. n > 1 => hi[n] \in 1..Len(scriptBar) /\ scriptBar[hi[n]].op = "loop"
    BY <2>1, LoopCounts
  <2>3. n > 1 => hi[n] <= Len(scriptBar)
    BY <2>2
  <2> QED BY <1>3, <1>4, <2>2, <2>3 DEF Meaning!At
<1> QED BY <1>1, <1>3, <1>4, <1>5

(* Another round of a loop jumps back behind its label.                    *)
LEMMA AgainStep ==
  ASSUME RInv, Again
  PROVE  Meaning!Repeat
<1>1. PICK C, V, lo, hi : Nested(C, V, lo, hi) /\ Meant(C, V, lo, hi)
  BY DEF RInv
<1>2. PICK n : n = Len(frames)
  OBVIOUS
<1>3. /\ IInv /\ status = "running" /\ AtEnd /\ UNCHANGED <<cmds, sequence, status, log>>
      /\ n > 1 /\ top.timesleft + 1 < top.loops
  BY <1>2 DEF RInv, Again
<1>4. /\ RunOf(scriptBar, C, V, frames, lo, hi) /\ pcBar = hi[n] /\ n \in Nat
      /\ top = frames[n] /\ Meaning!At("loop")
  BY <1>1, <1>2, <1>3, AtLoop
<1>5. /\ IInv' /\ Nested(C, V, lo, hi)' /\ Meant(C, V, lo, hi)'
      /\ Rounds(C, frames, frames', n)
  BY <1>1, <1>2, AgainMeant
<1>6. scriptBar' = scriptBar /\ statusBar' = statusBar
  BY <1>3 DEF scriptBar, statusBar
<1>7. RunOf(scriptBar, C, V, frames', lo, hi)
  <2>1. RunOf(scriptBar', C, V, frames', lo, hi)
    BY <1>3, <1>5, RunsStill
  <2> QED BY <1>6, <2>1
<1>8. /\ n \in 2..Len(frames) /\ hi[n] \in 1..MaxTokens
      /\ iterationBar[hi[n]] = frames[n].timesleft /\ scriptBar[hi[n]].times = frames[n].loops
      /\ Meaning!Beginning(scriptBar)[hi[n]] = lo[n]
  <2>1. n \in 2..Len(frames)
    BY <1>2, <1>3, <1>4
  <2> QED BY <1>1, <1>3, <2>1, LoopCounts
<1>9. iterationBar[pcBar] + 1 < scriptBar[pcBar].times
  BY <1>3, <1>4, <1>8
<1>10. pcBar' = Meaning!Beginning(scriptBar)[pcBar] + 1
  <2>1. frames'[n].it = 1 /\ Len(frames') = n
    BY <1>5 DEF Rounds, TopChanged
  <2>2. LastPassed(frames'[n], lo[n]) = lo[n]
    BY <2>1 DEF LastPassed, Before, VectorOf
  <2>3. pcBar' = LastPassed(frames'[n], lo[n]) + 1
    BY <1>3, <1>7, <2>1, BarsAre, BarsRunning
  <2> QED BY <1>4, <1>8, <2>2, <2>3
<1>11. iterationBar' = [iterationBar EXCEPT ![pcBar] = @ + 1]
  <2>1. CountsChanged(frames, frames', hi[n], frames[n].timesleft + 1)
    BY <1>2, <1>4, <1>5, <1>7, RoundsCounts
  <2>2. iterationBar = CountsOf("running", frames) /\ iterationBar' = CountsOf("running", frames')
    BY <1>3, BarsAre
  <2> QED BY <1>4, <1>8, <2>1, <2>2 DEF CountsOf, CountsChanged
<1> QED BY <1>3, <1>4, <1>6, <1>9, <1>10, <1>11 DEF Meaning!Repeat

(* A loop that is done leaves its count at rest and the position behind it. *)
LEMMA LoopDoneStep ==
  ASSUME RInv, LoopDone
  PROVE  Meaning!Leave
<1>1. PICK C, V, lo, hi : Nested(C, V, lo, hi) /\ Meant(C, V, lo, hi)
  BY DEF RInv
<1>2. PICK n : n = Len(frames)
  OBVIOUS
<1>3. /\ IInv /\ status = "running" /\ AtEnd /\ UNCHANGED <<cmds, sequence, status, log>>
      /\ n > 1 /\ top.timesleft + 1 >= top.loops
  BY <1>2 DEF RInv, LoopDone
<1>4. /\ RunOf(scriptBar, C, V, frames, lo, hi) /\ pcBar = hi[n] /\ n \in Nat
      /\ top = frames[n] /\ Meaning!At("loop") /\ frames \in Seq(FrameIn(C))
  BY <1>1, <1>2, <1>3, AtLoop
<1>5. /\ IInv' /\ Nested(C, V, lo, hi)' /\ Meant(C, V, lo, hi)'
      /\ Passes(C, frames, frames', n - 1)
  BY <1>1, <1>2, LoopDoneMeant
<1>6. scriptBar' = scriptBar /\ statusBar' = statusBar
  BY <1>3 DEF scriptBar, statusBar
<1>7. RunOf(scriptBar, C, V, frames', lo, hi)
  <2>1. RunOf(scriptBar', C, V, frames', lo, hi)
    BY <1>3, <1>5, RunsStill
  <2> QED BY <1>6, <2>1
<1>8. /\ n \in 2..Len(frames) /\ hi[n] \in 1..MaxTokens
      /\ iterationBar[hi[n]] = frames[n].timesleft /\ scriptBar[hi[n]].times = frames[n].loops
  <2>1. n \in 2..Len(frames)
    BY <1>2, <1>3, <1>4
  <2> QED BY <1>1, <1>3, <2>1, LoopCounts
<1>9. iterationBar[pcBar] + 1 >= scriptBar[pcBar].times
  BY <1>3, <1>4, <1>8
<1>10. PICK m : m = n - 1
  OBVIOUS
<1>11. /\ m \in 1..Len(frames) /\ m \in Nat \ {0} /\ Len(frames') = m
       /\ frames[m].it <= Len(frames[m].seq)
       /\ frames'[m] = [frames[m] EXCEPT !.it = @ + 1]
       /\ \A k \in 1..m - 1 : frames'[k] = frames[k]
  <2>1. m \in 1..Len(frames) /\ m \in Nat \ {0}
    BY <1>2, <1>3, <1>4, <1>10
  <2> QED BY <1>5, <1>10, <2>1 DEF Passes, TopChanged
<1>12. /\ frames[m] \in FrameIn(C) /\ frames[m].it \in 1..Len(frames[m].seq)
  <2>1. frames[m] \in FrameIn(C) /\ frames[m].it \in 1..Len(frames[m].seq) + 1
        /\ Len(frames[m].seq) \in Nat
    BY <1>4, <1>11, Intervals
  <2> QED BY <1>11, <2>1
<1>13. pcBar' = pcBar + 1
  <2>1. pcBar' = LastPassed(frames'[m], lo[m]) + 1
    BY <1>3, <1>7, <1>11, BarsAre, BarsRunning
  <2>2. LastPassed(frames'[m], lo[m]) = Current(frames[m])
    BY <1>11, <1>12, Passing
  <2>3. Current(frames[m]) = hi[n]
    BY <1>4, <1>8, <1>10, Iterations
  <2> QED BY <1>4, <2>1, <2>2, <2>3
<1>14. iterationBar' = [iterationBar EXCEPT ![pcBar] = 0]
  <2>1. \A k \in 2..n - 1 : frames'[k].timesleft = frames[k].timesleft
    <3>1. frames'[m].timesleft = frames[m].timesleft
      BY <1>11, <1>12 DEF FrameIn
    <3>2. \A k \in 2..n - 1 : k = m \/ k \in 1..m - 1
      BY <1>4, <1>10
    <3> QED BY <1>11, <3>1, <3>2
  <2>2. CountsChanged(frames, frames', hi[n], 0)
    BY <1>2, <1>3, <1>4, <1>7, <1>10, <1>11, <2>1, LeavesCounts
  <2>3. iterationBar = CountsOf("running", frames) /\ iterationBar' = CountsOf("running", frames')
    BY <1>3, BarsAre
  <2> QED BY <1>4, <1>8, <2>2, <2>3 DEF CountsOf, CountsChanged
<1> QED BY <1>3, <1>4, <1>6, <1>9, <1>13, <1>14 DEF Meaning!Leave

(* The end of the script is reached.                                       *)
LEMMA RunDoneStep ==
  ASSUME RInv, RunDone
  PROVE  Meaning!Finish
<1>1. PICK C, V, lo, hi : Nested(C, V, lo, hi) /\ Meant(C, V, lo, hi)
  BY DEF RInv
<1>2. PICK n : n = Len(frames)
  OBVIOUS
<1>3. /\ IInv /\ status = "running" /\ AtEnd /\ UNCHANGED <<cmds, sequence, log>>
      /\ n = 1 /\ status' = "done"
  BY <1>2 DEF RInv, RunDone
<1>4. /\ RunOf(scriptBar, C, V, frames, lo, hi) /\ pcBar = hi[n] /\ statusBar = "running"
  BY <1>1, <1>2, <1>3, AtLoop
<1>5. pcBar > Len(scriptBar)
  <2>1. hi[1] = Len(scriptBar) + 1
    <3>1. Insides(frames, lo, hi, Len(scriptBar) + 1)
      BY <1>1, <1>3, Runs
    <3>2. 1 \in 1..Len(frames)
      BY <1>2, <1>3
    <3> QED BY <3>1, <3>2 DEF Insides, Inside
  <2>2. Len(scriptBar) \in Nat
    BY <1>3, ScriptTyped
  <2> QED BY <1>3, <1>4, <2>1, <2>2
<1>6. pcBar' = 0 /\ statusBar' = "done"
  BY <1>3, BarsAre, BarsAtRest DEF statusBar
<1>7. iterationBar' = iterationBar
  <2>1. \A i : IterationOf(frames, i) = 0
    <3>1. \A k \in 2..Len(frames) : FALSE
      BY <1>2, <1>3
    <3> QED BY <3>1 DEF IterationOf
  <2> QED BY <1>3, <2>1, BarsAre DEF CountsOf
<1>8. scriptBar' = scriptBar
  BY <1>3 DEF scriptBar
<1> QED BY <1>3, <1>4, <1>5, <1>6, <1>7, <1>8 DEF Meaning!Finish

(* Command::Run begins at the first position.                              *)
LEMMA RunStep ==
  ASSUME RInv, Run
  PROVE  Meaning!Start
<1>1. /\ status = "reading" /\ status' = "running" /\ UNCHANGED <<cmds, sequence, log>>
      /\ frames' = <<Frame(sequence, 1, <<>>)>>
  BY DEF Run
<1>2. scriptBar' = scriptBar /\ statusBar = "reading" /\ statusBar' = "running"
  BY <1>1 DEF scriptBar, statusBar
<1>3. Len(frames') = 1 /\ DOMAIN frames' = 1..1 /\ frames'[1].it = 1
  BY <1>1 DEF Frame
<1>4. PassedBy(frames') = {0}
  <2>1. \A k \in 1..1 : ~(frames'[k].it > 1)
    BY <1>3
  <2>2. {n \in DOMAIN frames' : frames'[n].it > 1} = {}
    BY <1>3, <2>1
  <2> QED BY <2>2 DEF PassedBy
<1>5. pcBar' = 1
  <2>1. Max({0}) = 0
    BY MaxIs
  <2> QED BY <1>1, <1>4, <2>1, BarsAre DEF PositionOf
<1>6. iterationBar' = iterationBar
  <2>1. \A i : IterationOf(frames', i) = 0
    <3>1. \A k \in 2..Len(frames') : FALSE
      BY <1>3
    <3> QED BY <3>1 DEF IterationOf
  <2> QED BY <1>1, <2>1, BarsAre DEF CountsOf
<1> QED BY <1>1, <1>2, <1>5, <1>6 DEF Meaning!Start

(* Handing on the false of a command is no step of the script, which has   *)
(* failed with the command.                                                *)
LEMMA UnwindStep ==
  ASSUME Unwind
  PROVE  UNCHANGED Meaning!scriptVars
<1>1. /\ status = "failing" /\ status' \in {"failing", "failed"}
      /\ UNCHANGED <<cmds, sequence, log>>
  BY DEF Unwind
<1>2. scriptBar' = scriptBar /\ statusBar' = statusBar
  BY <1>1 DEF scriptBar, statusBar
<1>3. pcBar' = pcBar /\ iterationBar' = iterationBar
  BY <1>1, BarsAre, BarsAtRest
<1> QED BY <1>1, <1>2, <1>3 DEF Meaning!scriptVars

(* Parse refuses what has no meaning: a command that is bad, and a loop    *)
(* whose label is not there.                                               *)
LEMMA Refused ==
  ASSUME RInv, NEW t \in Token, status = "reading", cmds' = Append(cmds, t)
  PROVE  Meaning!Meaningless(scriptBar')
           <=> t.op = "bad" \/ (t.op = "loop" /\ t.label # NoLabel /\ Named(t) = {})
<1>1. PICK C, V, lo, hi : Nested(C, V, lo, hi) /\ Meant(C, V, lo, hi)
  BY DEF RInv
<1>2. PICK s : s = scriptBar
  OBVIOUS
<1>3. PICK x : x = AsRead(t)
  OBVIOUS
<1>4. PICK v : v = Text
  OBVIOUS
<1>5. s \in Seq(ReadTokens) /\ x \in ReadTokens /\ scriptBar' = Append(s, x)
  <2>1. cmds \in Seq(Token)
    BY DEF RInv, IInv, Shape
  <2> QED BY <1>2, <1>3, <2>1, ScriptIs, ReadAs, ScriptGrowsBy
<1>6. TextOf(s, C, V, v)
  BY <1>1, <1>2, <1>4 DEF Meant
<1>7. /\ x.op = t.op /\ x.label = t.label /\ Named(t) = NamedOf(v, x)
  BY <1>3, <1>4, ReadAs, NamedAre
<1>8. PICK u : u = Append(s, x)
  OBVIOUS
<1>9. Len(u) = Len(s) + 1 /\ Len(s) \in Nat /\ u[Len(s) + 1] = x
  BY <1>5, <1>8
<1>10. PICK d : d = Meaning!Beginning(Append(s, x))[Len(s) + 1]
  OBVIOUS
<1>11. d = Meaning!Nowhere <=> x.label # NoLabel /\ NamedOf(v, x) = {}
  <2>1. /\ x.label = NoLabel => d = 0
        /\ x.label # NoLabel /\ NamedOf(v, x) = {} => d = Meaning!Nowhere
        /\ x.label # NoLabel /\ NamedOf(v, x) # {} =>
             /\ Max(NamedOf(v, x)) \in 1..Len(v.seq)
             /\ d = Before(v, Max(NamedOf(v, x)) + 1)
    BY <1>5, <1>6, <1>10, LoopBegins
  <2>2. ASSUME x.label # NoLabel, NamedOf(v, x) # {} PROVE d \in Nat
    <3>1. PICK m : m = Max(NamedOf(v, x))
      OBVIOUS
    <3>2. WellNested(C, V, v)
      BY <1>6 DEF TextOf
    <3>3. m + 1 \in 1..Len(v.seq) + 1
      <4>1. Len(v.seq) \in Nat
        BY <3>2, BeforeBounds
      <4> QED BY <2>1, <2>2, <3>1, <4>1
    <3> QED BY <2>1, <2>2, <3>1, <3>2, <3>3, BeforeBounds
  <2> QED BY <2>1, <2>2 DEF Meaning!Nowhere
<1>12. Meaning!Last(u) = x
  BY <1>9 DEF Meaning!Last
<1>13. Meaning!Beginning(u)[Len(u)] = d
  BY <1>8, <1>9, <1>10
<1>14. Meaning!Meaningless(u) <=> x.op = "bad" \/ (x.op = "loop" /\ d = Meaning!Nowhere)
  BY <1>12, <1>13 DEF Meaning!Meaningless
<1> QED BY <1>5, <1>7, <1>8, <1>11, <1>14

(* What Parse reads and whether it goes on is what Script says.            *)
LEMMA ReadStep ==
  ASSUME RInv, NEW t \in Token,
         ParseCommand(t) \/ ParseError(t) \/ ParseLoop(t) \/ ParseLoopError(t)
  PROVE  Meaning!Read
<1>1. ParseAny(t)
  BY DEF ParseCommand, ParseError, ParseLoop, ParseLoopError
<1>2. /\ IInv /\ status = "reading" /\ Len(cmds) < MaxTokens /\ cmds' = Append(cmds, t)
      /\ frames' = frames /\ log' = log
  BY <1>1 DEF RInv, ParseAny
<1>3. PICK x : x = AsRead(t)
  OBVIOUS
<1>4. /\ scriptBar' = Append(scriptBar, x) /\ Len(scriptBar) < MaxTokens
      /\ statusBar = "reading" /\ x \in {AsRead(y) : y \in Token}
  <2>1. scriptBar' = Append(scriptBar, x) /\ Len(scriptBar) = Len(cmds)
    BY <1>2, <1>3, ScriptTyped, ScriptGrowsBy
  <2>2. statusBar = "reading"
    BY <1>2 DEF statusBar
  <2> QED BY <1>2, <1>3, <2>1, <2>2
<1>5. statusBar' = IF Meaning!Meaningless(scriptBar') THEN "rejected" ELSE "reading"
  <2>1. Meaning!Meaningless(scriptBar')
          <=> t.op = "bad" \/ (t.op = "loop" /\ t.label # NoLabel /\ Named(t) = {})
    BY <1>2, Refused
  <2>2. CASE ParseCommand(t) \/ ParseLoop(t)
    <3>1. status' = status
      BY <2>2 DEF ParseCommand, ParseLoop
    <3>2. ~(t.op = "bad" \/ (t.op = "loop" /\ t.label # NoLabel /\ Named(t) = {}))
      BY <2>2 DEF ParseCommand, ParseLoop
    <3> QED BY <1>2, <2>1, <3>1, <3>2 DEF statusBar
  <2>3. CASE ParseError(t) \/ ParseLoopError(t)
    <3>1. status' = "rejected"
      BY <2>3 DEF ParseError, ParseLoopError
    <3>2. t.op = "bad" \/ (t.op = "loop" /\ t.label # NoLabel /\ Named(t) = {})
      BY <2>3 DEF ParseError, ParseLoopError
    <3> QED BY <2>1, <3>1, <3>2 DEF statusBar
  <2> QED BY <2>2, <2>3
<1>6. pcBar' = pcBar /\ iterationBar' = iterationBar
  <2>1. status' # "running"
    BY <1>2 DEF ParseCommand, ParseError, ParseLoop, ParseLoopError
  <2> QED BY <1>2, <2>1, BarsAre, BarsAtRest
<1> QED BY <1>2, <1>4, <1>5, <1>6 DEF Meaning!Read

(* Before Parse begins, the script is empty and nothing is counted.        *)
LEMMA InitRefines == Init => Meaning!Init
<1> SUFFICES ASSUME Init PROVE Meaning!Init
  OBVIOUS
<1>1. cmds = <<>> /\ status = "reading" /\ log = <<>>
  BY DEF Init
<1>2. scriptBar = <<>>
  <2>1. scriptBar \in Seq(ReadTokens) /\ Len(scriptBar) = 0
    BY <1>1, EmptySeq, ScriptIs
  <2> QED BY <2>1, EmptySeq
<1>3. statusBar = "reading" /\ pcBar = 0 /\ iterationBar = Meaning!AtRest
  BY <1>1, BarsAre, BarsAtRest DEF statusBar
<1> QED BY <1>1, <1>2, <1>3 DEF Meaning!Init

(* Every step of the interpreter is one of the script or none.             *)
LEMMA StepRefines == RInv /\ [Next]_vars => [Meaning!Next]_Meaning!scriptVars
<1> SUFFICES ASSUME RInv, [Next]_vars PROVE Meaning!Next \/ UNCHANGED Meaning!scriptVars
  OBVIOUS
<1>1. CASE ParseNext
  BY <1>1, ReadStep DEF ParseNext, Meaning!Next
<1>2. CASE Run
  BY <1>2, RunStep DEF Meaning!Next
<1>3. CASE RunCommand
  BY <1>3, CommandStep DEF Meaning!Next
<1>4. CASE RunLabel
  BY <1>4, LabelStep DEF Meaning!Next
<1>5. CASE RunLoop
  BY <1>5, LoopStep
<1>6. CASE Again
  BY <1>6, AgainStep DEF Meaning!Next
<1>7. CASE LoopDone
  BY <1>7, LoopDoneStep DEF Meaning!Next
<1>8. CASE RunDone
  BY <1>8, RunDoneStep DEF Meaning!Next
<1>9. CASE Unwind
  BY <1>9, UnwindStep
<1>10. CASE UNCHANGED vars
  <2>1. /\ cmds' = cmds /\ status' = status /\ frames' = frames /\ log' = log
    BY <1>10 DEF vars
  <2>2. scriptBar' = scriptBar /\ statusBar' = statusBar
    BY <2>1 DEF scriptBar, statusBar
  <2>3. pcBar' = pcBar /\ iterationBar' = iterationBar
    BY <2>1, BarsAre
  <2> QED BY <2>1, <2>2, <2>3 DEF Meaning!scriptVars
<1> QED BY <1>1, <1>2, <1>3, <1>4, <1>5, <1>6, <1>7, <1>8, <1>9, <1>10 DEF Next, RunNext

(* For every set of labels and counts and for texts of any length, what    *)
(* the interpreter does is what the script says: Parse refuses exactly the *)
(* scripts that have no meaning, the commands are run in the order of the  *)
(* script, each as often as the loops around it say and under the suffix   *)
(* of their iterations, and nothing is run behind one that fails           *)
(* (Command::Parse, Command::Run, Loop).                                   *)
THEOREM Refinement == Spec => ImplementsScript
<1>1. Init => Meaning!Init
  BY InitRefines
<1>2. RInv /\ [Next]_vars => [Meaning!Next]_Meaning!scriptVars
  BY StepRefines
<1> QED BY <1>1, <1>2, Meaningful, PTL DEF Spec, ImplementsScript, Meaning!Spec

=============================================================================
