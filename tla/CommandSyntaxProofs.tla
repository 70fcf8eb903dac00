------------------------- MODULE CommandSyntaxProofs -------------------------
(***************************************************************************)
(* That the parser reads what is written, for every text and every program.*)
(*                                                                         *)
(* First what the recursive functions of CommandSyntax return, and what    *)
(* its operators on sequences do.  Then that the arguments a command is    *)
(* written with can be read as that command and as no other, and that what *)
(* can be read is well formed.  Steps says that every action passes over a *)
(* letter, reads one command, is refused, or begins or ends a reading; the *)
(* three theorems have an invariant each, kept by these kinds of steps.    *)
(***************************************************************************)
EXTENDS CommandSyntax, SequenceTheorems, FiniteSetTheorems, WellFoundedInduction, TLAPS

(* Induction over the numbers, for a set of them.                          *)
LEMMA Inductive ==
  ASSUME NEW T, 0 \in T, \A n \in Nat : n \in T => n + 1 \in T
  PROVE  \A n \in Nat : n \in T
<1> DEFINE F == {n \in Nat : n \notin T}
           L == OpToRel(<, Nat)
<1>1. SUFFICES ASSUME F # {} PROVE FALSE
  OBVIOUS
<1>2. PICK n \in F : \A y \in F : ~(<<y, n>> \in L)
  <2>1. F \subseteq Nat
    OBVIOUS
  <2> HIDE DEF F, L
  <2> QED BY <1>1, <2>1, WFMin, NatLessThanWellFounded DEF L
<1>3. n \in Nat /\ n \notin T /\ n # 0
  OBVIOUS
<1>4. n - 1 \in Nat /\ (n - 1) + 1 = n /\ n - 1 < n
  BY <1>3
<1>5. <<n - 1, n>> \in L
  BY <1>3, <1>4 DEF OpToRel
<1>6. n - 1 \in T
  BY <1>2, <1>4, <1>5
<1> QED BY <1>3, <1>4, <1>6

(* Induction from all smaller numbers.                                     *)
LEMMA Complete ==
  ASSUME NEW T, \A n \in Nat : (\A m \in Nat : m < n => m \in T) => n \in T
  PROVE  \A n \in Nat : n \in T
<1> DEFINE U == {n \in Nat : \A m \in Nat : m <= n => m \in T}
<1>1. 0 \in U
  <2>1. \A m \in Nat : ~ m < 0
    OBVIOUS
  <2>2. 0 \in T
    BY <2>1
  <2>3. \A m \in Nat : m <= 0 => m = 0
    OBVIOUS
  <2> QED BY <2>2, <2>3
<1>2. ASSUME NEW n \in Nat, n \in U PROVE n + 1 \in U
  <2>1. \A m \in Nat : m < n + 1 => m <= n
    OBVIOUS
  <2>2. n + 1 \in T
    BY <1>2, <2>1
  <2>3. \A m \in Nat : m <= n + 1 => m <= n \/ m = n + 1
    OBVIOUS
  <2> QED BY <1>2, <2>2, <2>3
<1>3. \A n \in Nat : n \in U
  <2> HIDE DEF U
  <2> QED BY <1>1, <1>2, Inductive
<1>4. \A n \in Nat : n <= n
  OBVIOUS
<1> QED BY <1>3, <1>4

(* A recursive function on 0..N is what is said of it, if the value at n   *)
(* comes from that at an earlier number: h gives it, and d says which.     *)
Recursive(f, N, z, h, d) ==
  f = [n \in 0..N |-> IF n = 0 THEN z ELSE h[n, f[d[n]]]]

(* Such a function exists, for every length.                               *)
LEMMA RecursiveExists ==
  ASSUME NEW S, NEW z \in S, NEW h \in [Nat \X S -> S],
         NEW d \in [Nat -> Nat], \A n \in Nat : n # 0 => d[n] < n
  PROVE  \A N \in Nat : \E f \in [0..N -> S] : Recursive(f, N, z, h, d)
<1> DEFINE T == {N \in Nat : \E f \in [0..N -> S] : Recursive(f, N, z, h, d)}
<1>1. 0 \in T
  <2> DEFINE f == [n \in 0..0 |-> z]
  <2>1. \A n \in 0..0 : n = 0
    OBVIOUS
  <2>2. f = [n \in 0..0 |-> IF n = 0 THEN z ELSE h[n, f[d[n]]]]
    BY <2>1
  <2>3. f \in [0..0 -> S]
    OBVIOUS
  <2> HIDE DEF f
  <2> QED BY <2>2, <2>3 DEF Recursive
<1>2. ASSUME NEW N \in Nat, N \in T PROVE N + 1 \in T
  <2>1. PICK f \in [0..N -> S] : Recursive(f, N, z, h, d)
    BY <1>2
  <2>2. \A n \in 0..N + 1 : n # 0 => d[n] \in 0..N
    OBVIOUS
  <2>3. PICK g : g = [n \in 0..N + 1 |-> IF n = N + 1 THEN h[N + 1, f[d[N + 1]]] ELSE f[n]]
    OBVIOUS
  <2>4. \A n \in 0..N : n \in 0..N + 1 /\ n # N + 1
    OBVIOUS
  <2>5. \A n \in 0..N : g[n] = f[n]
    BY <2>3, <2>4
  <2>6. N + 1 \in 0..N + 1 /\ N + 1 # 0 /\ N + 1 \in Nat
    OBVIOUS
  <2>7. g[N + 1] = h[N + 1, f[d[N + 1]]]
    BY <2>3, <2>6
  <2>8. f[d[N + 1]] \in S /\ g[d[N + 1]] = f[d[N + 1]]
    BY <2>2, <2>5, <2>6
  <2>9. g \in [0..N + 1 -> S]
    <3>1. h[N + 1, f[d[N + 1]]] \in S
      BY <2>6, <2>8
    <3>2. \A n \in 0..N + 1 : n # N + 1 => f[n] \in S
      OBVIOUS
    <3> QED BY <2>3, <3>1, <3>2
  <2>10. ASSUME NEW n \in 0..N + 1
         PROVE  g[n] = IF n = 0 THEN z ELSE h[n, g[d[n]]]
    <3>1. CASE n = N + 1
      BY <3>1, <2>6, <2>7, <2>8
    <3>2. CASE n # N + 1
      <4>1. n \in 0..N
        BY <3>2
      <4>2. f[n] = IF n = 0 THEN z ELSE h[n, f[d[n]]]
        BY <4>1, <2>1 DEF Recursive
      <4>3. n # 0 => g[d[n]] = f[d[n]]
        BY <2>2, <2>5
      <4> QED BY <4>1, <4>2, <4>3, <2>5
    <3> QED BY <3>1, <3>2
  <2>11. Recursive(g, N + 1, z, h, d)
    <3>1. g = [n \in 0..N + 1 |-> g[n]]
      BY <2>9
    <3> QED BY <3>1, <2>10 DEF Recursive
  <2> QED BY <2>9, <2>11
<1> HIDE DEF T
<1>3. \A N \in Nat : N \in T
  BY <1>1, <1>2, Inductive
<1> QED BY <1>3 DEF T

-----------------------------------------------------------------------------

(* A set of positions that is not empty has a first and a last element.    *)
LEMMA MinIs ==
  ASSUME NEW A \in SUBSET Nat, A # {}
  PROVE  Min(A) \in A /\ \A y \in A : Min(A) <= y
<1> DEFINE L == OpToRel(<, Nat)
<1>1. PICK x \in A : \A y \in A : ~(<<y, x>> \in L)
  BY WFMin, NatLessThanWellFounded
<1>2. \A y \in A : x <= y
  <2> TAKE y \in A
  <2>1. x \in Nat /\ y \in Nat
    OBVIOUS
  <2>2. ~ y < x
    BY <1>1, <2>1 DEF OpToRel
  <2> QED BY <2>1, <2>2
<1> QED BY <1>2 DEF Min

LEMMA MaxIs ==
  ASSUME NEW N \in Nat, NEW A \in SUBSET (0..N), A # {}
  PROVE  Max(A) \in A /\ \A y \in A : Max(A) >= y
<1> DEFINE B == {N - a : a \in A}
<1>1. B \in SUBSET Nat /\ B # {}
  <2>1. \A a \in 0..N : N - a \in Nat
    OBVIOUS
  <2>2. PICK a : a \in A
    OBVIOUS
  <2> QED BY <2>1, <2>2
<1>2. PICK x \in A : Min(B) = N - x
  <2>1. Min(B) \in B
    BY <1>1, MinIs
  <2> QED BY <2>1
<1>3. \A y \in A : x >= y
  <2> TAKE y \in A
  <2>1. N - y \in B
    OBVIOUS
  <2>2. Min(B) <= N - y
    BY <1>1, <2>1, MinIs
  <2>3. x \in 0..N /\ y \in 0..N
    OBVIOUS
  <2> HIDE DEF B
  <2> QED BY <1>2, <2>2, <2>3
<1> QED BY <1>3 DEF Max

(* Before and From cut a sequence in two.                                  *)
LEMMA BeforeIs ==
  ASSUME NEW S, NEW s \in Seq(S), NEW n \in 1..Len(s) + 1
  PROVE  /\ Before(s, n) \in Seq(S) /\ Len(Before(s, n)) = n - 1
         /\ \A i \in 1..n - 1 : Before(s, n)[i] = s[i]
<1>1. Len(s) \in Nat /\ n \in Nat /\ n - 1 \in 0..Len(s)
  BY LenProperties
<1>2. CASE n = 1
  <2>1. Before(s, n) = <<>>
    BY <1>2 DEF Before
  <2>2. \A i \in 1..n - 1 : FALSE
    BY <1>2
  <2>3. Len(<<>>) = n - 1 /\ <<>> \in Seq(S)
    BY <1>2
  <2> QED BY <2>1, <2>2, <2>3
<1>3. CASE n # 1
  <2>1. 1 \in 1..Len(s) + 1 /\ n - 1 \in 1..Len(s)
    BY <1>1, <1>3
  <2> QED BY <1>1, <2>1, SubSeqProperties DEF Before
<1> QED BY <1>2, <1>3

LEMMA FromIs ==
  ASSUME NEW S, NEW s \in Seq(S), NEW n \in 1..Len(s) + 1
  PROVE  /\ From(s, n) \in Seq(S) /\ Len(From(s, n)) = Len(s) + 1 - n
         /\ \A i \in 1..Len(s) + 1 - n : From(s, n)[i] = s[n + i - 1]
<1>1. Len(s) \in Nat /\ n \in Nat
  BY LenProperties
<1>2. \A i : (n + i) - 1 = n + (i - 1) \/ i \notin Int
  BY <1>1
<1> QED BY <1>1, <1>2, SubSeqProperties DEF From

(* Letters of a set.                                                       *)
LEMMA AllInIs ==
  ASSUME NEW s, NEW A
  PROVE  AllIn(s, A) <=> \A i \in DOMAIN s : s[i] \in A
BY DEF AllIn, In

LEMMA FirstIs ==
  ASSUME NEW S, NEW s \in Seq(S), NEW A
  PROVE  /\ First(s, A) \in 1..Len(s) + 1
         /\ \A i \in 1..Len(s) : i < First(s, A) => s[i] \notin A
         /\ First(s, A) <= Len(s) => s[First(s, A)] \in A
<1>1. Len(s) \in Nat /\ DOMAIN s = 1..Len(s)
  BY LenProperties
<1> DEFINE B == In(s, A) \cup {Len(s) + 1}
<1>2. B \in SUBSET Nat /\ B \in SUBSET (1..Len(s) + 1) /\ B # {}
  BY <1>1 DEF In
<1>3. First(s, A) \in B /\ \A y \in B : First(s, A) <= y
  <2>1. First(s, A) = Min(B)
    BY DEF First
  <2> HIDE DEF B
  <2> QED BY <1>2, <2>1, MinIs
<1>4. \A i \in 1..Len(s) : s[i] \in A => i \in B
  BY <1>1 DEF In
<1>5. \A i \in B : i = Len(s) + 1 \/ s[i] \in A
  BY DEF In
<1> HIDE DEF B
<1>6. ASSUME NEW i \in 1..Len(s), i < First(s, A) PROVE s[i] \notin A
  <2>1. s[i] \in A => First(s, A) <= i
    BY <1>3, <1>4
  <2>2. First(s, A) \in Nat /\ i \in Nat
    <3>1. B \subseteq Nat
      BY <1>2
    <3>2. First(s, A) \in B
      BY <1>3
    <3>3. First(s, A) \in Nat
      BY <3>1, <3>2
    <3>4. i \in Nat
      OBVIOUS
    <3> QED BY <3>3, <3>4
  <2> QED BY <1>6, <2>1, <2>2
<1>7. First(s, A) <= Len(s) => First(s, A) # Len(s) + 1
  BY <1>1
<1> QED BY <1>2, <1>3, <1>5, <1>6, <1>7

(* The first letter of a set is where it is.                               *)
LEMMA FirstAt ==
  ASSUME NEW S, NEW s \in Seq(S), NEW A, NEW n \in 1..Len(s) + 1,
         \A i \in 1..Len(s) : i < n => s[i] \notin A, n <= Len(s) => s[n] \in A
  PROVE  First(s, A) = n
<1>1. Len(s) \in Nat /\ n \in Nat
  BY LenProperties
<1> DEFINE f == First(s, A)
<1>2. /\ f \in 1..Len(s) + 1
      /\ \A i \in 1..Len(s) : i < f => s[i] \notin A
      /\ f <= Len(s) => s[f] \in A
  BY FirstIs
<1> HIDE DEF f
<1>3. ~ f < n
  <2>1. f < n => f \in 1..Len(s) /\ f <= Len(s)
    BY <1>1, <1>2
  <2> QED BY <1>2, <2>1
<1>4. ~ n < f
  <2>1. n < f => n \in 1..Len(s) /\ n <= Len(s)
    BY <1>1, <1>2
  <2> QED BY <1>2, <2>1
<1>5. f = n
  BY <1>1, <1>2, <1>3, <1>4
<1> QED BY <1>5 DEF f

-----------------------------------------------------------------------------
(* The value of a digit.                                                   *)
LEMMA DigitIs ==
  /\ \A i \in 0..9 : Numerals[i + 1] \in Digits /\ Digit(Numerals[i + 1]) = i
  /\ \A x \in Digits : Digit(x) \in 0..9 /\ x = Numerals[Digit(x) + 1]
<1>1. /\ Numerals[1] = "0" /\ Numerals[2] = "1" /\ Numerals[3] = "2" /\ Numerals[4] = "3"
      /\ Numerals[5] = "4" /\ Numerals[6] = "5" /\ Numerals[7] = "6" /\ Numerals[8] = "7"
      /\ Numerals[9] = "8" /\ Numerals[10] = "9"
  BY DEF Numerals
<1>2. \A i, j \in 1..10 : Numerals[i] = Numerals[j] => i = j
  <2>1. ASSUME NEW i \in 1..10, NEW j \in 1..10, Numerals[i] = Numerals[j] PROVE i = j
    <3>1. i \in {1, 2, 3, 4, 5, 6, 7, 8, 9, 10} /\ j \in {1, 2, 3, 4, 5, 6, 7, 8, 9, 10}
      OBVIOUS
    <3> QED BY <1>1, <2>1, <3>1
  <2> QED BY <2>1
<1>3. ASSUME NEW i \in 1..10 PROVE Digit(Numerals[i]) = i - 1
  <2>1. (CHOOSE j \in 1..10 : Numerals[j] = Numerals[i]) = i
    BY <1>2
  <2> QED BY <2>1 DEF Digit
<1>4. ASSUME NEW i \in 0..9 PROVE Numerals[i + 1] \in Digits /\ Digit(Numerals[i + 1]) = i
  <2>1. i + 1 \in 1..10 /\ (i + 1) - 1 = i
    OBVIOUS
  <2>2. Digit(Numerals[i + 1]) = (i + 1) - 1
    BY <1>3, <2>1
  <2> QED BY <2>1, <2>2 DEF Digits
<1>5. ASSUME NEW x \in Digits PROVE Digit(x) \in 0..9 /\ x = Numerals[Digit(x) + 1]
  <2>1. PICK i \in 1..10 : x = Numerals[i]
    BY DEF Digits
  <2>2. Digit(x) = i - 1
    BY <1>3, <2>1
  <2>3. i - 1 \in 0..9 /\ (i - 1) + 1 = i
    OBVIOUS
  <2> QED BY <2>1, <2>2, <2>3
<1> QED BY <1>4, <1>5

LEMMA DigitsAreCharacters == Digits \subseteq Characters
BY SyntaxAssumption DEF ToneLetters

(* v is the value of the first n digits of ds, for every n.                *)
Valued(ds, v) ==
  /\ v \in [0..Len(ds) -> Nat] /\ v[0] = 0
  /\ \A n \in 1..Len(ds) : v[n] = 10 * v[n - 1] + Digit(ds[n])

(* The function in Value, which CHOOSE picks, is a function to numbers.    *)
LEMMA ValueExists ==
  ASSUME NEW ds \in Seq(Digits)
  PROVE  \E v : Valued(ds, v) /\ Value(ds) = v[Len(ds)]
<1>1. Len(ds) \in Nat /\ DOMAIN ds = 1..Len(ds) /\ \A n \in 1..Len(ds) : ds[n] \in Digits
  BY LenProperties, ElementOfSeq
<1> DEFINE N == Len(ds)
           h == [p \in Nat \X Nat |->
                   IF p[1] \in 1..N THEN 10 * p[2] + Digit(ds[p[1]]) ELSE 0]
           d == [n \in Nat |-> IF n = 0 THEN 0 ELSE n - 1]
<1>2. h \in [Nat \X Nat -> Nat]
  <2>1. ASSUME NEW p \in Nat \X Nat
        PROVE  (IF p[1] \in 1..N THEN 10 * p[2] + Digit(ds[p[1]]) ELSE 0) \in Nat
    <3>1. CASE p[1] \in 1..N
      <4>1. Digit(ds[p[1]]) \in Nat
        BY <1>1, <3>1, DigitIs
      <4>2. p[2] \in Nat
        OBVIOUS
      <4> QED BY <3>1, <4>1, <4>2
    <3> QED BY <3>1
  <2> QED BY <2>1
<1>3. d \in [Nat -> Nat] /\ \A n \in Nat : n # 0 => d[n] < n
  OBVIOUS
<1>4. PICK f \in [0..N -> Nat] : Recursive(f, N, 0, h, d)
  <2>1. N \in Nat /\ 0 \in Nat
    BY <1>1
  <2> HIDE DEF N, h, d
  <2>2. \A M \in Nat : \E f \in [0..M -> Nat] : Recursive(f, M, 0, h, d)
    BY <2>1, <1>2, <1>3, RecursiveExists
  <2> QED BY <2>1, <2>2
<1>5. \A n \in 0..N : n # 0 =>
        /\ n \in Nat /\ n \in 1..N /\ n - 1 \in 0..N /\ d[n] = n - 1 /\ f[n - 1] \in Nat
  BY <1>1
<1>6. \A n \in 0..N : n # 0 => h[n, f[d[n]]] = 10 * f[n - 1] + Digit(ds[n])
  BY <1>5
<1>7. f = [n \in 0..Len(ds) |-> IF n = 0 THEN 0 ELSE 10 * f[n - 1] + Digit(ds[n])]
  <2> HIDE DEF h, d
  <2> QED BY <1>4, <1>6 DEF Recursive
<1> DEFINE g == CHOOSE v : v = [n \in 0..Len(ds) |->
                               IF n = 0 THEN 0 ELSE 10 * v[n - 1] + Digit(ds[n])]
<1>8. g = [n \in 0..Len(ds) |-> IF n = 0 THEN 0 ELSE 10 * g[n - 1] + Digit(ds[n])]
  <2> HIDE DEF h, d
  <2> QED BY <1>7
<1>9. Value(ds) = g[Len(ds)]
  BY DEF Value
<1> HIDE DEF h, d, g
<1>10. g[0] = 0 /\ \A n \in 1..Len(ds) : g[n] = 10 * g[n - 1] + Digit(ds[n])
  <2>1. 0 \in 0..Len(ds) /\ \A n \in 1..Len(ds) : n \in 0..Len(ds) /\ n # 0
    BY <1>1
  <2> QED BY <1>8, <2>1
<1>11. \A n \in 0..Len(ds) : g[n] \in Nat
  <2> DEFINE T == {n \in Nat : n <= Len(ds) => g[n] \in Nat}
  <2>1. 0 \in T
    BY <1>10
  <2>2. ASSUME NEW n \in Nat, n \in T PROVE n + 1 \in T
    <3>1. CASE n + 1 <= Len(ds)
      <4>1. n + 1 \in 1..Len(ds) /\ (n + 1) - 1 = n /\ n <= Len(ds)
        BY <1>1, <3>1
      <4>2. g[n + 1] = 10 * g[n] + Digit(ds[n + 1])
        BY <1>10, <4>1
      <4>3. g[n] \in Nat /\ Digit(ds[n + 1]) \in Nat
        BY <2>2, <4>1, <1>1, DigitIs
      <4>4. g[n + 1] \in Nat
        BY <4>2, <4>3
      <4> QED BY <4>4
    <3> QED BY <3>1
  <2> HIDE DEF T
  <2>3. \A n \in Nat : n \in T
    BY <2>1, <2>2, Inductive
  <2> QED BY <1>1, <2>3 DEF T
<1>12. g \in [0..Len(ds) -> Nat]
  BY <1>8, <1>11
<1> QED BY <1>9, <1>10, <1>12 DEF Valued

LEMMA ValueIsNat ==
  ASSUME NEW ds \in Seq(Digits)
  PROVE  Value(ds) \in Nat
<1>1. PICK v : Valued(ds, v) /\ Value(ds) = v[Len(ds)]
  BY ValueExists
<1>2. Len(ds) \in Nat
  BY LenProperties
<1> QED BY <1>1, <1>2 DEF Valued

(* A digit more is ten times as much, and the digit.                       *)
LEMMA ValueOfAppend ==
  ASSUME NEW ds \in Seq(Digits), NEW x \in Digits
  PROVE  Value(Append(ds, x)) = 10 * Value(ds) + Digit(x)
<1> DEFINE es == Append(ds, x)
<1>1. /\ es \in Seq(Digits) /\ Len(es) = Len(ds) + 1 /\ Len(ds) \in Nat
      /\ \A n \in 1..Len(ds) : es[n] = ds[n]
      /\ es[Len(ds) + 1] = x
  BY AppendProperties, LenProperties
<1> HIDE DEF es
<1>2. PICK v : Valued(ds, v) /\ Value(ds) = v[Len(ds)]
  BY ValueExists
<1>3. PICK w : Valued(es, w) /\ Value(es) = w[Len(es)]
  BY <1>1, ValueExists
<1> DEFINE T == {n \in Nat : n <= Len(ds) => w[n] = v[n]}
<1>4. 0 \in T
  BY <1>2, <1>3 DEF Valued
<1>5. ASSUME NEW n \in Nat, n \in T PROVE n + 1 \in T
  <2>1. CASE n + 1 <= Len(ds)
    <3>1. n + 1 \in 1..Len(ds) /\ n + 1 \in 1..Len(es) /\ (n + 1) - 1 = n /\ n <= Len(ds)
      BY <1>1, <2>1
    <3>2. v[n + 1] = 10 * v[n] + Digit(ds[n + 1])
      BY <1>2, <3>1 DEF Valued
    <3>3. w[n + 1] = 10 * w[n] + Digit(es[n + 1])
      BY <1>3, <3>1 DEF Valued
    <3> QED BY <1>1, <1>5, <3>1, <3>2, <3>3
  <2> QED BY <2>1
<1> HIDE DEF T
<1>6. \A n \in Nat : n \in T
  BY <1>4, <1>5, Inductive
<1>7. w[Len(ds)] = v[Len(ds)]
  BY <1>1, <1>6 DEF T
<1>8. Len(es) \in 1..Len(es) /\ Len(es) - 1 = Len(ds)
  BY <1>1
<1>9. w[Len(es)] = 10 * w[Len(ds)] + Digit(x)
  BY <1>1, <1>3, <1>8 DEF Valued
<1>10. Value(es) = 10 * Value(ds) + Digit(x)
  BY <1>2, <1>3, <1>7, <1>9
<1> QED BY <1>10 DEF es

LEMMA ValueOfNone == Value(<<>>) = 0
<1>1. <<>> \in Seq(Digits) /\ Len(<<>>) = 0
  BY EmptySeq
<1>2. PICK v : Valued(<<>>, v) /\ Value(<<>>) = v[Len(<<>>)]
  BY <1>1, ValueExists
<1> QED BY <1>1, <1>2 DEF Valued

-----------------------------------------------------------------------------
(* f writes the numbers up to N.                                           *)
Writes(f, N) ==
  f = [k \in 0..N |-> IF k < 10 THEN <<Numerals[k + 1]>>
                      ELSE Append(f[k \div 10], Numerals[(k % 10) + 1])]

LEMMA Tenth ==
  ASSUME NEW n \in Nat
  PROVE  /\ n \div 10 \in Nat /\ n % 10 \in 0..9 /\ n = 10 * (n \div 10) + (n % 10)
         /\ n # 0 => n \div 10 < n
         /\ n >= 10 => n \div 10 # 0
<1>1. n \div 10 \in Nat /\ n % 10 \in 0..9 /\ n = 10 * (n \div 10) + (n % 10)
  OBVIOUS
<1> QED BY <1>1

(* The function in Decimal exists, and writes digits only.                 *)
LEMMA WritesExists ==
  ASSUME NEW N \in Nat
  PROVE  \E f \in [0..N -> Seq(Digits)] : Writes(f, N)
<1> DEFINE S == Seq(Digits)
           h == [p \in Nat \X S |->
                   IF p[1] < 10 THEN <<Numerals[p[1] + 1]>>
                   ELSE Append(p[2], Numerals[(p[1] % 10) + 1])]
           d == [n \in Nat |-> IF n = 0 THEN 0 ELSE n \div 10]
           z == <<Numerals[1]>>
<1>1. z \in S
  <2>1. Numerals[0 + 1] \in Digits
    BY DigitIs
  <2> QED BY <2>1
<1>2. h \in [Nat \X S -> S]
  <2>1. ASSUME NEW p \in Nat \X S
        PROVE  (IF p[1] < 10 THEN <<Numerals[p[1] + 1]>>
                ELSE Append(p[2], Numerals[(p[1] % 10) + 1])) \in S
    <3>1. p[1] \in Nat /\ p[2] \in S
      OBVIOUS
    <3>2. CASE p[1] < 10
      <4>1. p[1] \in 0..9
        BY <3>1, <3>2
      <4>2. Numerals[p[1] + 1] \in Digits
        BY <4>1, DigitIs
      <4> QED BY <3>2, <4>2
    <3>3. CASE ~ p[1] < 10
      <4>1. p[1] % 10 \in 0..9
        BY <3>1, Tenth
      <4>2. Numerals[(p[1] % 10) + 1] \in Digits
        BY <4>1, DigitIs
      <4>3. Append(p[2], Numerals[(p[1] % 10) + 1]) \in S
        BY <3>1, <4>2, AppendProperties
      <4> QED BY <3>3, <4>3
    <3> QED BY <3>2, <3>3
  <2> QED BY <2>1
<1>3. d \in [Nat -> Nat] /\ \A n \in Nat : n # 0 => d[n] < n
  <2>1. \A n \in Nat : n \div 10 \in Nat /\ (n # 0 => n \div 10 < n)
    BY Tenth
  <2> QED BY <2>1
<1>4. PICK f \in [0..N -> S] : Recursive(f, N, z, h, d)
  <2> HIDE DEF h, d, S, z
  <2> QED BY <1>1, <1>2, <1>3, RecursiveExists
<1>5. ASSUME NEW k \in 0..N
      PROVE  (IF k = 0 THEN z ELSE h[k, f[d[k]]])
               = IF k < 10 THEN <<Numerals[k + 1]>>
                 ELSE Append(f[k \div 10], Numerals[(k % 10) + 1])
  <2>1. CASE k = 0
    BY <2>1
  <2>2. CASE k # 0
    <3>1. k \in Nat /\ d[k] = k \div 10
      BY <2>2
    <3>2. k \div 10 \in 0..N
      <4>1. k \div 10 \in Nat /\ k \div 10 < k
        BY <3>1, <2>2, Tenth
      <4> QED BY <4>1
    <3>3. f[k \div 10] \in S
      BY <3>2
    <3>4. <<k, f[k \div 10]>> \in Nat \X S
      BY <3>1, <3>3
    <3> QED BY <2>2, <3>1, <3>4
  <2> QED BY <2>1, <2>2
<1>6. Writes(f, N)
  <2> HIDE DEF h, d, z
  <2> QED BY <1>4, <1>5 DEF Recursive, Writes
<1> QED BY <1>4, <1>6

(* Two such functions agree as far as both go.                             *)
LEMMA WritesUnique ==
  ASSUME NEW M \in Nat, NEW N \in Nat, NEW f, NEW g, Writes(f, M), Writes(g, N)
  PROVE  \A n \in Nat : n <= M /\ n <= N => f[n] = g[n]
<1> DEFINE T == {n \in Nat : n <= M /\ n <= N => f[n] = g[n]}
<1>1. ASSUME NEW n \in Nat, \A m \in Nat : m < n => m \in T PROVE n \in T
  <2>1. CASE n <= M /\ n <= N
    <3>1. n \in 0..M /\ n \in 0..N
      BY <2>1
    <3>2. f[n] = IF n < 10 THEN <<Numerals[n + 1]>>
                 ELSE Append(f[n \div 10], Numerals[(n % 10) + 1])
      BY <3>1 DEF Writes
    <3>3. g[n] = IF n < 10 THEN <<Numerals[n + 1]>>
                 ELSE Append(g[n \div 10], Numerals[(n % 10) + 1])
      BY <3>1 DEF Writes
    <3>4. ~ n < 10 => f[n \div 10] = g[n \div 10]
      <4>1. n \div 10 \in Nat /\ (n # 0 => n \div 10 < n)
        BY Tenth
      <4>2. ~ n < 10 => n \div 10 \in T /\ n \div 10 <= M /\ n \div 10 <= N
        BY <1>1, <2>1, <4>1
      <4> QED BY <4>2
    <3>5. f[n] = g[n]
      BY <3>2, <3>3, <3>4
    <3> QED BY <3>5
  <2> QED BY <2>1
<1> HIDE DEF T
<1>2. \A n \in Nat : n \in T
  BY <1>1, Complete
<1> QED BY <1>2 DEF T

(* Decimal is such a function.                                             *)
LEMMA DecimalIs ==
  ASSUME NEW n \in Nat
  PROVE  /\ Decimal(n) \in Seq(Digits)
         /\ n < 10 => Decimal(n) = <<Numerals[n + 1]>>
         /\ n >= 10 => Decimal(n) = Append(Decimal(n \div 10), Numerals[(n % 10) + 1])
<1> DEFINE D(N) == CHOOSE f : Writes(f, N)
<1>1. \A N \in Nat : Writes(D(N), N) /\ D(N) \in [0..N -> Seq(Digits)]
  <2> TAKE N \in Nat
  <2>1. PICK f \in [0..N -> Seq(Digits)] : Writes(f, N)
    BY WritesExists
  <2>2. Writes(D(N), N)
    BY <2>1
  <2>3. \A k \in 0..N : D(N)[k] = f[k]
    <3>1. \A k \in 0..N : k \in Nat /\ k <= N
      OBVIOUS
    <3> HIDE DEF D
    <3> QED BY <2>1, <2>2, <3>1, WritesUnique
  <2>4. D(N) = [k \in 0..N |-> D(N)[k]]
    <3> HIDE DEF D
    <3> QED BY <2>2 DEF Writes
  <2> HIDE DEF D
  <2> QED BY <2>1, <2>2, <2>3, <2>4
<1>2. \A N \in Nat : Decimal(N) = D(N)[N]
  BY DEF Decimal, Writes
<1> HIDE DEF D
<1>3. n \in 0..n /\ Decimal(n) \in Seq(Digits)
  <2>1. n \in 0..n
    OBVIOUS
  <2>2. D(n)[n] \in Seq(Digits)
    BY <1>1, <2>1
  <2> QED BY <1>2, <2>1, <2>2
<1>4. Decimal(n) = IF n < 10 THEN <<Numerals[n + 1]>>
                   ELSE Append(D(n)[n \div 10], Numerals[(n % 10) + 1])
  BY <1>1, <1>2, <1>3 DEF Writes
<1>5. n >= 10 => D(n)[n \div 10] = Decimal(n \div 10)
  <2>1. n \div 10 \in Nat /\ n \div 10 <= n
    BY Tenth
  <2>2. ASSUME n >= 10 PROVE D(n)[n \div 10] = D(n \div 10)[n \div 10]
    <3>1. n \div 10 \in Nat /\ n \div 10 <= n /\ n \div 10 <= n \div 10
      BY <2>1, <2>2
    <3>2. Writes(D(n), n) /\ Writes(D(n \div 10), n \div 10)
      BY <1>1, <3>1
    <3> QED BY <3>1, <3>2, WritesUnique
  <2> QED BY <1>2, <2>1, <2>2
<1> QED BY <1>3, <1>4, <1>5

-----------------------------------------------------------------------------
(* What is written is the number, has a digit, and no leading zero.        *)
LEMMA DecimalReads ==
  ASSUME NEW n \in Nat
  PROVE  Value(Decimal(n)) = n /\ Len(Decimal(n)) > 0 /\ (n > 0 => Decimal(n)[1] # "0")
<1> DEFINE Reads(k) == /\ Value(Decimal(k)) = k /\ Len(Decimal(k)) > 0
                       /\ k > 0 => Decimal(k)[1] # "0"
           T == {k \in Nat : Reads(k)}
<1>1. \A i \in 1..9 : Numerals[i + 1] # "0"
  <2>1. Numerals[0 + 1] = "0"
    BY DEF Numerals
  <2>2. Digit("0") = 0
    BY <2>1, DigitIs
  <2>3. \A i \in 1..9 : i \in 0..9 /\ i # 0
    OBVIOUS
  <2> QED BY <2>2, <2>3, DigitIs
<1>2. ASSUME NEW k \in Nat, \A m \in Nat : m < k => m \in T PROVE k \in T
  <2>1. CASE k < 10
    <3>1. k \in 0..9
      BY <2>1
    <3>2. Decimal(k) = <<Numerals[k + 1]>> /\ Numerals[k + 1] \in Digits
      BY <2>1, <3>1, DecimalIs, DigitIs
    <3>3. Decimal(k) = Append(<<>>, Numerals[k + 1])
      BY <3>2
    <3>4. Value(Decimal(k)) = 10 * Value(<<>>) + Digit(Numerals[k + 1])
      <4>1. <<>> \in Seq(Digits)
        BY EmptySeq
      <4> QED BY <3>2, <3>3, <4>1, ValueOfAppend
    <3>5. Digit(Numerals[k + 1]) = k
      BY <3>1, DigitIs
    <3>6. Value(Decimal(k)) = k
      BY <3>4, <3>5, ValueOfNone
    <3>7. Len(Decimal(k)) > 0 /\ Decimal(k)[1] = Numerals[k + 1]
      BY <3>2
    <3>8. k > 0 => Numerals[k + 1] # "0"
      <4>1. k > 0 => k \in 1..9
        BY <3>1
      <4> QED BY <4>1, <1>1
    <3> QED BY <3>6, <3>7, <3>8
  <2>2. CASE k >= 10
    <3> DEFINE t == k \div 10
               x == Numerals[(k % 10) + 1]
    <3>1. /\ t \in Nat /\ k % 10 \in 0..9 /\ k = 10 * t + (k % 10)
          /\ t < k /\ t # 0
      BY <2>2, Tenth
    <3>2. x \in Digits /\ Digit(x) = k % 10
      BY <3>1, DigitIs
    <3>3. Decimal(k) = Append(Decimal(t), x)
      BY <2>2, DecimalIs
    <3>4. Decimal(t) \in Seq(Digits)
      BY <3>1, DecimalIs
    <3> HIDE DEF t, x
    <3>5. Reads(t)
      BY <1>2, <3>1
    <3> HIDE DEF T
    <3>6. Value(Decimal(k)) = 10 * Value(Decimal(t)) + Digit(x)
      BY <3>2, <3>3, <3>4, ValueOfAppend
    <3>7. Value(Decimal(k)) = k
      BY <3>1, <3>2, <3>5, <3>6
    <3>8. Len(Decimal(k)) > 0 /\ Decimal(k)[1] = Decimal(t)[1]
      <4>1. /\ Len(Decimal(k)) = Len(Decimal(t)) + 1 /\ Len(Decimal(t)) \in Nat
            /\ \A i \in 1..Len(Decimal(t)) : Decimal(k)[i] = Decimal(t)[i]
        BY <3>3, <3>4, <3>2, AppendProperties, LenProperties
      <4>2. Len(Decimal(t)) > 0
        BY <3>5
      <4>3. 1 \in 1..Len(Decimal(t)) /\ Len(Decimal(k)) > 0
        BY <4>1, <4>2
      <4> QED BY <4>1, <4>3
    <3>9. Decimal(t)[1] # "0"
      BY <3>1, <3>5
    <3>10. Reads(k)
      BY <3>7, <3>8, <3>9
    <3> QED BY <3>10 DEF T
  <2> QED BY <2>1, <2>2
<1> HIDE DEF T
<1>3. \A k \in Nat : k \in T
  BY <1>2, Complete
<1> QED BY <1>3 DEF T

(* A number that is read has not more digits than it is read from.         *)
LEMMA DecimalShort ==
  ASSUME NEW es \in Seq(Digits), Len(es) > 0
  PROVE  Len(Decimal(Value(es))) <= Len(es)
<1> DEFINE T == {n \in Nat : \A ds \in Seq(Digits) :
                               Len(ds) = n /\ n > 0 => Len(Decimal(Value(ds))) <= n}
<1>1. 0 \in T
  OBVIOUS
<1>2. ASSUME NEW n \in Nat, n \in T PROVE n + 1 \in T
  <2>1. ASSUME NEW ds \in Seq(Digits), Len(ds) = n + 1
        PROVE  Len(Decimal(Value(ds))) <= n + 1
    <3>1. ds # <<>>
      BY <2>1
    <3>2. PICK cs \in Seq(Digits), x \in Digits : ds = Append(cs, x)
      BY <3>1, SequenceEmptyOrAppend
    <3>3. Len(cs) = n
      BY <2>1, <3>2, AppendProperties, LenProperties
    <3>4. PICK c : c = Value(cs)
      OBVIOUS
    <3>5. PICK k : k = Digit(x)
      OBVIOUS
    <3>6. c \in Nat /\ k \in 0..9
      BY <3>4, <3>5, ValueIsNat, DigitIs
    <3>7. Value(ds) = 10 * c + k
      BY <3>2, <3>4, <3>5, ValueOfAppend
    <3>8. CASE c = 0
      <4>1. Value(ds) = k /\ k \in Nat /\ k < 10
        BY <3>6, <3>7, <3>8
      <4>2. Decimal(k) = <<Numerals[k + 1]>>
        BY <4>1, DecimalIs
      <4>3. Len(Decimal(Value(ds))) = 1
        BY <4>1, <4>2
      <4> QED BY <4>3
    <3>9. CASE c # 0
      <4>1. PICK v : v = 10 * c + k
        OBVIOUS
      <4>2. v \in Nat /\ v >= 10 /\ v \div 10 = c
        BY <3>6, <3>9, <4>1
      <4>3. Decimal(v) = Append(Decimal(c), Numerals[(v % 10) + 1])
        BY <4>2, DecimalIs
      <4>4. Len(Decimal(v)) = Len(Decimal(c)) + 1 /\ Len(Decimal(c)) \in Nat
        <5>1. Decimal(c) \in Seq(Digits) /\ v % 10 \in 0..9
          BY <3>6, <4>2, DecimalIs, Tenth
        <5>2. Numerals[(v % 10) + 1] \in Digits
          BY <5>1, DigitIs
        <5> QED BY <4>3, <5>1, <5>2, AppendProperties, LenProperties
      <4>5. n > 0
        <5>1. n = 0 => cs = <<>>
          BY <3>3, EmptySeq
        <5>2. n = 0 => c = 0
          BY <3>4, <5>1, ValueOfNone
        <5> QED BY <3>9, <5>2
      <4>6. Len(Decimal(c)) <= n
        BY <1>2, <3>3, <3>4, <4>5
      <4>7. Len(Decimal(Value(ds))) = Len(Decimal(v))
        BY <3>7, <4>1
      <4> QED BY <4>4, <4>6, <4>7
    <3> QED BY <3>8, <3>9
  <2> QED BY <2>1
<1> HIDE DEF T
<1>3. \A n \in Nat : n \in T
  BY <1>1, <1>2, Inductive
<1>4. Len(es) \in Nat
  BY LenProperties
<1> QED BY <1>3, <1>4 DEF T

-----------------------------------------------------------------------------
(* A ';' is a text.                                                        *)
LEMMA EndIs == <<Semicolon>> \in Seq(Characters) /\ Len(<<Semicolon>>) = 1
<1>1. PICK x : x = Semicolon
  OBVIOUS
<1>2. x \in Characters
  BY <1>1, SyntaxAssumption
<1>3. <<x>> \in Seq(Characters) /\ Len(<<x>>) = 1
  BY <1>2
<1> QED BY <1>1, <1>3

(* The text of a command.                                                  *)
LEMMA OptionsAre ==
  ASSUME NEW c \in CommandType
  PROVE  Options(c) \in Seq(OptionLetters) /\ Options(c) \in Seq(Characters)
<1>1. \A o \in OptionLetters : Option(c, o) \in Seq(OptionLetters)
  <2> TAKE o \in OptionLetters
  <2>1. <<o>> \in Seq(OptionLetters) /\ <<>> \in Seq(OptionLetters)
    OBVIOUS
  <2> QED BY <2>1 DEF Option
<1>2. /\ Option(c, "a") \in Seq(OptionLetters) /\ Option(c, "s") \in Seq(OptionLetters)
      /\ Option(c, "i") \in Seq(OptionLetters) /\ Option(c, "c") \in Seq(OptionLetters)
  BY <1>1 DEF OptionLetters
<1>3. Options(c) \in Seq(OptionLetters)
  BY <1>2, ConcatProperties DEF Options
<1>4. OptionLetters \subseteq Characters
  BY SyntaxAssumption
<1> QED BY <1>3, <1>4, SeqMonotonic

LEMMA ArgumentsIs ==
  ASSUME NEW c \in CommandType, NEW A, c.name \in Seq(A), Digits \subseteq A,
         OptionLetters \subseteq A, {"w", "l"} \subseteq A
  PROVE  Arguments(c) \in Seq(A)
<1>1. /\ c.op \in Letters /\ c.name \in Seq(A) /\ c.num \in Nat
  BY DEF CommandType
<1>2. Decimal(c.num) \in Seq(A)
  BY <1>1, DecimalIs, SeqMonotonic
<1>3. Options(c) \in Seq(A)
  BY OptionsAre, SeqMonotonic
<1>4. <<"w">> \in Seq(A) /\ <<"l">> \in Seq(A)
  OBVIOUS
<1>5. PICK d : d = Decimal(c.num)
  OBVIOUS
<1>6. PICK o : o = Options(c)
  OBVIOUS
<1>7. PICK m : m = c.name
  OBVIOUS
<1> DEFINE S == Seq(A)
<1>8. \A x, y \in S : x \o y \in S
  BY ConcatProperties
<1>9. d \in S /\ o \in S /\ m \in S /\ <<>> \in S /\ <<"w">> \in S /\ <<"l">> \in S
  BY <1>1, <1>2, <1>3, <1>4, <1>5, <1>6, <1>7, EmptySeq
<1> HIDE DEF S
<1>10. m \o <<"w">> \in S /\ o \o d \in S /\ <<"l">> \o m \in S
  BY <1>8, <1>9
<1>11. /\ (m \o <<"w">>) \o d \in S /\ (o \o d) \o m \in S
       /\ (IF c.num = 0 THEN <<>> ELSE d) \in S /\ (IF m = <<>> THEN <<>> ELSE <<"l">> \o m) \in S
  BY <1>8, <1>9, <1>10
<1>12. (IF c.num = 0 THEN <<>> ELSE d) \o (IF m = <<>> THEN <<>> ELSE <<"l">> \o m) \in S
  BY <1>8, <1>11
<1> DEFINE args ==
      CASE c.op = "c" -> (m \o <<"w">>) \o d
        [] c.op \in {"a", "d", "v", "l"} -> m
        [] c.op = "h" -> <<>>
        [] c.op = "r" -> (o \o d) \o m
        [] c.op = "w" -> o \o d
        [] c.op = "j" -> (IF c.num = 0 THEN <<>> ELSE d)
                           \o (IF m = <<>> THEN <<>> ELSE <<"l">> \o m)
<1>13. args \in S
  <2>1. c.op \in {"c", "a", "h", "d", "v", "r", "w", "l", "j"}
    BY <1>1 DEF Letters
  <2> QED BY <1>9, <1>10, <1>11, <1>12, <2>1
<1>14. Arguments(c) = args
  BY <1>5, <1>6, <1>7 DEF Arguments
<1> HIDE DEF args
<1> QED BY <1>13, <1>14 DEF S

(* What a command is written as: its letter, then its arguments.           *)
LEMMA WrittenIs ==
  ASSUME NEW c \in CommandType
  PROVE  /\ Written(c) \in Seq(Characters) /\ Arguments(c) \in Seq(Characters)
         /\ Written(c) = <<c.op>> \o Arguments(c) /\ <<c.op>> \in Seq(Characters)
<1>1. c.op \in Letters /\ c.name \in Seq(Characters)
  BY DEF CommandType
<1>2. /\ Letters \subseteq Characters /\ {"w", "l"} \subseteq Characters
      /\ OptionLetters \subseteq Characters
  BY SyntaxAssumption DEF Letters
<1>3. Arguments(c) \in Seq(Characters)
  BY <1>1, <1>2, ArgumentsIs, DigitsAreCharacters
<1>4. <<c.op>> \in Seq(Characters)
  BY <1>1, <1>2
<1>5. Written(c) = <<c.op>> \o Arguments(c)
  BY DEF Written
<1>6. Written(c) \in Seq(Characters)
  BY <1>3, <1>4, <1>5, ConcatProperties
<1> QED BY <1>3, <1>4, <1>5, <1>6

(* w holds the texts of the first commands of p.                           *)
Wrote(p, w) ==
  /\ w \in [0..Len(p) -> Seq(Characters)] /\ w[0] = <<>>
  /\ \A n \in 1..Len(p) : w[n] = (w[n - 1] \o Written(p[n])) \o <<Semicolon>>

(* The text of a program, command by command.                              *)
LEMMA WritingIs ==
  ASSUME NEW p \in Seq(CommandType)
  PROVE  Wrote(p, Writing(p))
<1>1. Len(p) \in Nat /\ DOMAIN p = 1..Len(p) /\ \A n \in 1..Len(p) : p[n] \in CommandType
  BY LenProperties, ElementOfSeq
<1> DEFINE N == Len(p)
           S == Seq(Characters)
           h == [q \in Nat \X S |->
                   IF q[1] \in 1..N THEN (q[2] \o Written(p[q[1]])) \o <<Semicolon>> ELSE <<>>]
           d == [n \in Nat |-> IF n = 0 THEN 0 ELSE n - 1]
<1>2. h \in [Nat \X S -> S]
  <2>1. ASSUME NEW q \in Nat \X S
        PROVE  (IF q[1] \in 1..N THEN (q[2] \o Written(p[q[1]])) \o <<Semicolon>> ELSE <<>>) \in S
    <3>1. CASE q[1] \in 1..N
      <4>1. Written(p[q[1]]) \in S
        BY <1>1, <3>1, WrittenIs
      <4>2. q[2] \in S
        OBVIOUS
      <4>3. <<Semicolon>> \in S
        BY EndIs
      <4>4. q[2] \o Written(p[q[1]]) \in S
        BY <4>1, <4>2, ConcatProperties
      <4>5. (q[2] \o Written(p[q[1]])) \o <<Semicolon>> \in S
        BY <4>3, <4>4, ConcatProperties
      <4> QED BY <3>1, <4>5
    <3>2. <<>> \in S
      BY EmptySeq
    <3> QED BY <3>1, <3>2
  <2> QED BY <2>1
<1>3. d \in [Nat -> Nat] /\ \A n \in Nat : n # 0 => d[n] < n
  OBVIOUS
<1>4. PICK f \in [0..N -> S] : Recursive(f, N, <<>>, h, d)
  <2>1. <<>> \in S
    BY EmptySeq
  <2>2. N \in Nat
    BY <1>1
  <2> HIDE DEF N, h, d, S
  <2>3. \A M \in Nat : \E f \in [0..M -> S] : Recursive(f, M, <<>>, h, d)
    BY <2>1, <1>2, <1>3, RecursiveExists
  <2> QED BY <2>2, <2>3
<1>5. \A n \in 0..N : n # 0 =>
        /\ n \in Nat /\ n \in 1..N /\ n - 1 \in 0..N /\ d[n] = n - 1 /\ f[n - 1] \in S
  <2>1. \A n \in 0..N : n # 0 => n \in Nat /\ n \in 1..N /\ n - 1 \in 0..N
    BY <1>1
  <2>2. \A n \in 0..N : n # 0 => d[n] = n - 1
    BY <2>1
  <2>3. \A n \in 0..N : n # 0 => f[n - 1] \in S
    <3> HIDE DEF N, S, h, d
    <3> QED BY <2>1
  <2> HIDE DEF N, S, h, d
  <2> QED BY <2>1, <2>2, <2>3
<1>6. \A n \in 0..N : n # 0 => h[n, f[d[n]]] = (f[n - 1] \o Written(p[n])) \o <<Semicolon>>
  <2> TAKE n \in 0..N
  <2>1. n # 0 => n \in 1..N /\ d[n] = n - 1 /\ <<n, f[n - 1]>> \in Nat \X S
    BY <1>5
  <2> QED BY <2>1
<1>7. f = [n \in 0..Len(p) |->
             IF n = 0 THEN <<>> ELSE (f[n - 1] \o Written(p[n])) \o <<Semicolon>>]
  <2> HIDE DEF h, d
  <2> QED BY <1>4, <1>6 DEF Recursive
<1> DEFINE g == CHOOSE v : v = [n \in 0..Len(p) |->
                  IF n = 0 THEN <<>> ELSE (v[n - 1] \o Written(p[n])) \o <<Semicolon>>]
<1>8. g = [n \in 0..Len(p) |-> IF n = 0 THEN <<>> ELSE (g[n - 1] \o Written(p[n])) \o <<Semicolon>>]
  <2> HIDE DEF h, d
  <2> QED BY <1>7
<1>9. Writing(p) = g
  BY DEF Writing
<1> HIDE DEF h, d, g
<1>10. g[0] = <<>> /\ \A n \in 1..Len(p) : g[n] = (g[n - 1] \o Written(p[n])) \o <<Semicolon>>
  <2>1. 0 \in 0..Len(p) /\ \A n \in 1..Len(p) : n \in 0..Len(p) /\ n # 0
    BY <1>1
  <2> QED BY <1>8, <2>1
<1>11. \A n \in 0..Len(p) : g[n] = f[n]
  <2> DEFINE T == {n \in Nat : n <= Len(p) => g[n] = f[n]}
  <2>1. 0 \in T
    <3>1. 0 \in 0..Len(p)
      BY <1>1
    <3>2. f[0] = <<>>
      BY <1>7, <3>1
    <3> QED BY <1>10, <3>2
  <2>2. ASSUME NEW n \in Nat, n \in T PROVE n + 1 \in T
    <3>1. CASE n + 1 <= Len(p)
      <4>1. n + 1 \in 1..Len(p) /\ n + 1 \in 0..Len(p) /\ n + 1 # 0 /\ (n + 1) - 1 = n /\ n <= Len(p)
        BY <1>1, <3>1
      <4>2. g[n + 1] = (g[n] \o Written(p[n + 1])) \o <<Semicolon>>
        BY <1>10, <4>1
      <4>3. f[n + 1] = (f[n] \o Written(p[n + 1])) \o <<Semicolon>>
        BY <1>7, <4>1
      <4>4. g[n + 1] = f[n + 1]
        BY <2>2, <4>1, <4>2, <4>3
      <4> QED BY <4>4
    <3> QED BY <3>1
  <2> HIDE DEF T
  <2>3. \A n \in Nat : n \in T
    BY <2>1, <2>2, Inductive
  <2> QED BY <1>1, <2>3 DEF T
<1>12. g \in [0..Len(p) -> Seq(Characters)]
  BY <1>8, <1>11
<1> QED BY <1>9, <1>10, <1>12 DEF Wrote

(* What is written first stands before the rest.                           *)
LEMMA WroteBefore ==
  ASSUME NEW p \in Seq(CommandType), NEW w, Wrote(p, w), NEW n \in 0..Len(p)
  PROVE  /\ Len(w[n]) \in Nat /\ Len(w[Len(p)]) \in Nat /\ Len(w[n]) <= Len(w[Len(p)])
         /\ \A i \in 1..Len(w[n]) : w[Len(p)][i] = w[n][i]
<1>1. Len(p) \in Nat /\ n \in Nat /\ \A m \in 1..Len(p) : p[m] \in CommandType
  BY LenProperties, ElementOfSeq
<1>2. \A m \in 0..Len(p) : w[m] \in Seq(Characters)
  BY DEF Wrote
<1> DEFINE Starts(m) == /\ Len(w[n]) <= Len(w[m])
                        /\ \A i \in 1..Len(w[n]) : w[m][i] = w[n][i]
           T == {m \in Nat : n <= m /\ m <= Len(p) => Starts(m)}
<1>3. Len(w[n]) \in Nat /\ Starts(n)
  BY <1>2, LenProperties
<1>4. ASSUME NEW m \in Nat, m \in T PROVE m + 1 \in T
  <2>1. CASE n <= m /\ m + 1 <= Len(p)
    <3>1. m + 1 \in 1..Len(p) /\ (m + 1) - 1 = m /\ m \in 0..Len(p) /\ m <= Len(p)
      BY <1>1, <2>1
    <3>2. w[m + 1] = (w[m] \o Written(p[m + 1])) \o <<Semicolon>>
      BY <3>1 DEF Wrote
    <3>3. w[m] \in Seq(Characters) /\ Written(p[m + 1]) \in Seq(Characters) /\ <<Semicolon>> \in Seq(Characters)
      BY <1>1, <1>2, <3>1, WrittenIs, EndIs
    <3>4. PICK a : a = w[m] \o Written(p[m + 1])
      OBVIOUS
    <3>5. /\ a \in Seq(Characters) /\ Len(a) = Len(w[m]) + Len(Written(p[m + 1]))
          /\ \A i \in 1..Len(a) : i <= Len(w[m]) => a[i] = w[m][i]
      BY <3>3, <3>4, ConcatProperties
    <3>6. /\ Len(w[m + 1]) = Len(a) + Len(<<Semicolon>>)
          /\ \A i \in 1..Len(w[m + 1]) : i <= Len(a) => w[m + 1][i] = a[i]
      <4>1. w[m + 1] = a \o <<Semicolon>>
        BY <3>2, <3>4
      <4>2. a \in Seq(Characters) /\ <<Semicolon>> \in Seq(Characters)
        BY <3>3, <3>5
      <4> QED BY <4>1, <4>2, ConcatProperties
    <3>7. /\ Len(w[m]) \in Nat /\ Len(Written(p[m + 1])) \in Nat /\ Len(<<Semicolon>>) = 1
          /\ Len(a) \in Nat
      BY <3>3, <3>5, LenProperties, EndIs
    <3>8. Starts(m)
      BY <1>4, <2>1, <3>1
    <3>9. Starts(m + 1)
      <4>1. Len(w[m]) <= Len(a) /\ Len(a) <= Len(w[m + 1]) /\ Len(w[m + 1]) \in Nat
        <5>1. Len(a) = Len(w[m]) + Len(Written(p[m + 1]))
          BY <3>5
        <5>2. Len(w[m + 1]) = Len(a) + 1
          BY <3>6, <3>7
        <5>3. \A x, y \in Nat : x <= x + y /\ x <= x + 1 /\ x + 1 \in Nat
          OBVIOUS
        <5> QED BY <3>7, <5>1, <5>2, <5>3, Zenon
      <4>2. \A i \in 1..Len(w[n]) :
              i \in 1..Len(a) /\ i <= Len(w[m]) /\ i \in 1..Len(w[m + 1]) /\ i <= Len(a)
        BY <4>1, <3>7, <3>8, <1>3
      <4>3. \A i \in 1..Len(w[n]) : w[m + 1][i] = w[m][i]
        BY <4>2, <3>5, <3>6
      <4>4. Len(w[n]) <= Len(w[m + 1])
        BY <1>3, <3>7, <3>8, <4>1
      <4> QED BY <3>8, <4>3, <4>4
    <3> QED BY <3>9
  <2>2. CASE ~ n <= m
    <3>1. n <= m + 1 => n = m + 1
      BY <1>1, <2>2
    <3> QED BY <1>3, <3>1
  <2> QED BY <2>1, <2>2
<1>5. 0 \in T
  <2>1. n <= 0 => n = 0
    BY <1>1
  <2> QED BY <1>3, <2>1
<1> HIDE DEF T
<1>6. \A m \in Nat : m \in T
  BY <1>4, <1>5, Inductive
<1>7. n <= Len(p) /\ Len(p) \in 0..Len(p)
  BY <1>1
<1>8. Starts(Len(p))
  BY <1>1, <1>6, <1>7 DEF T
<1>9. Len(w[Len(p)]) \in Nat
  BY <1>2, <1>7, LenProperties
<1> QED BY <1>3, <1>8, <1>9

-----------------------------------------------------------------------------
(* What Loop::PopToInnerSequence leaves in the vector.                     *)
LEMMA InnerIs ==
  ASSUME NEW S, NEW x \in Seq(S), NEW p, NEW l
  PROVE  /\ Inner(p, x, l) \in 0..Len(x)
         /\ Inner(p, x, l) \in Named(p, x, l) \cup {0}
         /\ \A i \in Named(p, x, l) : i <= Inner(p, x, l)
<1>1. Len(x) \in Nat /\ DOMAIN x = 1..Len(x)
  BY LenProperties
<1> DEFINE A == Named(p, x, l) \cup {0}
<1>2. A \in SUBSET (0..Len(x)) /\ A # {}
  BY <1>1 DEF Named
<1>3. Inner(p, x, l) = Max(A)
  BY DEF Inner
<1>4. Max(A) \in A /\ \A y \in A : Max(A) >= y
  <2> HIDE DEF A
  <2> QED BY <1>1, <1>2, MaxIs
<1>5. \A y \in A : y \in Int
  BY <1>2
<1>6. ASSUME NEW y \in A PROVE y <= Max(A)
  <2>1. Max(A) >= y
    BY <1>4
  <2>2. y \in Int /\ Max(A) \in Int
    BY <1>4, <1>5
  <2> HIDE DEF A
  <2> QED BY <2>1, <2>2
<1> QED BY <1>2, <1>3, <1>4, <1>6

LEMMA TakeIs ==
  ASSUME NEW S, NEW x \in Seq(S), NEW k \in 0..Len(x)
  PROVE  /\ SubSeq(x, 1, k) \in Seq(S) /\ Len(SubSeq(x, 1, k)) = k
         /\ \A i \in 1..k : SubSeq(x, 1, k)[i] = x[i]
<1>1. Len(x) \in Nat
  BY LenProperties
<1>2. k \in Nat /\ k + 1 \in 1..Len(x) + 1 /\ (k + 1) - 1 = k
  BY <1>1
<1>3. Before(x, k + 1) = SubSeq(x, 1, k)
  BY <1>2 DEF Before
<1>4. /\ Before(x, k + 1) \in Seq(S) /\ Len(Before(x, k + 1)) = (k + 1) - 1
      /\ \A i \in 1..(k + 1) - 1 : Before(x, k + 1)[i] = x[i]
  BY <1>2, BeforeIs
<1> QED BY <1>2, <1>3, <1>4

LEMMA PushedIs ==
  ASSUME NEW S, NEW x \in Seq(S), NEW p, NEW n \in S
  PROVE  Pushed(p, x, n) \in Seq(S)
<1>1. PICK k : k = Inner(p, x, p[n].name)
  OBVIOUS
<1>2. SubSeq(x, 1, k) \in Seq(S)
  <2>1. k \in 0..Len(x)
    BY <1>1, InnerIs
  <2> QED BY <2>1, TakeIs
<1>3. Append(SubSeq(x, 1, k), n) \in Seq(S) /\ Append(x, n) \in Seq(S)
  BY <1>2, AppendProperties
<1> QED BY <1>1, <1>3 DEF Pushed

(* v holds the vectors after the first commands of p.                      *)
Holds(p, v) ==
  /\ v \in [0..Len(p) -> Seq(Nat)] /\ v[0] = <<>>
  /\ \A n \in 1..Len(p) : v[n] = Pushed(p, v[n - 1], n)

(* The vectors of a program, command by command.                           *)
LEMMA VectorsIs ==
  ASSUME NEW p \in Seq(CommandType)
  PROVE  Holds(p, Vectors(p))
<1>1. Len(p) \in Nat
  BY LenProperties
<1> DEFINE N == Len(p)
           S == Seq(Nat)
           h == [q \in Nat \X S |-> Pushed(p, q[2], q[1])]
           d == [n \in Nat |-> IF n = 0 THEN 0 ELSE n - 1]
<1>2. h \in [Nat \X S -> S]
  <2>1. ASSUME NEW q \in Nat \X S PROVE Pushed(p, q[2], q[1]) \in S
    <3>1. q[1] \in Nat /\ q[2] \in Seq(Nat)
      OBVIOUS
    <3> QED BY <3>1, PushedIs
  <2> QED BY <2>1
<1>3. d \in [Nat -> Nat] /\ \A n \in Nat : n # 0 => d[n] < n
  OBVIOUS
<1>4. PICK f \in [0..N -> S] : Recursive(f, N, <<>>, h, d)
  <2>1. <<>> \in S
    BY EmptySeq
  <2>2. N \in Nat
    BY <1>1
  <2> HIDE DEF N, h, d, S
  <2>3. \A M \in Nat : \E f \in [0..M -> S] : Recursive(f, M, <<>>, h, d)
    BY <2>1, <1>2, <1>3, RecursiveExists
  <2> QED BY <2>2, <2>3
<1>5. \A n \in 0..N : n # 0 => h[n, f[d[n]]] = Pushed(p, f[n - 1], n)
  <2> TAKE n \in 0..N
  <2>1. n # 0 => n \in Nat /\ n - 1 \in 0..N /\ d[n] = n - 1
    BY <1>1
  <2>2. n # 0 => <<n, f[n - 1]>> \in Nat \X S
    BY <2>1
  <2> QED BY <2>1, <2>2
<1>6. f = [n \in 0..Len(p) |-> IF n = 0 THEN <<>> ELSE Pushed(p, f[n - 1], n)]
  <2> HIDE DEF h, d
  <2> QED BY <1>4, <1>5 DEF Recursive
<1> DEFINE g == CHOOSE v : v = [n \in 0..Len(p) |->
                                  IF n = 0 THEN <<>> ELSE Pushed(p, v[n - 1], n)]
<1>7. Vectors(p) = g
  BY DEF Vectors
<1>8. g = [n \in 0..Len(p) |-> IF n = 0 THEN <<>> ELSE Pushed(p, g[n - 1], n)]
  <2> HIDE DEF h, d
  <2> QED BY <1>6
<1> HIDE DEF h, d, g
<1>9. g[0] = <<>> /\ \A n \in 1..Len(p) : g[n] = Pushed(p, g[n - 1], n)
  <2>1. 0 \in 0..Len(p) /\ \A n \in 1..Len(p) : n \in 0..Len(p) /\ n # 0
    BY <1>1
  <2> QED BY <1>8, <2>1
<1>10. \A n \in 0..Len(p) : g[n] \in Seq(Nat)
  <2> DEFINE T == {n \in Nat : n <= Len(p) => g[n] \in Seq(Nat)}
  <2>1. 0 \in T
    BY <1>9, EmptySeq
  <2>2. ASSUME NEW n \in Nat, n \in T PROVE n + 1 \in T
    <3>1. CASE n + 1 <= Len(p)
      <4>1. n + 1 \in 1..Len(p) /\ n + 1 \in Nat /\ (n + 1) - 1 = n /\ n <= Len(p)
        BY <1>1, <3>1
      <4>2. g[n + 1] = Pushed(p, g[n], n + 1)
        BY <1>9, <4>1
      <4>3. g[n + 1] \in Seq(Nat)
        BY <2>2, <4>1, <4>2, PushedIs
      <4> QED BY <4>3
    <3> QED BY <3>1
  <2> HIDE DEF T
  <2>3. \A n \in Nat : n \in T
    BY <2>1, <2>2, Inductive
  <2> QED BY <1>1, <2>3 DEF T
<1>11. g \in [0..Len(p) -> Seq(Nat)]
  BY <1>8, <1>10
<1> QED BY <1>7, <1>9, <1>11 DEF Holds

(* The vector after n commands holds some of these.                        *)
LEMMA HoldsEarlier ==
  ASSUME NEW p \in Seq(CommandType), NEW v, Holds(p, v)
  PROVE  \A n \in 0..Len(p) : v[n] \in Seq(1..n)
<1>1. Len(p) \in Nat
  BY LenProperties
<1> DEFINE T == {n \in Nat : n <= Len(p) => v[n] \in Seq(1..n)}
<1>2. 0 \in T
  BY EmptySeq DEF Holds
<1>3. ASSUME NEW n \in Nat, n \in T PROVE n + 1 \in T
  <2>1. CASE n + 1 <= Len(p)
    <3>1. /\ n + 1 \in 1..Len(p) /\ n + 1 \in 1..n + 1 /\ (n + 1) - 1 = n /\ n <= Len(p)
          /\ 1..n \subseteq 1..n + 1
      BY <1>1, <2>1
    <3>2. v[n + 1] = Pushed(p, v[n], n + 1)
      BY <3>1 DEF Holds
    <3>3. v[n] \in Seq(1..n + 1)
      <4>1. v[n] \in Seq(1..n)
        BY <1>3, <3>1
      <4> QED BY <3>1, <4>1, SeqMonotonic
    <3>4. v[n + 1] \in Seq(1..n + 1)
      BY <3>1, <3>2, <3>3, PushedIs
    <3> QED BY <3>4
  <2> QED BY <2>1
<1> HIDE DEF T
<1>4. \A n \in Nat : n \in T
  BY <1>2, <1>3, Inductive
<1> QED BY <1>1, <1>4 DEF T

(* Programs that agree on letters and names have the same vectors.         *)
Agree(p, q, m) == \A i \in 1..m : p[i].op = q[i].op /\ p[i].name = q[i].name

LEMMA NamedAgree ==
  ASSUME NEW m \in Nat, NEW x \in Seq(1..m), NEW p, NEW q, Agree(p, q, m), NEW l
  PROVE  Named(p, x, l) = Named(q, x, l)
<1>1. \A i \in DOMAIN x : x[i] \in 1..m
  BY LenProperties, ElementOfSeq
<1> QED BY <1>1 DEF Named, Agree

(* Vectors depend on the letters and names of the commands before.         *)
LEMMA VectorsAgree ==
  ASSUME NEW p \in Seq(CommandType), NEW q \in Seq(CommandType), NEW m \in Nat,
         m <= Len(p), m <= Len(q), Agree(p, q, m)
  PROVE  \A n \in 0..m : Vectors(p)[n] = Vectors(q)[n]
<1>1. Len(p) \in Nat /\ Len(q) \in Nat
  BY LenProperties
<1>2. PICK v : v = Vectors(p)
  OBVIOUS
<1>3. PICK w : w = Vectors(q)
  OBVIOUS
<1>4. Holds(p, v) /\ Holds(q, w)
  BY <1>2, <1>3, VectorsIs
<1> DEFINE T == {n \in Nat : n <= m => v[n] = w[n]}
<1>5. 0 \in T
  BY <1>4 DEF Holds
<1>6. ASSUME NEW n \in Nat, n \in T PROVE n + 1 \in T
  <2>1. CASE n + 1 <= m
    <3>1. /\ n + 1 \in 1..Len(p) /\ n + 1 \in 1..Len(q) /\ n + 1 \in 1..m
          /\ (n + 1) - 1 = n /\ n <= m /\ n \in 0..Len(p)
      BY <1>1, <2>1
    <3>2. v[n + 1] = Pushed(p, v[n], n + 1) /\ w[n + 1] = Pushed(q, w[n], n + 1)
      BY <1>4, <3>1 DEF Holds
    <3>3. v[n] = w[n] /\ v[n] \in Seq(1..n)
      BY <1>4, <1>6, <3>1, HoldsEarlier
    <3>4. \A i \in 1..n : i \in 1..m
      BY <3>1
    <3>5. Agree(p, q, n)
      BY <3>4 DEF Agree
    <3>6. \A l : Named(p, v[n], l) = Named(q, v[n], l)
      BY <3>3, <3>5, NamedAgree
    <3>7. \A l : Inner(p, v[n], l) = Inner(q, v[n], l)
      BY <3>6 DEF Inner
    <3>8. p[n + 1].op = q[n + 1].op /\ p[n + 1].name = q[n + 1].name
      BY <3>1 DEF Agree
    <3>9. v[n + 1] = w[n + 1]
      BY <3>2, <3>3, <3>7, <3>8 DEF Pushed
    <3> QED BY <3>9
  <2> QED BY <2>1
<1> HIDE DEF T
<1>7. \A n \in Nat : n \in T
  BY <1>5, <1>6, Inductive
<1> QED BY <1>2, <1>3, <1>7 DEF T

-----------------------------------------------------------------------------
(* What an argument is made of.                                            *)
ArgLetters == Characters \ {Semicolon}

LEMMA SeqAllIn ==
  ASSUME NEW S, NEW s \in Seq(S), NEW A
  PROVE  AllIn(s, A) <=> s \in Seq(A)
<1>1. Len(s) \in Nat /\ DOMAIN s = 1..Len(s)
  BY LenProperties
<1>2. ASSUME s \in Seq(A) PROVE AllIn(s, A)
  <2>1. \A i \in 1..Len(s) : s[i] \in A
    BY <1>2, ElementOfSeq
  <2> QED BY <1>1, <2>1, AllInIs
<1>3. ASSUME AllIn(s, A) PROVE s \in Seq(A)
  <2>1. \A i \in 1..Len(s) : s[i] \in A
    BY <1>1, <1>3, AllInIs
  <2>2. s = [i \in 1..Len(s) |-> s[i]]
    BY <1>1, LenProperties
  <2> QED BY <1>1, <2>1, <2>2, IsASeq
<1> QED BY <1>2, <1>3

(* Where a sequence of digits ends.                                        *)
LEMMA DigitsFirst ==
  ASSUME NEW a \in Seq(ArgLetters)
  PROVE  /\ Millis(a) \in Seq(Digits) /\ Rest(a) \in Seq(ArgLetters)
         /\ Rest(a) # <<>> => Head(Rest(a)) \notin Digits
<1> DEFINE f == First(a, Characters \ Digits)
<1>1. /\ f \in 1..Len(a) + 1
      /\ \A i \in 1..Len(a) : i < f => a[i] \notin Characters \ Digits
      /\ f <= Len(a) => a[f] \in Characters \ Digits
  BY FirstIs
<1>2. Len(a) \in Nat /\ \A i \in 1..Len(a) : a[i] \in Characters
  BY LenProperties, ElementOfSeq DEF ArgLetters
<1>3. Millis(a) = Before(a, f) /\ Rest(a) = From(a, f)
  BY DEF Millis, Rest
<1> HIDE DEF f
<1>4. /\ Before(a, f) \in Seq(ArgLetters) /\ Len(Before(a, f)) = f - 1
      /\ \A i \in 1..f - 1 : Before(a, f)[i] = a[i]
  BY <1>1, BeforeIs
<1>5. /\ From(a, f) \in Seq(ArgLetters) /\ Len(From(a, f)) = Len(a) + 1 - f
      /\ \A i \in 1..Len(a) + 1 - f : From(a, f)[i] = a[f + i - 1]
  BY <1>1, FromIs
<1>6. \A i \in 1..f - 1 : i \in 1..Len(a) /\ i < f
  BY <1>1, <1>2
<1>7. \A i \in 1..f - 1 : Before(a, f)[i] \in Digits
  BY <1>1, <1>2, <1>4, <1>6
<1>8. Before(a, f) \in Seq(Digits)
  <2>1. DOMAIN Before(a, f) = 1..f - 1
    BY <1>4, LenProperties
  <2>2. AllIn(Before(a, f), Digits)
    BY <1>7, <2>1, AllInIs
  <2> QED BY <1>4, <2>2, SeqAllIn
<1>9. ASSUME From(a, f) # <<>> PROVE Head(From(a, f)) \notin Digits
  <2>1. Len(From(a, f)) # 0
    BY <1>5, <1>9, EmptySeq
  <2>2. f <= Len(a)
    BY <1>1, <1>2, <1>5, <2>1
  <2>3. 1 \in 1..Len(a) + 1 - f /\ f + 1 - 1 = f
    BY <1>1, <1>2, <2>2
  <2>4. From(a, f)[1] = a[f]
    BY <1>5, <2>3
  <2>5. Head(From(a, f)) = From(a, f)[1]
    BY <1>5, <1>9, HeadTailProperties
  <2> QED BY <1>1, <2>2, <2>4, <2>5
<1> QED BY <1>3, <1>5, <1>8, <1>9

(* A number without a leading zero is not zero.                            *)
LEMMA ValuePositive ==
  ASSUME NEW es \in Seq(Digits), es # <<>>, Head(es) # "0"
  PROVE  Value(es) > 0
<1> DEFINE T == {n \in Nat : \A ds \in Seq(Digits) :
                   Len(ds) = n /\ n > 0 /\ ds[1] # "0" => Value(ds) > 0}
<1>1. 0 \in T
  OBVIOUS
<1>2. ASSUME NEW n \in Nat, n \in T PROVE n + 1 \in T
  <2>1. ASSUME NEW ds \in Seq(Digits), Len(ds) = n + 1, ds[1] # "0"
        PROVE  Value(ds) > 0
    <3>1. ds # <<>>
      BY <2>1
    <3>2. PICK cs \in Seq(Digits), x \in Digits : ds = Append(cs, x)
      BY <3>1, SequenceEmptyOrAppend
    <3>3. /\ Len(cs) = n /\ ds[n + 1] = x
          /\ \A i \in 1..n : ds[i] = cs[i]
      BY <2>1, <3>2, AppendProperties, LenProperties
    <3>4. PICK c : c = Value(cs)
      OBVIOUS
    <3>5. PICK k : k = Digit(x)
      OBVIOUS
    <3>6. c \in Nat /\ k \in 0..9
      BY <3>4, <3>5, ValueIsNat, DigitIs
    <3>7. Value(ds) = 10 * c + k
      BY <3>2, <3>4, <3>5, ValueOfAppend
    <3>8. CASE n = 0
      <4>1. x # "0"
        BY <2>1, <3>3, <3>8
      <4>2. k # 0
        <5>1. Numerals[0 + 1] = "0"
          BY DEF Numerals
        <5>2. x = Numerals[k + 1]
          BY <3>5, DigitIs
        <5> QED BY <4>1, <5>1, <5>2
      <4> QED BY <3>6, <3>7, <4>2
    <3>9. CASE n > 0
      <4>1. 1 \in 1..n
        BY <3>9
      <4>2. cs[1] # "0"
        BY <2>1, <3>3, <4>1
      <4>3. c > 0
        BY <1>2, <3>3, <3>4, <3>9, <4>2
      <4> QED BY <3>6, <3>7, <4>3
    <3> QED BY <3>8, <3>9
  <2> QED BY <2>1
<1> HIDE DEF T
<1>3. \A n \in Nat : n \in T
  BY <1>1, <1>2, Inductive
<1>4. Len(es) \in Nat /\ Len(es) > 0 /\ es[1] # "0"
  <2>1. Len(es) \in Nat /\ Len(es) # 0 /\ Head(es) = es[1]
    BY LenProperties, EmptySeq, HeadTailProperties
  <2> QED BY <2>1
<1> QED BY <1>3, <1>4 DEF T

-----------------------------------------------------------------------------
(* The letter op with the argument a may be read as the command c.         *)
ParsesTo(op, a, c) ==
  \/ op = "c" /\ CallArgs(a) /\ c = CallOf(a)
  \/ op = "a" /\ c = Command("a", a, 0, {})
  \/ op = "h" /\ c = Command("h", <<>>, 0, {})
  \/ op = "d" /\ ToneArgs(a) /\ c = Command("d", a, 0, {})
  \/ op \in {"v", "l"} /\ a # <<>> /\ c = Command(op, a, 0, {})
  \/ op = "r" /\ RecordArgs(a) /\ c = RecordOf(a)
  \/ op = "w" /\ \E prefix \in WaitOptions : WaitArgs(a, prefix) /\ c = WaitOf(a, prefix)
  \/ op = "j" /\ LoopArgs(a) /\ c = LoopOf(a, <<>>)

(* What a command is made of.                                              *)
Made(c, op, m, k, o) ==
  /\ c \in CommandType /\ c.op = op /\ c.name = m /\ c.num = k /\ c.opts = o
  /\ c.looped = <<>> /\ AllIn(c.name, Characters \ {Semicolon})

LEMMA CommandIs ==
  ASSUME NEW op \in Letters, NEW m \in Seq(ArgLetters), NEW k \in Nat,
         NEW o \in SUBSET OptionLetters
  PROVE  Made(Command(op, m, k, o), op, m, k, o)
<1>1. PICK c : c = Command(op, m, k, o)
  OBVIOUS
<1>2. m \in Seq(Characters)
  <2>1. ArgLetters \subseteq Characters
    BY DEF ArgLetters
  <2> QED BY <2>1, SeqMonotonic
<1>3. AllIn(m, Characters \ {Semicolon})
  BY SeqAllIn DEF ArgLetters
<1>4. <<>> \in Seq(Nat)
  BY EmptySeq
<1>5. /\ c.op = op /\ c.name = m /\ c.num = k /\ c.opts = o /\ c.looped = <<>>
      /\ c = [op |-> op, name |-> m, num |-> k, opts |-> o, looped |-> <<>>]
  BY <1>1 DEF Command
<1>6. c \in CommandType
  BY <1>2, <1>4, <1>5 DEF CommandType
<1>7. Made(c, op, m, k, o)
  BY <1>3, <1>5, <1>6 DEF Made
<1> QED BY <1>1, <1>7

(* A Call that is read is well formed; the other commands follow.          *)
LEMMA CallFormed ==
  ASSUME NEW a \in Seq(ArgLetters), CallArgs(a)
  PROVE  WellFormed(CallOf(a)) /\ CallOf(a).op = "c" /\ CallOf(a).looped = <<>>
<1> DEFINE f == First(a, {"w"})
<1>1. /\ f \in 1..Len(a) + 1
      /\ \A i \in 1..Len(a) : i < f => a[i] \notin {"w"}
  BY FirstIs
<1>2. Len(a) \in Nat /\ \A i \in 1..Len(a) : a[i] \in Characters
  BY LenProperties, ElementOfSeq DEF ArgLetters
<1>3. Party(a) = Before(a, f) /\ Timeout(a) = From(a, f + 1)
  BY DEF Party, Timeout
<1> HIDE DEF f
<1>4. /\ Before(a, f) \in Seq(ArgLetters) /\ Len(Before(a, f)) = f - 1
      /\ \A i \in 1..f - 1 : Before(a, f)[i] = a[i]
  BY <1>1, BeforeIs
<1>5. AllIn(Party(a), Characters \ {"w"})
  <2>1. \A i \in 1..f - 1 : i \in 1..Len(a) /\ i < f
    BY <1>1, <1>2
  <2>2. DOMAIN Before(a, f) = 1..f - 1
    BY <1>4, LenProperties
  <2>3. \A i \in 1..f - 1 : Before(a, f)[i] \in Characters \ {"w"}
    BY <1>1, <1>2, <1>4, <2>1
  <2> QED BY <1>3, <2>2, <2>3, AllInIs
<1>6. f = Len(a) + 1 => Party(a) = a
  <2>1. ASSUME f = Len(a) + 1 PROVE Before(a, f) = a
    <3>1. Len(Before(a, f)) = Len(a) /\ \A i \in 1..Len(a) : Before(a, f)[i] = a[i]
      BY <1>2, <1>4, <2>1
    <3> QED BY <1>4, <3>1, SeqEqual
  <2> QED BY <1>3, <2>1
<1>7. ASSUME Party(a) # a PROVE Value(Timeout(a)) \in Nat /\ Value(Timeout(a)) > 0
  <2>1. f + 1 \in 1..Len(a) + 1
    BY <1>1, <1>2, <1>6, <1>7
  <2>2. Timeout(a) \in Seq(ArgLetters)
    BY <1>3, <2>1, FromIs
  <2>3. /\ Timeout(a) # <<>> /\ AllIn(Timeout(a), Digits) /\ Head(Timeout(a)) # "0"
    BY <1>7 DEF CallArgs
  <2>4. Timeout(a) \in Seq(Digits)
    BY <2>2, <2>3, SeqAllIn
  <2> QED BY <2>3, <2>4, ValueIsNat, ValuePositive
<1>8. PICK k : k = IF Party(a) = a THEN DialTimeout ELSE Value(Timeout(a))
  OBVIOUS
<1>9. k \in Nat /\ k > 0
  BY <1>7, <1>8 DEF DialTimeout
<1>10. "c" \in Letters /\ {} \in SUBSET OptionLetters /\ Party(a) \in Seq(ArgLetters)
  BY <1>3, <1>4 DEF Letters
<1>11. CallOf(a) = Command("c", Party(a), k, {})
  BY <1>8 DEF CallOf
<1>12. Party(a) # <<>>
  BY DEF CallArgs
<1>13. PICK c : c = CallOf(a)
  OBVIOUS
<1>14. Made(c, "c", Party(a), k, {})
  <2>1. Made(Command("c", Party(a), k, {}), "c", Party(a), k, {})
    BY <1>9, <1>10, CommandIs
  <2> QED BY <1>11, <1>13, <2>1
<1>15. WellFormed(c)
  BY <1>5, <1>9, <1>12, <1>14 DEF WellFormed, Made
<1> QED BY <1>13, <1>14, <1>15 DEF Made

(* Answer, Hangup, DTMF, Voice and Label take the argument as it is.       *)
LEMMA NameFormed ==
  ASSUME NEW a \in Seq(ArgLetters), NEW op \in {"a", "h", "d", "v", "l"},
         op \in {"d", "v", "l"} => a # <<>>, op = "h" => a = <<>>,
         op = "d" => AllIn(a, ToneLetters), NEW c, c = Command(op, a, 0, {})
  PROVE  WellFormed(c) /\ c.op = op /\ c.looped = <<>>
<1>1. op \in Letters /\ {} \in SUBSET OptionLetters /\ 0 \in Nat
  BY DEF Letters
<1>2. Made(c, op, a, 0, {})
  BY <1>1, CommandIs
<1>3. WellFormed(c)
  BY <1>2 DEF WellFormed, Made
<1> QED BY <1>2, <1>3 DEF Made

LEMMA ScanIs ==
  ASSUME NEW ds \in Seq(Digits)
  PROVE  Scan(ds) \in Nat /\ Scan(ds) < UIntSize
<1>1. PICK v : v = Value(ds)
  OBVIOUS
<1>2. v \in Nat /\ UIntSize \in Nat /\ UIntSize > 0
  <2>1. UIntSize \in Nat \ {0}
    BY SyntaxAssumption
  <2>2. v \in Nat
    BY <1>1, ValueIsNat
  <2> QED BY <2>1, <2>2
<1>3. v % UIntSize \in Nat /\ v % UIntSize < UIntSize
  BY <1>2
<1> QED BY <1>1, <1>3 DEF Scan

LEMMA RecordFormed ==
  ASSUME NEW a \in Seq(ArgLetters), RecordArgs(a)
  PROVE  WellFormed(RecordOf(a)) /\ RecordOf(a).op = "r" /\ RecordOf(a).looped = <<>>
<1>1. FromDigits(a) \in Seq(ArgLetters)
  <2>1. First(a, Digits) \in 1..Len(a) + 1
    BY FirstIs
  <2> QED BY <2>1, FromIs DEF FromDigits
<1>2. PICK b : b = FromDigits(a)
  OBVIOUS
<1>3. /\ Millis(b) \in Seq(Digits) /\ Rest(b) \in Seq(ArgLetters)
      /\ Rest(b) # <<>> => Head(Rest(b)) \notin Digits
  BY <1>1, <1>2, DigitsFirst
<1>4. Rest(b) # <<>>
  BY <1>2 DEF RecordArgs
<1>5. PICK k : k = Scan(Millis(b))
  OBVIOUS
<1>6. k \in Nat /\ k < UIntSize
  BY <1>3, <1>5, ScanIs
<1>7. PICK o : o = OptionsOf("r") \cap ToSet(Before(a, First(a, Digits)))
  OBVIOUS
<1>8. o \subseteq OptionsOf("r") /\ o \in SUBSET OptionLetters
  BY <1>7 DEF OptionsOf, OptionLetters
<1>9. PICK c : c = RecordOf(a)
  OBVIOUS
<1>10. c = Command("r", Rest(b), k, o) /\ "r" \in Letters
  BY <1>2, <1>5, <1>7, <1>9 DEF RecordOf, Letters
<1>11. Made(c, "r", Rest(b), k, o)
  BY <1>3, <1>6, <1>8, <1>10, CommandIs
<1>12. WellFormed(c)
  BY <1>3, <1>4, <1>6, <1>8, <1>11 DEF WellFormed, Made
<1> QED BY <1>9, <1>11, <1>12 DEF Made

-----------------------------------------------------------------------------
(* What the options of Wait stand for.                                     *)
LEMMA WaitOptionsAre ==
  ASSUME NEW prefix \in WaitOptions
  PROVE  /\ Len(prefix) \in Nat /\ ToSet(prefix) \in SUBSET OptionLetters
         /\ ToSet(prefix) \subseteq OptionsOf("w") /\ ~ {"a", "s"} \subseteq ToSet(prefix)
<1>1. \/ prefix = <<>> \/ prefix = <<"s">> \/ prefix = <<"a">> \/ prefix = <<"c">>
      \/ prefix = <<"s", "c">> \/ prefix = <<"a", "c">>
  BY DEF WaitOptions
<1>2. OptionsOf("w") = {"a", "s", "c"} /\ OptionLetters = {"a", "s", "i", "c"}
  BY DEF OptionsOf, OptionLetters
<1>3. CASE prefix = <<>>
  <2>1. Len(prefix) = 0 /\ ToSet(prefix) = {}
    BY <1>3 DEF ToSet
  <2> QED BY <1>2, <2>1
<1>4. ASSUME NEW x, x \in {"s", "a", "c"}, prefix = <<x>>
      PROVE  Len(prefix) = 1 /\ ToSet(prefix) = {x}
  BY <1>4 DEF ToSet
<1>5. ASSUME NEW x, x \in {"s", "a"}, prefix = <<x, "c">>
      PROVE  Len(prefix) = 2 /\ ToSet(prefix) = {x, "c"}
  BY <1>5 DEF ToSet
<1>6. CASE prefix \in {<<"s">>, <<"a">>, <<"c">>}
  <2>1. PICK x \in {"s", "a", "c"} : prefix = <<x>>
    BY <1>6
  <2>2. Len(prefix) = 1 /\ ToSet(prefix) = {x}
    BY <1>4, <2>1
  <2> QED BY <1>2, <2>1, <2>2
<1>7. CASE prefix \in {<<"s", "c">>, <<"a", "c">>}
  <2>1. PICK x \in {"s", "a"} : prefix = <<x, "c">>
    BY <1>7
  <2>2. Len(prefix) = 2 /\ ToSet(prefix) = {x, "c"}
    BY <1>5, <2>1
  <2> QED BY <1>2, <2>1, <2>2
<1> QED BY <1>1, <1>3, <1>6, <1>7

LEMMA WaitFormed ==
  ASSUME NEW a \in Seq(ArgLetters), NEW prefix \in WaitOptions, WaitArgs(a, prefix)
  PROVE  WellFormed(WaitOf(a, prefix)) /\ WaitOf(a, prefix).op = "w" /\ WaitOf(a, prefix).looped = <<>>
<1>1. PICK ds : ds = From(a, Len(prefix) + 1)
  OBVIOUS
<1>2. PICK o : o = ToSet(prefix)
  OBVIOUS
<1>3. Len(prefix) \in Nat /\ Len(a) \in Nat /\ Len(prefix) <= Len(a)
  BY WaitOptionsAre, LenProperties DEF WaitArgs, IsPrefix
<1>4. Len(prefix) + 1 \in 1..Len(a) + 1
  BY <1>3
<1>5. ds \in Seq(ArgLetters)
  BY <1>1, <1>4, FromIs
<1>6. AllIn(ds, Digits)
  BY <1>1 DEF WaitArgs
<1>7. ds \in Seq(Digits)
  BY <1>5, <1>6, SeqAllIn
<1>8. PICK k : k = Scan(ds)
  OBVIOUS
<1>9. k \in Nat /\ k < UIntSize
  BY <1>7, <1>8, ScanIs
<1>10. o \in SUBSET OptionLetters /\ o \subseteq OptionsOf("w") /\ ~ {"a", "s"} \subseteq o
  BY <1>2, WaitOptionsAre
<1>11. PICK c : c = WaitOf(a, prefix)
  OBVIOUS
<1>12. c = Command("w", <<>>, k, o) /\ "w" \in Letters
  BY <1>1, <1>2, <1>8, <1>11 DEF WaitOf, Letters
<1>13. <<>> \in Seq(ArgLetters)
  BY EmptySeq
<1>14. Made(c, "w", <<>>, k, o)
  BY <1>9, <1>10, <1>12, <1>13, CommandIs
<1>15. WellFormed(c)
  BY <1>9, <1>10, <1>14 DEF WellFormed, Made
<1> QED BY <1>11, <1>14, <1>15 DEF Made

LEMMA LoopFormed ==
  ASSUME NEW a \in Seq(ArgLetters)
  PROVE  WellFormed(LoopOf(a, <<>>)) /\ LoopOf(a, <<>>).op = "j" /\ LoopOf(a, <<>>).looped = <<>>
<1>1. Millis(a) \in Seq(Digits) /\ Rest(a) \in Seq(ArgLetters)
  BY DigitsFirst
<1>2. PICK ds : ds = Millis(a)
  OBVIOUS
<1>3. PICK k : k = Count(a)
  OBVIOUS
<1>4. PICK m : m = LabelOf(a)
  OBVIOUS
<1>5. m \in Seq(ArgLetters)
  <2>1. CASE Rest(a) = <<>>
    BY <1>4, <2>1, EmptySeq DEF LabelOf
  <2>2. CASE Rest(a) # <<>>
    BY <1>1, <1>4, <2>2, HeadTailProperties DEF LabelOf
  <2> QED BY <2>1, <2>2
<1>6. k \in Nat /\ (k = 0 \/ Len(Decimal(k)) <= MaxDigits)
  <2>1. Len(ds) \in Nat /\ MaxDigits \in Nat
    BY <1>1, <1>2, LenProperties, SyntaxAssumption
  <2>2. CASE Len(ds) <= MaxDigits
    <3>1. k = Value(ds)
      BY <1>2, <1>3, <2>2 DEF Count
    <3>2. k \in Nat
      BY <1>1, <1>2, <3>1, ValueIsNat
    <3>3. CASE Len(ds) = 0
      <4>1. ds = <<>>
        BY <1>1, <1>2, <3>3, EmptySeq
      <4> QED BY <3>1, <4>1, ValueOfNone
    <3>4. CASE Len(ds) > 0
      <4>1. Len(Decimal(k)) <= Len(ds)
        BY <1>1, <1>2, <3>1, <3>4, DecimalShort
      <4>2. Decimal(k) \in Seq(Digits)
        BY <3>2, DecimalIs
      <4>3. Len(Decimal(k)) \in Nat
        BY <4>2, LenProperties
      <4>4. \A x, y, z \in Nat : x <= y /\ y <= z => x <= z
        OBVIOUS
      <4>5. Len(Decimal(k)) <= MaxDigits
        BY <2>1, <2>2, <4>1, <4>3, <4>4
      <4> QED BY <3>2, <4>5
    <3> QED BY <2>1, <3>3, <3>4
  <2>3. CASE ~ Len(ds) <= MaxDigits
    BY <1>2, <1>3, <2>3 DEF Count
  <2> QED BY <2>2, <2>3
<1>7. PICK c : c = Command("j", m, k, {})
  OBVIOUS
<1>8. "j" \in Letters /\ {} \in SUBSET OptionLetters
  BY DEF Letters
<1>9. Made(c, "j", m, k, {})
  BY <1>5, <1>6, <1>7, <1>8, CommandIs
<1>10. LoopOf(a, <<>>) = c
  BY <1>3, <1>4, <1>7 DEF LoopOf, Command
<1>11. WellFormed(c)
  BY <1>6, <1>9 DEF WellFormed, Made
<1> QED BY <1>9, <1>10, <1>11 DEF Made

(* Whatever is read is well formed.                                        *)
LEMMA ParsesFormed ==
  ASSUME NEW a \in Seq(ArgLetters), NEW op, NEW c, ParsesTo(op, a, c)
  PROVE  WellFormed(c) /\ c.op = op /\ c.looped = <<>>
<1>1. CASE op = "c" /\ CallArgs(a) /\ c = CallOf(a)
  BY <1>1, CallFormed
<1>2. CASE op = "a" /\ c = Command("a", a, 0, {})
  BY <1>2, NameFormed
<1>3. CASE op = "h" /\ c = Command("h", <<>>, 0, {})
  <2>1. <<>> \in Seq(ArgLetters)
    BY EmptySeq
  <2> QED BY <1>3, <2>1, NameFormed
<1>4. CASE op = "d" /\ ToneArgs(a) /\ c = Command("d", a, 0, {})
  BY <1>4, NameFormed DEF ToneArgs
<1>5. CASE op \in {"v", "l"} /\ a # <<>> /\ c = Command(op, a, 0, {})
  BY <1>5, NameFormed
<1>6. CASE op = "r" /\ RecordArgs(a) /\ c = RecordOf(a)
  BY <1>6, RecordFormed
<1>7. CASE op = "w" /\ \E prefix \in WaitOptions : WaitArgs(a, prefix) /\ c = WaitOf(a, prefix)
  BY <1>7, WaitFormed
<1>8. CASE op = "j" /\ LoopArgs(a) /\ c = LoopOf(a, <<>>)
  BY <1>8, LoopFormed
<1> QED BY <1>1, <1>2, <1>3, <1>4, <1>5, <1>6, <1>7, <1>8 DEF ParsesTo

-----------------------------------------------------------------------------
(* The ';' is no letter of a command, an option or a tone.                 *)
LEMMA SemicolonApart ==
  Semicolon \notin Letters /\ Semicolon \notin OptionLetters /\ Semicolon \notin ToneLetters
<1>1. Semicolon \notin Letters
  BY Zenon DEF Semicolon, Letters
<1>2. Semicolon \notin OptionLetters
  BY Zenon DEF Semicolon, OptionLetters
<1>3. Semicolon \notin Digits
  <2>1. \A i \in 1..10 : \/ i = 1 \/ i = 2 \/ i = 3 \/ i = 4 \/ i = 5 \/ i = 6 \/ i = 7 \/ i = 8 \/ i = 9 \/ i = 10
    BY SMT
  <2>2. \A i \in 1..10 : Numerals[i] \in {"0", "1", "2", "3", "4", "5", "6", "7", "8", "9"}
    BY <2>1 DEF Numerals
  <2>3. Digits \subseteq {"0", "1", "2", "3", "4", "5", "6", "7", "8", "9"}
    BY <2>2 DEF Digits
  <2>4. Semicolon \notin {"0", "1", "2", "3", "4", "5", "6", "7", "8", "9"}
    BY Zenon DEF Semicolon
  <2> QED BY <2>3, <2>4
<1>4. Semicolon \notin ToneLetters
  <2>1. PICK h : h = "#"
    OBVIOUS
  <2>2. Semicolon # h
    BY <2>1, Zenon DEF Semicolon
  <2>3. ToneLetters = Digits \cup {h}
    BY <2>1, Zenon DEF ToneLetters
  <2> QED BY <1>3, <2>2, <2>3
<1> QED BY <1>1, <1>2, <1>4

-----------------------------------------------------------------------------
(* The next ';' or the end of the text, and the argument up to it.         *)
LEMMA StopIs ==
  ASSUME text \in Seq(Characters), ptr \in 1..Len(text)
  PROVE  /\ Stop \in ptr + 1..Len(text) + 1
         /\ \A i \in ptr + 1..Len(text) : i < Stop => text[i] # Semicolon
         /\ Stop <= Len(text) => text[Stop] = Semicolon
<1> DEFINE A == {i \in ptr + 1..Len(text) : text[i] = Semicolon}
           B == A \cup {Len(text) + 1}
<1>1. Len(text) \in Nat /\ ptr \in Nat /\ ptr + 1 <= Len(text) + 1
  BY LenProperties
<1>2. B \in SUBSET Nat /\ B # {} /\ B \subseteq ptr + 1..Len(text) + 1
  BY <1>1
<1>3. Stop = Min(B)
  BY DEF Stop
<1>4. Min(B) \in B /\ \A y \in B : Min(B) <= y
  <2> HIDE DEF B
  <2> QED BY <1>2, MinIs
<1>5. \A i \in ptr + 1..Len(text) : i < Min(B) => text[i] # Semicolon
  <2> TAKE i \in ptr + 1..Len(text)
  <2>1. text[i] = Semicolon => i \in B
    OBVIOUS
  <2>2. i \in Int /\ Min(B) \in Int
    BY <1>1, <1>2, <1>4
  <2> HIDE DEF B
  <2> QED BY <1>4, <2>1, <2>2
<1>6. Min(B) <= Len(text) => text[Min(B)] = Semicolon
  <2>1. \A y \in B : y <= Len(text) => text[y] = Semicolon
    BY <1>1
  <2> HIDE DEF B
  <2> QED BY <1>4, <2>1
<1>7. Min(B) \in ptr + 1..Len(text) + 1
  <2> HIDE DEF B
  <2> QED BY <1>2, <1>4
<1> HIDE DEF B
<1> QED BY <1>3, <1>5, <1>6, <1>7

LEMMA ArgIs ==
  ASSUME text \in Seq(Characters), ptr \in 1..Len(text)
  PROVE  /\ arg \in Seq(ArgLetters) /\ Len(arg) = (Stop - ptr) - 1
         /\ \A i \in 1..(Stop - ptr) - 1 : arg[i] = text[ptr + i]
<1>1. Len(text) \in Nat /\ ptr \in Nat
  BY LenProperties
<1>2. PICK t : t = text
  OBVIOUS
<1>3. PICK m : m = ptr + 1
  OBVIOUS
<1>4. PICK n : n = Stop - 1
  OBVIOUS
<1>5. m \in Int /\ n \in Int /\ m <= n + 1 /\ (n - m) + 1 = (Stop - ptr) - 1
  BY <1>1, <1>3, <1>4, StopIs
<1>6. \A i \in m..n : t[i] \in ArgLetters
  <2> TAKE i \in m..n
  <2>1. i \in 1..Len(t) /\ i \in ptr + 1..Len(text) /\ i < Stop
    BY <1>1, <1>2, <1>3, <1>4, StopIs
  <2>2. t[i] \in Characters
    BY <1>2, <2>1, ElementOfSeq
  <2>3. t[i] # Semicolon
    BY <1>2, <2>1, StopIs
  <2> QED BY <2>2, <2>3 DEF ArgLetters
<1>7. /\ SubSeq(t, m, n) \in Seq(ArgLetters)
      /\ Len(SubSeq(t, m, n)) = IF m <= n THEN n - m + 1 ELSE 0
      /\ \A i \in 1..n - m + 1 : SubSeq(t, m, n)[i] = t[m + i - 1]
  BY <1>5, <1>6, SubSeqProperties
<1>8. arg = SubSeq(t, m, n)
  BY <1>2, <1>3, <1>4 DEF arg
<1>9. Len(SubSeq(t, m, n)) = (Stop - ptr) - 1
  BY <1>5, <1>7
<1>10. \A i \in 1..(Stop - ptr) - 1 : i \in 1..n - m + 1 /\ m + i - 1 = ptr + i
  BY <1>1, <1>3, <1>5
<1>11. \A i \in 1..(Stop - ptr) - 1 : SubSeq(t, m, n)[i] = t[ptr + i]
  BY <1>7, <1>10
<1> QED BY <1>2, <1>7, <1>8, <1>9, <1>11

-----------------------------------------------------------------------------
(* The vectors of n commands hold these in order.                          *)
VectorOf(v, n) == v \in Seq(1..n) /\ Ordered(v)

LEMMA OrderedTake ==
  ASSUME NEW n \in Nat, NEW v, VectorOf(v, n), NEW k \in 0..Len(v)
  PROVE  /\ VectorOf(Append(SubSeq(v, 1, k), n + 1), n + 1)
         /\ VectorOf(From(v, k + 1), n)
<1>1. v \in Seq(1..n) /\ \A i, j \in DOMAIN v : i < j => v[i] < v[j]
  BY DEF VectorOf, Ordered
<1>2. Len(v) \in Nat /\ DOMAIN v = 1..Len(v) /\ \A i \in 1..Len(v) : v[i] \in 1..n
  BY <1>1, LenProperties, ElementOfSeq
<1>3. PICK x : x = SubSeq(v, 1, k)
  OBVIOUS
<1>4. x \in Seq(1..n) /\ Len(x) = k /\ \A i \in 1..k : x[i] = v[i]
  BY <1>1, <1>3, TakeIs
<1>5. n + 1 \in 1..n + 1 /\ 1..n \subseteq 1..n + 1 /\ k \in Nat
  BY <1>2
<1>6. x \in Seq(1..n + 1)
  BY <1>4, <1>5, SeqMonotonic
<1>7. PICK y : y = Append(x, n + 1)
  OBVIOUS
<1>8. /\ y \in Seq(1..n + 1) /\ Len(y) = k + 1 /\ y[k + 1] = n + 1
      /\ \A i \in 1..k : y[i] = x[i]
  <2>1. PICK T : T = 1..n + 1
    OBVIOUS
  <2>2. PICK e : e = n + 1
    OBVIOUS
  <2>3. x \in Seq(T) /\ e \in T /\ y = Append(x, e)
    BY <1>5, <1>6, <1>7, <2>1, <2>2
  <2>4. /\ y \in Seq(T) /\ Len(y) = Len(x) + 1 /\ y[Len(x) + 1] = e
        /\ \A i \in 1..Len(x) : y[i] = x[i]
    BY <2>3, AppendProperties
  <2> QED BY <1>4, <2>1, <2>2, <2>4
<1>9. ASSUME NEW i \in 1..k + 1, NEW j \in 1..k + 1, i < j PROVE y[i] < y[j]
  <2>1. i \in 1..k /\ i \in 1..Len(v) /\ y[i] = v[i] /\ v[i] \in 1..n
    BY <1>2, <1>4, <1>5, <1>8, <1>9
  <2>2. CASE j = k + 1
    <3>1. \A z \in 1..n : z < n + 1
      OBVIOUS
    <3> QED BY <1>8, <2>1, <2>2, <3>1
  <2>3. CASE j # k + 1
    <3>1. j \in 1..k /\ j \in 1..Len(v)
      BY <1>2, <1>5, <2>3
    <3>2. y[j] = v[j]
      BY <1>4, <1>8, <3>1
    <3>3. v[i] < v[j]
      BY <1>1, <1>2, <1>9, <2>1, <3>1
    <3> QED BY <2>1, <3>2, <3>3
  <2> QED BY <2>2, <2>3
<1>10. DOMAIN y = 1..k + 1
  BY <1>8, LenProperties
<1>11. VectorOf(y, n + 1)
  BY <1>8, <1>9, <1>10 DEF VectorOf, Ordered
<1>12. PICK f : f = From(v, k + 1)
  OBVIOUS
<1>13. k + 1 \in 1..Len(v) + 1 /\ Len(v) + 1 - (k + 1) = Len(v) - k
  <2>1. \A l \in Nat : \A i \in 0..l : i + 1 \in 1..l + 1 /\ l + 1 - (i + 1) = l - i
    OBVIOUS
  <2> QED BY <1>2, <2>1, Zenon
<1>14. /\ f \in Seq(1..n) /\ Len(f) = Len(v) - k
       /\ \A i \in 1..Len(v) - k : f[i] = v[(k + 1) + i - 1]
  BY <1>1, <1>12, <1>13, FromIs
<1>15. \A i \in 1..Len(v) - k : k + i \in 1..Len(v) /\ (k + 1) + i - 1 = k + i
  BY <1>2, <1>5
<1>16. \A i \in 1..Len(v) - k : f[i] = v[k + i]
  BY <1>14, <1>15
<1>17. ASSUME NEW i \in 1..Len(v) - k, NEW j \in 1..Len(v) - k, i < j PROVE f[i] < f[j]
  <2>1. k + i < k + j
    BY <1>2, <1>5, <1>17
  <2> QED BY <1>1, <1>2, <1>15, <1>16, <2>1
<1>18. DOMAIN f = 1..Len(v) - k
  BY <1>14, LenProperties
<1>19. VectorOf(f, n)
  BY <1>14, <1>17, <1>18 DEF VectorOf, Ordered
<1> QED BY <1>3, <1>7, <1>11, <1>12, <1>19

LEMMA PushedOrdered ==
  ASSUME NEW n \in Nat, NEW v, VectorOf(v, n), NEW p
  PROVE  VectorOf(Pushed(p, v, n + 1), n + 1)
<1>1. v \in Seq(1..n)
  BY DEF VectorOf
<1>2. Len(v) \in Nat /\ Len(v) \in 0..Len(v)
  BY <1>1, LenProperties
<1>3. Inner(p, v, p[n + 1].name) \in 0..Len(v)
  BY <1>1, InnerIs
<1>4. SubSeq(v, 1, Len(v)) = v
  BY <1>1, SubSeqFull
<1>5. VectorOf(Append(SubSeq(v, 1, Len(v)), n + 1), n + 1)
  BY <1>2, OrderedTake
<1>6. VectorOf(Append(SubSeq(v, 1, Inner(p, v, p[n + 1].name)), n + 1), n + 1)
  BY <1>3, OrderedTake
<1> QED BY <1>4, <1>5, <1>6 DEF Pushed

-----------------------------------------------------------------------------
(* A command without what a loop has taken over.                           *)
Alone(c) == [c EXCEPT !.looped = <<>>]

LEMMA AloneIs ==
  ASSUME NEW c \in CommandType
  PROVE  /\ Alone(c) \in CommandType /\ Alone(c).op = c.op /\ Alone(c).name = c.name
         /\ Alone(c).num = c.num /\ Alone(c).opts = c.opts /\ Alone(c).looped = <<>>
         /\ c.looped = <<>> => Alone(c) = c
         /\ WellFormed(Alone(c)) <=> WellFormed(c)
<1>1. <<>> \in Seq(Nat)
  BY EmptySeq
<1>2. PICK d : d = Alone(c)
  OBVIOUS
<1>3. /\ d \in CommandType /\ d.op = c.op /\ d.name = c.name
      /\ d.num = c.num /\ d.opts = c.opts /\ d.looped = <<>>
  <2>1. PICK e : e = <<>>
    OBVIOUS
  <2>2. d = [c EXCEPT !.looped = e] /\ e \in Seq(Nat)
    BY <1>1, <1>2, <2>1 DEF Alone
  <2>3. /\ d \in CommandType /\ d.op = c.op /\ d.name = c.name
        /\ d.num = c.num /\ d.opts = c.opts /\ d.looped = e
    BY <2>2 DEF CommandType
  <2> QED BY <2>1, <2>3
<1>4. c.looped = <<>> => d = c
  BY <1>3 DEF CommandType
<1>5. WellFormed(d) <=> WellFormed(c)
  BY <1>3 DEF WellFormed
<1> QED BY <1>2, <1>3, <1>4, <1>5

(* The commands that have been read.                                       *)
Formed(r) ==
  /\ r \in Seq(CommandType)
  /\ \A i \in 1..Len(r) : WellFormed(r[i]) /\ VectorOf(r[i].looped, i - 1)

LEMMA FormedAppend ==
  ASSUME NEW r, Formed(r), NEW c, WellFormed(c), VectorOf(c.looped, Len(r))
  PROVE  Formed(Append(r, c))
<1>1. r \in Seq(CommandType) /\ Len(r) \in Nat /\ c \in CommandType
  BY LenProperties DEF Formed, WellFormed
<1>2. PICK s : s = Append(r, c)
  OBVIOUS
<1>3. /\ s \in Seq(CommandType) /\ Len(s) = Len(r) + 1 /\ s[Len(r) + 1] = c
      /\ \A i \in 1..Len(r) : s[i] = r[i]
  BY <1>1, <1>2, AppendProperties
<1>4. ASSUME NEW i \in 1..Len(s) PROVE WellFormed(s[i]) /\ VectorOf(s[i].looped, i - 1)
  <2>1. CASE i = Len(r) + 1
    <3>1. s[i] = c /\ i - 1 = Len(r)
      BY <1>1, <1>3, <2>1
    <3> QED BY <3>1
  <2>2. CASE i # Len(r) + 1
    <3>1. i \in 1..Len(r)
      BY <1>1, <1>3, <2>2
    <3> QED BY <1>3, <3>1 DEF Formed
  <2> QED BY <2>1, <2>2
<1> QED BY <1>2, <1>3, <1>4 DEF Formed

(* The type invariant, with the types of the numbers.                      *)
TypeInv ==
  /\ text \in Seq(Characters) /\ ptr \in 1..Len(text) + 1 /\ listenmode \in BOOLEAN
  /\ status \in {"parsing", "done", "rejected"}
  /\ Formed(read) /\ VectorOf(sequence, Len(read))

(* The invariant with types implies the one that TLC checks.               *)
LEMMA TypeInvIs ==
  ASSUME TypeInv
  PROVE  TypeOK
<1>1. read \in Seq(CommandType) /\ sequence \in Seq(1..Len(read)) /\ Ordered(sequence)
  BY DEF TypeInv, Formed, VectorOf
<1>2. DOMAIN read = 1..Len(read)
  BY <1>1, LenProperties
<1>3. \A i \in 1..Len(read) : /\ WellFormed(read[i])
                              /\ read[i].looped \in Seq(1..i - 1) /\ Ordered(read[i].looped)
  BY DEF TypeInv, Formed, VectorOf
<1> QED BY <1>1, <1>2, <1>3 DEF TypeInv, TypeOK

-----------------------------------------------------------------------------
(* What a step does, whatever the command: it takes the next letter, and   *)
(* reads a command or is refused.                                          *)
Takes == status = "parsing" /\ ptr \in 1..Len(text) /\ text[ptr] \in Letters

Reads(c) ==
  /\ Takes /\ c \in CommandType /\ ParsesTo(text[ptr], arg, Alone(c))
  /\ c.op = "j" => Found(read, sequence, c.name)
  /\ c.looped = IF c.op = "j" THEN From(sequence, Inner(read, sequence, c.name) + 1) ELSE <<>>
  /\ ptr' = Stop /\ read' = Append(read, c)
  /\ sequence' = Pushed(read', sequence, Len(read) + 1)
  /\ listenmode' = (listenmode \/ c.op = "a")
  /\ UNCHANGED <<text, status, meant>>

Fails ==
  /\ Takes
  /\ \A c : ParsesTo(text[ptr], arg, c) => c.op = "j" /\ ~ Found(read, sequence, c.name)
  /\ status' = "rejected" /\ sequence' \in {sequence, <<>>}
  /\ UNCHANGED <<text, ptr, read, listenmode, meant>>

LEMMA TakesArg ==
  ASSUME TypeInv, NEW op \in Letters, At(op)
  PROVE  Takes /\ text[ptr] = op /\ arg \in Seq(ArgLetters)
<1>1. Len(text) \in Nat
  BY LenProperties DEF TypeInv
<1>2. ptr \in 1..Len(text) /\ text[ptr] = op /\ status = "parsing"
  BY <1>1 DEF TypeInv, At
<1>3. arg \in Seq(ArgLetters)
  BY <1>2, ArgIs DEF TypeInv
<1> QED BY <1>2, <1>3 DEF Takes

LEMMA PushReads ==
  ASSUME TypeInv, NEW op \in Letters, op # "j", At(op), NEW c, ParsesTo(op, arg, c), Push(c),
         listenmode' = (listenmode \/ op = "a")
  PROVE  Reads(c)
<1>1. Takes /\ text[ptr] = op /\ arg \in Seq(ArgLetters)
  BY TakesArg
<1>2. WellFormed(c) /\ c.op = op /\ c.looped = <<>>
  BY <1>1, ParsesFormed
<1>3. c \in CommandType
  BY <1>2 DEF WellFormed
<1>4. Alone(c) = c
  BY <1>2, <1>3, AloneIs
<1>5. read \in Seq(CommandType)
  BY DEF TypeInv, Formed
<1>6. read' = Append(read, c) /\ sequence' = Append(sequence, Len(read) + 1) /\ ptr' = Stop
      /\ UNCHANGED <<text, status, meant>>
  BY DEF Push
<1>7. read'[Len(read) + 1] = c
  BY <1>3, <1>5, <1>6, AppendProperties
<1>8. sequence' = Pushed(read', sequence, Len(read) + 1)
  BY <1>2, <1>6, <1>7 DEF Pushed
<1> QED BY <1>1, <1>2, <1>3, <1>4, <1>6, <1>8 DEF Reads

LEMMA LoopReads ==
  ASSUME TypeInv, ParseLoop
  PROVE  \E c : Reads(c)
<1>1. At("j") /\ LoopArgs(arg) /\ Found(read, sequence, LabelOf(arg))
      /\ read' = Append(read, LoopOf(arg, From(sequence, inner + 1)))
      /\ sequence' = Append(SubSeq(sequence, 1, inner), Len(read) + 1) /\ ptr' = Stop
      /\ UNCHANGED <<text, status, listenmode, meant>>
  BY DEF ParseLoop
<1>2. "j" \in Letters
  BY DEF Letters
<1>3. Takes /\ text[ptr] = "j" /\ arg \in Seq(ArgLetters)
  BY <1>1, <1>2, TakesArg
<1>4. PICK l : l = From(sequence, inner + 1)
  OBVIOUS
<1>5. PICK c : c = LoopOf(arg, l)
  OBVIOUS
<1>6. PICK b : b = LoopOf(arg, <<>>)
  OBVIOUS
<1>7. sequence \in Seq(1..Len(read)) /\ VectorOf(sequence, Len(read)) /\ read \in Seq(CommandType)
  BY DEF TypeInv, VectorOf, Formed
<1>8. inner \in 0..Len(sequence) /\ Len(read) \in Nat
  BY <1>7, InnerIs, LenProperties DEF inner
<1>9. l \in Seq(1..Len(read))
  BY <1>4, <1>7, <1>8, OrderedTake DEF VectorOf
<1>10. l \in Seq(Nat)
  <2>1. 1..Len(read) \subseteq Nat
    BY <1>8
  <2> QED BY <1>9, <2>1, SeqMonotonic
<1>11. WellFormed(b) /\ b.op = "j"
  BY <1>3, <1>6, LoopFormed
<1>12. b \in CommandType
  BY <1>11 DEF WellFormed
<1>13. /\ c \in CommandType /\ c.op = "j" /\ c.name = LabelOf(arg) /\ c.looped = l
       /\ Alone(c) = b
  <2>1. PICK m : m = LabelOf(arg)
    OBVIOUS
  <2>2. PICK k : k = Count(arg)
    OBVIOUS
  <2>3. PICK e : e = <<>>
    OBVIOUS
  <2>4. PICK o : o = {}
    OBVIOUS
  <2>5. PICK j : j = "j"
    OBVIOUS
  <2>6. c = [op |-> j, name |-> m, num |-> k, opts |-> o, looped |-> l]
    BY <1>5, <2>1, <2>2, <2>4, <2>5 DEF LoopOf
  <2>7. b = [op |-> j, name |-> m, num |-> k, opts |-> o, looped |-> e]
    BY <1>6, <2>1, <2>2, <2>3, <2>4, <2>5 DEF LoopOf
  <2>8. [c EXCEPT !.looped = e] = b
    BY <2>6, <2>7
  <2>9. c \in CommandType
    BY <1>10, <1>12, <2>6, <2>7 DEF CommandType
  <2>10. c.op = j /\ c.name = m /\ c.looped = l
    BY <2>6
  <2>11. Alone(c) = b
    BY <2>3, <2>8 DEF Alone
  <2> QED BY <2>1, <2>5, <2>9, <2>10, <2>11
<1>14. ParsesTo("j", arg, b)
  BY <1>1, <1>6 DEF ParsesTo
<1>15. read' = Append(read, c)
  BY <1>1, <1>4, <1>5
<1>16. PICK n : n = Len(read)
  OBVIOUS
<1>17. read'[n + 1] = c /\ \A i \in 1..n : read'[i] = read[i]
  BY <1>7, <1>13, <1>15, <1>16, AppendProperties
<1>18. Agree(read', read, n)
  BY <1>17 DEF Agree
<1>19. Inner(read', sequence, LabelOf(arg)) = inner
  <2>1. sequence \in Seq(1..n) /\ n \in Nat
    BY <1>7, <1>8, <1>16
  <2>2. Named(read', sequence, LabelOf(arg)) = Named(read, sequence, LabelOf(arg))
    BY <1>18, <2>1, NamedAgree
  <2> QED BY <2>2 DEF Inner, inner
<1>20. sequence' = Pushed(read', sequence, n + 1)
  BY <1>1, <1>13, <1>16, <1>17, <1>19 DEF Pushed
<1>21. c.looped = From(sequence, Inner(read, sequence, c.name) + 1)
  BY <1>4, <1>13 DEF inner
<1>22. listenmode' = (listenmode \/ c.op = "a")
  <2>1. c.op # "a"
    BY <1>13
  <2> QED BY <1>1, <2>1 DEF TypeInv
<1> QED BY <1>1, <1>3, <1>13, <1>14, <1>15, <1>16, <1>20, <1>21, <1>22 DEF Reads

LEMMA LettersAre ==
  /\ "c" \in Letters /\ "a" \in Letters /\ "h" \in Letters /\ "d" \in Letters /\ "v" \in Letters
  /\ "r" \in Letters /\ "w" \in Letters /\ "l" \in Letters /\ "j" \in Letters
BY DEF Letters

(* A command that is read leaves the listening alone, unless it is Answer. *)
LEMMA Listens ==
  ASSUME TypeInv, NEW op, op # "a", UNCHANGED listenmode
  PROVE  listenmode' = (listenmode \/ op = "a")
BY DEF TypeInv

(* Every action that reads a command reads what ParsesTo says.             *)
LEMMA ParsingReads ==
  ASSUME TypeInv,
         \/ ParseCall \/ ParseAnswer \/ ParseHangup \/ ParseDTMF \/ ParseVoice \/ ParseLabel
         \/ ParseRecord \/ ParseWait \/ ParseLoop
  PROVE  \E c : Reads(c)
<1>1. CASE ParseCall
  <2>1. At("c") /\ CallArgs(arg) /\ Push(CallOf(arg)) /\ UNCHANGED listenmode
    BY <1>1 DEF ParseCall
  <2>2. ParsesTo("c", arg, CallOf(arg))
    BY <2>1 DEF ParsesTo
  <2>3. listenmode' = (listenmode \/ "c" = "a")
    BY <2>1, Listens
  <2>4. "c" # "j"
    OBVIOUS
  <2> QED BY <2>1, <2>2, <2>3, <2>4, LettersAre, PushReads
<1>2. CASE ParseAnswer
  <2>1. PICK c : c = Command("a", arg, 0, {})
    OBVIOUS
  <2>2. At("a") /\ Push(c) /\ listenmode' = TRUE
    BY <1>2, <2>1 DEF ParseAnswer
  <2>3. ParsesTo("a", arg, c)
    BY <2>1 DEF ParsesTo
  <2>4. listenmode' = (listenmode \/ "a" = "a")
    BY <2>2
  <2>5. "a" # "j"
    OBVIOUS
  <2> QED BY <2>2, <2>3, <2>4, <2>5, LettersAre, PushReads
<1>3. CASE ParseHangup
  <2>1. PICK c : c = Command("h", <<>>, 0, {})
    OBVIOUS
  <2>2. At("h") /\ Push(c) /\ UNCHANGED listenmode
    BY <1>3, <2>1 DEF ParseHangup
  <2>3. ParsesTo("h", arg, c)
    BY <2>1 DEF ParsesTo
  <2>4. listenmode' = (listenmode \/ "h" = "a")
    BY <2>2, Listens
  <2>5. "h" # "j"
    OBVIOUS
  <2> QED BY <2>2, <2>3, <2>4, <2>5, LettersAre, PushReads
<1>4. CASE ParseDTMF
  <2>1. PICK c : c = Command("d", arg, 0, {})
    OBVIOUS
  <2>2. At("d") /\ ToneArgs(arg) /\ Push(c) /\ UNCHANGED listenmode
    BY <1>4, <2>1 DEF ParseDTMF
  <2>3. ParsesTo("d", arg, c)
    BY <2>1, <2>2 DEF ParsesTo
  <2>4. listenmode' = (listenmode \/ "d" = "a")
    BY <2>2, Listens
  <2>5. "d" # "j"
    OBVIOUS
  <2> QED BY <2>2, <2>3, <2>4, <2>5, LettersAre, PushReads
<1>5. CASE ParseVoice
  <2>1. PICK c : c = Command("v", arg, 0, {})
    OBVIOUS
  <2>2. At("v") /\ arg # <<>> /\ Push(c) /\ UNCHANGED listenmode
    BY <1>5, <2>1 DEF ParseVoice
  <2>3. ParsesTo("v", arg, c)
    BY <2>1, <2>2 DEF ParsesTo
  <2>4. listenmode' = (listenmode \/ "v" = "a")
    BY <2>2, Listens
  <2>5. "v" # "j"
    OBVIOUS
  <2> QED BY <2>2, <2>3, <2>4, <2>5, LettersAre, PushReads
<1>6. CASE ParseLabel
  <2>1. PICK c : c = Command("l", arg, 0, {})
    OBVIOUS
  <2>2. At("l") /\ arg # <<>> /\ Push(c) /\ UNCHANGED listenmode
    BY <1>6, <2>1 DEF ParseLabel
  <2>3. ParsesTo("l", arg, c)
    BY <2>1, <2>2 DEF ParsesTo
  <2>4. listenmode' = (listenmode \/ "l" = "a")
    BY <2>2, Listens
  <2>5. "l" # "j"
    OBVIOUS
  <2> QED BY <2>2, <2>3, <2>4, <2>5, LettersAre, PushReads
<1>7. CASE ParseRecord
  <2>1. At("r") /\ RecordArgs(arg) /\ Push(RecordOf(arg)) /\ UNCHANGED listenmode
    BY <1>7 DEF ParseRecord
  <2>2. ParsesTo("r", arg, RecordOf(arg))
    BY <2>1 DEF ParsesTo
  <2>3. listenmode' = (listenmode \/ "r" = "a")
    BY <2>1, Listens
  <2>4. "r" # "j"
    OBVIOUS
  <2> QED BY <2>1, <2>2, <2>3, <2>4, LettersAre, PushReads
<1>8. CASE ParseWait
  <2>1. PICK prefix \in WaitOptions :
          At("w") /\ WaitArgs(arg, prefix) /\ Push(WaitOf(arg, prefix)) /\ UNCHANGED listenmode
    BY <1>8 DEF ParseWait
  <2>2. ParsesTo("w", arg, WaitOf(arg, prefix))
    BY <2>1 DEF ParsesTo
  <2>3. listenmode' = (listenmode \/ "w" = "a")
    BY <2>1, Listens
  <2>4. "w" # "j"
    OBVIOUS
  <2> QED BY <2>1, <2>2, <2>3, <2>4, LettersAre, PushReads
<1>9. CASE ParseLoop
  BY <1>9, LoopReads
<1> QED BY <1>1, <1>2, <1>3, <1>4, <1>5, <1>6, <1>7, <1>8, <1>9

(* What is refused is nothing that could be read.                          *)
LEMMA RefuseFails ==
  ASSUME TypeInv, NEW op \in Letters, At(op), \A c : ~ ParsesTo(op, arg, c), Refuse
  PROVE  Fails
BY TakesArg DEF Fails, Refuse

LEMMA NoLabelFails ==
  ASSUME TypeInv, ParseLoopNoLabel
  PROVE  Fails
<1>1. At("j") /\ ~ Found(read, sequence, LabelOf(arg)) /\ sequence' = <<>> /\ status' = "rejected"
      /\ UNCHANGED <<text, ptr, read, listenmode, meant>>
  BY DEF ParseLoopNoLabel
<1>2. Takes /\ text[ptr] = "j"
  BY <1>1, LettersAre, TakesArg
<1>3. ASSUME NEW c, ParsesTo("j", arg, c) PROVE c.op = "j" /\ ~ Found(read, sequence, c.name)
  <2>1. c = LoopOf(arg, <<>>)
    BY <1>3 DEF ParsesTo
  <2>2. c.op = "j" /\ c.name = LabelOf(arg)
    BY <2>1 DEF LoopOf
  <2> QED BY <1>1, <2>2
<1> QED BY <1>1, <1>2, <1>3 DEF Fails

(* Every action that refuses does so as no command may be read.            *)
LEMMA ParsingFails ==
  ASSUME TypeInv,
         \/ ParseCallError \/ ParseDTMFError \/ ParseNameError
         \/ ParseRecordError \/ ParseWaitError \/ ParseLoopError \/ ParseLoopNoLabel
  PROVE  Fails
<1>1. CASE ParseCallError
  <2>1. At("c") /\ ~ CallArgs(arg) /\ Refuse
    BY <1>1 DEF ParseCallError
  <2>2. \A c : ~ ParsesTo("c", arg, c)
    BY <2>1 DEF ParsesTo
  <2> QED BY <2>1, <2>2, LettersAre, RefuseFails
<1>2. CASE ParseDTMFError
  <2>1. At("d") /\ ~ ToneArgs(arg) /\ Refuse
    BY <1>2 DEF ParseDTMFError
  <2>2. \A c : ~ ParsesTo("d", arg, c)
    BY <2>1 DEF ParsesTo
  <2> QED BY <2>1, <2>2, LettersAre, RefuseFails
<1>3. CASE ParseNameError
  <2>1. PICK op \in {"v", "l"} : At(op) /\ arg = <<>> /\ Refuse
    BY <1>3 DEF ParseNameError
  <2>2. \A c : ~ ParsesTo(op, arg, c)
    BY <2>1 DEF ParsesTo
  <2>3. op \in Letters
    BY LettersAre
  <2> QED BY <2>1, <2>2, <2>3, RefuseFails
<1>4. CASE ParseRecordError
  <2>1. At("r") /\ ~ RecordArgs(arg) /\ Refuse
    BY <1>4 DEF ParseRecordError
  <2>2. \A c : ~ ParsesTo("r", arg, c)
    BY <2>1 DEF ParsesTo
  <2> QED BY <2>1, <2>2, LettersAre, RefuseFails
<1>5. CASE ParseWaitError
  <2>1. At("w") /\ (\A prefix \in WaitOptions : ~ WaitArgs(arg, prefix)) /\ Refuse
    BY <1>5 DEF ParseWaitError
  <2>2. \A c : ~ ParsesTo("w", arg, c)
    BY <2>1 DEF ParsesTo
  <2> QED BY <2>1, <2>2, LettersAre, RefuseFails
<1>6. CASE ParseLoopError
  <2>1. At("j") /\ ~ LoopArgs(arg) /\ Refuse
    BY <1>6 DEF ParseLoopError
  <2>2. \A c : ~ ParsesTo("j", arg, c)
    BY <2>1 DEF ParsesTo
  <2> QED BY <2>1, <2>2, LettersAre, RefuseFails
<1>7. CASE ParseLoopNoLabel
  BY <1>7, NoLabelFails
<1> QED BY <1>1, <1>2, <1>3, <1>4, <1>5, <1>6, <1>7

(* Every step passes over a letter, reads, fails, ends or begins again.    *)
LEMMA Steps ==
  ASSUME TypeInv, Next
  PROVE  Skip \/ (\E c : Reads(c)) \/ Fails \/ ParseEnd \/ Rewrite
BY ParsingReads, ParsingFails DEF Next, ParseCommand

-----------------------------------------------------------------------------
LEMMA BareIs ==
  ASSUME NEW p \in Seq(CommandType)
  PROVE  /\ Bare(p) \in Seq(CommandType) /\ Len(Bare(p)) = Len(p)
         /\ \A i \in 1..Len(p) : Bare(p)[i] = Alone(p[i])
<1>1. Len(p) \in Nat /\ DOMAIN p = 1..Len(p) /\ \A i \in 1..Len(p) : p[i] \in CommandType
  BY LenProperties, ElementOfSeq
<1>2. Bare(p) = [i \in 1..Len(p) |-> Alone(p[i])]
  BY <1>1 DEF Bare, Alone
<1>3. \A i \in 1..Len(p) : Alone(p[i]) \in CommandType
  BY <1>1, AloneIs
<1>4. PICK b : b = Bare(p)
  OBVIOUS
<1>5. [i \in 1..Len(p) |-> Alone(p[i])] \in Seq(CommandType)
  BY <1>1, <1>3, IsASeq
<1>6. b \in Seq(CommandType)
  BY <1>2, <1>4, <1>5
<1>7. DOMAIN b = 1..Len(p) /\ \A i \in 1..Len(p) : b[i] = Alone(p[i])
  BY <1>2, <1>4
<1>8. Len(b) = Len(p)
  <2>1. Len(b) \in Nat /\ DOMAIN b = 1..Len(b)
    BY <1>6, LenProperties
  <2>2. \A m, n \in Nat : 1..m = 1..n => m = n
    <3> TAKE m, n \in Nat
    <3>1. HAVE 1..m = 1..n
    <3>2. CASE m < n
      <4>1. n \in 1..n /\ n \notin 1..m
        BY <3>2
      <4> QED BY <3>1, <4>1
    <3>3. CASE n < m
      <4>1. m \in 1..m /\ m \notin 1..n
        BY <3>3
      <4> QED BY <3>1, <4>1
    <3> QED BY <3>2, <3>3
  <2> QED BY <1>1, <1>7, <2>1, <2>2, Zenon
<1> QED BY <1>4, <1>6, <1>7, <1>8

LEMMA WrittenAllIs ==
  ASSUME NEW p \in Seq(CommandType)
  PROVE  WrittenAll(p) \in Seq(Characters)
<1>1. Len(p) \in Nat /\ Wrote(p, Writing(p))
  BY LenProperties, WritingIs
<1>2. Len(p) \in 0..Len(p)
  BY <1>1
<1> QED BY <1>1, <1>2 DEF Wrote, WrittenAll

(* Nothing has been read.                                                  *)
LEMMA NoneRead == Formed(<<>>) /\ \A n \in Nat : VectorOf(<<>>, n)
<1>1. \A S : <<>> \in Seq(S) /\ Len(<<>>) = 0
  BY EmptySeq
<1>2. \A i \in 1..0 : FALSE
  OBVIOUS
<1>3. Formed(<<>>)
  BY <1>1, <1>2 DEF Formed
<1>4. DOMAIN <<>> = {}
  OBVIOUS
<1>5. Ordered(<<>>)
  BY <1>4 DEF Ordered
<1> QED BY <1>1, <1>3, <1>5 DEF VectorOf

LEMMA TypeInit == Init => TypeInv
<1>1. ASSUME NEW t \in Seq(Characters), Start(t) PROVE TypeInv
  <2>1. text = t /\ ptr = 1 /\ read = <<>> /\ sequence = <<>> /\ status = "parsing" /\ listenmode = FALSE
    BY <1>1 DEF Start
  <2>2. Len(t) \in Nat /\ Len(<<>>) = 0
    BY LenProperties, EmptySeq
  <2>3. ptr \in 1..Len(text) + 1
    BY <2>1, <2>2
  <2>4. VectorOf(sequence, Len(read)) /\ Formed(read)
    BY <2>1, <2>2, NoneRead
  <2> QED BY <1>1, <2>1, <2>3, <2>4 DEF TypeInv
<1>2. \A t \in Texts : t \in Seq(Characters)
  BY SyntaxAssumption
<1>3. \A p \in Programs : WrittenAll(p) \in Seq(Characters)
  BY SyntaxAssumption, WrittenAllIs DEF Sensible
<1> QED BY <1>1, <1>2, <1>3 DEF Init

(* What is known of a command that is read.                                *)
LEMMA ReadIs ==
  ASSUME TypeInv, NEW c, Reads(c)
  PROVE  /\ WellFormed(c) /\ c.op = text[ptr] /\ VectorOf(c.looped, Len(read))
         /\ Len(read') = Len(read) + 1 /\ read'[Len(read) + 1] = c
         /\ \A i \in 1..Len(read) : read'[i] = read[i]
<1>1. ptr \in 1..Len(text) /\ text \in Seq(Characters) /\ c \in CommandType
      /\ ParsesTo(text[ptr], arg, Alone(c)) /\ read' = Append(read, c)
  BY DEF Reads, Takes, TypeInv
<1>2. arg \in Seq(ArgLetters)
  BY <1>1, ArgIs
<1>3. WellFormed(Alone(c)) /\ Alone(c).op = text[ptr]
  BY <1>1, <1>2, ParsesFormed
<1>4. WellFormed(c) /\ c.op = text[ptr]
  BY <1>1, <1>3, AloneIs
<1>5. read \in Seq(CommandType) /\ sequence \in Seq(1..Len(read)) /\ VectorOf(sequence, Len(read))
  BY DEF TypeInv, Formed, VectorOf
<1>6. Len(read) \in Nat /\ Inner(read, sequence, c.name) \in 0..Len(sequence)
  BY <1>5, LenProperties, InnerIs
<1>7. VectorOf(From(sequence, Inner(read, sequence, c.name) + 1), Len(read)) /\ VectorOf(<<>>, Len(read))
  BY <1>5, <1>6, OrderedTake, NoneRead
<1>8. VectorOf(c.looped, Len(read))
  BY <1>7 DEF Reads
<1> QED BY <1>1, <1>4, <1>5, <1>8, AppendProperties

LEMMA TypeStep == TypeInv /\ [Next]_vars => TypeInv'
<1> SUFFICES ASSUME TypeInv, [Next]_vars PROVE TypeInv'
  OBVIOUS
<1>1. /\ text \in Seq(Characters) /\ ptr \in 1..Len(text) + 1 /\ listenmode \in BOOLEAN
      /\ status \in {"parsing", "done", "rejected"}
      /\ Formed(read) /\ VectorOf(sequence, Len(read)) /\ Len(text) \in Nat /\ Len(read) \in Nat
  BY LenProperties DEF TypeInv, Formed
<1>2. CASE UNCHANGED vars
  BY <1>1, <1>2 DEF vars, TypeInv
<1>3. CASE Skip
  <2>1. ptr' \in 1..Len(text) + 1
    BY <1>1, <1>3 DEF Skip
  <2> QED BY <1>1, <1>3, <2>1 DEF Skip, TypeInv
<1>4. ASSUME NEW c, Reads(c) PROVE TypeInv'
  <2>1. WellFormed(c) /\ VectorOf(c.looped, Len(read)) /\ Len(read') = Len(read) + 1
    BY <1>4, ReadIs
  <2>2. Formed(read')
    BY <1>1, <1>4, <2>1, FormedAppend DEF Reads
  <2>3. VectorOf(sequence', Len(read'))
    BY <1>1, <1>4, <2>1, PushedOrdered DEF Reads
  <2>4. ptr' \in 1..Len(text) + 1
    <3>1. ptr \in 1..Len(text) /\ ptr' = Stop
      BY <1>4 DEF Reads, Takes
    <3>2. Stop \in ptr + 1..Len(text) + 1
      BY <1>1, <3>1, StopIs
    <3> QED BY <1>1, <3>1, <3>2
  <2>5. listenmode' \in BOOLEAN
    BY <1>4 DEF Reads
  <2>6. text' = text /\ status' = status
    BY <1>4 DEF Reads
  <2> QED BY <1>1, <2>2, <2>3, <2>4, <2>5, <2>6 DEF TypeInv
<1>5. CASE Fails
  <2>1. VectorOf(sequence', Len(read))
    BY <1>1, <1>5, NoneRead DEF Fails
  <2> QED BY <1>1, <1>5, <2>1 DEF Fails, TypeInv
<1>6. CASE ParseEnd
  BY <1>1, <1>6 DEF ParseEnd, TypeInv
<1>7. CASE Rewrite
  <2>1. /\ text' = WrittenAll(Bare(read)) /\ ptr' = 1 /\ read' = <<>> /\ sequence' = <<>>
        /\ status' = "parsing" /\ listenmode' = FALSE
    BY <1>7 DEF Rewrite
  <2>2. Bare(read) \in Seq(CommandType)
    BY <1>1, BareIs DEF Formed
  <2>3. text' \in Seq(Characters)
    BY <2>1, <2>2, WrittenAllIs
  <2>4. Len(text') \in Nat /\ Len(<<>>) = 0
    BY <2>3, LenProperties, EmptySeq
  <2>5. ptr' \in 1..Len(text') + 1
    BY <2>1, <2>4
  <2>6. Formed(read') /\ VectorOf(sequence', Len(read'))
    BY <2>1, <2>4, NoneRead
  <2> QED BY <2>1, <2>3, <2>5, <2>6 DEF TypeInv
<1> QED BY <1>2, <1>3, <1>4, <1>5, <1>6, <1>7, Steps

(* The pointer stays in the text, every command is well formed, and the    *)
(* vectors hold commands in the order of the text.                         *)
THEOREM TypeCorrect == Spec => []TypeOK
<1>1. Spec => []TypeInv
  BY TypeInit, TypeStep, PTL DEF Spec
<1>2. TypeInv => TypeOK
  BY TypeInvIs
<1> QED BY <1>1, <1>2, PTL

-----------------------------------------------------------------------------
(* The letters before position p that open a phrase.                       *)
Seen(t, p) == {k \in Opening(t) : k < p}

LEMMA SeenIs ==
  ASSUME NEW t \in Seq(Characters), NEW p \in Nat
  PROVE  /\ IsFiniteSet(Seen(t, p)) /\ Cardinality(Seen(t, p)) \in Nat
         /\ Seen(t, 1) = {} /\ Seen(t, Len(t) + 1) = Opening(t)
<1>1. Len(t) \in Nat /\ DOMAIN t = 1..Len(t)
  BY LenProperties
<1>2. Opening(t) \subseteq 1..Len(t)
  BY <1>1 DEF Opening
<1>3. IsFiniteSet(1..Len(t))
  BY <1>1, FS_Interval
<1>4. Seen(t, p) \in SUBSET (1..Len(t))
  BY <1>2 DEF Seen
<1>5. IsFiniteSet(Seen(t, p))
  BY <1>3, <1>4, FS_Subset
<1>6. Cardinality(Seen(t, p)) \in Nat
  BY <1>5, FS_CardinalityType
<1>7. \A k \in 1..Len(t) : ~ k < 1 /\ k < Len(t) + 1
  BY <1>1
<1>8. Seen(t, 1) = {} /\ Seen(t, Len(t) + 1) = Opening(t)
  BY <1>2, <1>7 DEF Seen
<1> QED BY <1>5, <1>6, <1>8

(* Behind the letter of a command there is a ';', or the text ends.        *)
Ended(t, p) ==
  \A j \in 1..p - 1 : t[j] \in Letters =>
    p = Len(t) + 1 \/ \E m \in j + 1..p : t[m] = Semicolon

(* One command has been read for each phrase so far.                       *)
PhraseInv ==
  status # "rejected" =>
    /\ Ended(text, ptr) /\ Len(read) = Cardinality(Seen(text, ptr))
    /\ status = "done" => ptr = Len(text) + 1

LEMMA PhraseInit == Init => PhraseInv
<1> SUFFICES ASSUME Init PROVE PhraseInv
  OBVIOUS
<1>1. TypeInv
  BY TypeInit
<1>2. ptr = 1 /\ read = <<>> /\ status = "parsing" /\ text \in Seq(Characters)
  BY <1>1 DEF Init, Start, TypeInv
<1>3. Cardinality({}) = 0 /\ Len(<<>>) = 0 /\ Seen(text, 1) = {}
  BY <1>2, FS_EmptySet, EmptySeq, SeenIs
<1>4. \A j \in 1..1 - 1 : FALSE
  OBVIOUS
<1>5. Ended(text, 1)
  BY <1>4 DEF Ended
<1> QED BY <1>2, <1>3, <1>5 DEF PhraseInv

(* A letter that starts no command opens no phrase.                        *)
LEMMA SkipPhrase ==
  ASSUME NEW t \in Seq(Characters), NEW p \in 1..Len(t), t[p] \notin Letters, Ended(t, p)
  PROVE  Ended(t, p + 1) /\ Seen(t, p + 1) = Seen(t, p)
<1>1. Len(t) \in Nat /\ p \in Nat /\ p # Len(t) + 1 /\ p <= Len(t)
  BY LenProperties
<1>2. ASSUME NEW j \in 1..(p + 1) - 1, t[j] \in Letters
      PROVE  \E m \in j + 1..p + 1 : t[m] = Semicolon
  <2>1. j # p
    BY <1>2
  <2>2. j \in 1..p - 1
    BY <1>1, <2>1
  <2>3. PICK m \in j + 1..p : t[m] = Semicolon
    BY <1>1, <1>2, <2>2 DEF Ended
  <2>4. m \in j + 1..p + 1
    BY <1>1, <2>2
  <2> QED BY <2>3, <2>4
<1>3. Ended(t, p + 1)
  BY <1>2 DEF Ended
<1>4. \A k \in Opening(t) : k \in 1..Len(t) /\ t[k] \in Letters
  BY LenProperties DEF Opening
<1>5. \A k \in Opening(t) : k # p /\ k \in Int
  BY <1>4
<1>6. \A k \in Opening(t) : k < p + 1 <=> k < p
  BY <1>1, <1>5
<1> QED BY <1>3, <1>6 DEF Seen

(* A command opens a phrase, and nothing in its argument does.             *)
LEMMA ReadPhrase ==
  ASSUME NEW t \in Seq(Characters), NEW p \in 1..Len(t), NEW q \in p + 1..Len(t) + 1,
         t[p] \in Letters, Ended(t, p),
         \A i \in p + 1..Len(t) : i < q => t[i] # Semicolon,
         q <= Len(t) => t[q] = Semicolon
  PROVE  /\ Ended(t, q)
         /\ Cardinality(Seen(t, q)) = Cardinality(Seen(t, p)) + 1
<1>1. Len(t) \in Nat /\ p \in Nat /\ q \in Nat /\ p # Len(t) + 1 /\ p < q /\ DOMAIN t = 1..Len(t)
  BY LenProperties
<1>2. ASSUME NEW j \in 1..q - 1, t[j] \in Letters, q # Len(t) + 1
      PROVE  \E m \in j + 1..q : t[m] = Semicolon
  <2>1. q <= Len(t) /\ q \in j + 1..q
    BY <1>1, <1>2
  <2> QED BY <2>1
<1>3. Ended(t, q)
  BY <1>2 DEF Ended
<1>4. p \in Opening(t)
  <2>1. ASSUME NEW j \in 1..p - 1, t[j] \in Letters
        PROVE  \E m \in j + 1..p : t[m] = Semicolon
    BY <1>1, <2>1 DEF Ended
  <2> QED BY <1>1, <2>1 DEF Opening
<1>5. ASSUME NEW k \in Opening(t), p < k, k < q PROVE FALSE
  <2>1. k \in 1..Len(t) /\ p \in 1..k - 1
    BY <1>1, <1>5 DEF Opening
  <2>2. PICK m \in p + 1..k : t[m] = Semicolon
    BY <2>1 DEF Opening
  <2>3. m \in p + 1..Len(t) /\ m < q
    BY <1>1, <1>5, <2>1
  <2> QED BY <2>2, <2>3
<1>6. \A k \in Opening(t) : k \in Int
  BY <1>1 DEF Opening
<1>7. \A k \in Opening(t) : k < q <=> k < p \/ k = p
  BY <1>1, <1>5, <1>6
<1>8. Seen(t, q) = Seen(t, p) \cup {p}
  BY <1>4, <1>7 DEF Seen
<1>9. p \notin Seen(t, p)
  BY <1>1 DEF Seen
<1>10. IsFiniteSet(Seen(t, p))
  BY <1>1, SeenIs
<1>11. Cardinality(Seen(t, q)) = Cardinality(Seen(t, p)) + 1
  BY <1>8, <1>9, <1>10, FS_AddElement
<1> QED BY <1>3, <1>11

(* Commands and phrases are counted alike by every step.                   *)
LEMMA PhraseStep == TypeInv /\ PhraseInv /\ [Next]_vars => PhraseInv'
<1> SUFFICES ASSUME TypeInv, PhraseInv, [Next]_vars PROVE PhraseInv'
  OBVIOUS
<1>1. text \in Seq(Characters) /\ ptr \in 1..Len(text) + 1 /\ Len(text) \in Nat
  BY LenProperties DEF TypeInv
<1>2. CASE UNCHANGED vars
  BY <1>2 DEF vars, PhraseInv
<1>3. CASE Skip
  <2>1. /\ status = "parsing" /\ ptr <= Len(text) /\ text[ptr] \notin Letters /\ ptr' = ptr + 1
        /\ text' = text /\ read' = read /\ status' = status
    BY <1>3 DEF Skip
  <2>2. ptr \in 1..Len(text)
    BY <1>1, <2>1
  <2>3. Ended(text, ptr + 1) /\ Seen(text, ptr + 1) = Seen(text, ptr)
    BY <1>1, <2>1, <2>2, SkipPhrase DEF PhraseInv
  <2> QED BY <2>1, <2>3 DEF PhraseInv
<1>4. ASSUME NEW c, Reads(c) PROVE PhraseInv'
  <2>1. /\ status = "parsing" /\ ptr \in 1..Len(text) /\ text[ptr] \in Letters /\ ptr' = Stop
        /\ text' = text /\ status' = status
    BY <1>4 DEF Reads, Takes
  <2>2. Ended(text, ptr) /\ Len(read) = Cardinality(Seen(text, ptr))
    BY <2>1 DEF PhraseInv
  <2>3. PICK q : q = Stop
    OBVIOUS
  <2>4. /\ q \in ptr + 1..Len(text) + 1
        /\ \A i \in ptr + 1..Len(text) : i < q => text[i] # Semicolon
        /\ q <= Len(text) => text[q] = Semicolon
    BY <1>1, <2>1, <2>3, StopIs
  <2>5. Ended(text, q) /\ Cardinality(Seen(text, q)) = Cardinality(Seen(text, ptr)) + 1
    BY <1>1, <2>1, <2>2, <2>4, ReadPhrase
  <2>6. Len(read') = Len(read) + 1
    BY <1>4, ReadIs
  <2> QED BY <2>1, <2>2, <2>3, <2>5, <2>6 DEF PhraseInv
<1>5. CASE Fails
  BY <1>5 DEF Fails, PhraseInv
<1>6. CASE ParseEnd
  BY <1>1, <1>6 DEF ParseEnd, PhraseInv
<1>7. CASE Rewrite
  <2>1. TypeInv'
    BY TypeStep
  <2>2. ptr' = 1 /\ read' = <<>> /\ status' = "parsing" /\ text' \in Seq(Characters)
    BY <1>7, <2>1 DEF Rewrite, TypeInv
  <2>3. Cardinality({}) = 0 /\ Len(<<>>) = 0 /\ Seen(text', 1) = {}
    BY <2>2, FS_EmptySet, EmptySeq, SeenIs
  <2>4. \A j \in 1..1 - 1 : FALSE
    OBVIOUS
  <2>5. Ended(text', 1)
    BY <2>4 DEF Ended
  <2> QED BY <2>2, <2>3, <2>5 DEF PhraseInv
<1> QED BY <1>2, <1>3, <1>4, <1>5, <1>6, <1>7, Steps

-----------------------------------------------------------------------------
(* The number n is in the vector v.                                        *)
InVector(v, n) == \E i \in DOMAIN v : v[i] = n

(* The n-th command is in the vector of the script (h is 0) or in that of  *)
(* the loop number h, and in no other.                                     *)
HeldBy(r, v, n, h) ==
  \/ h = 0 /\ InVector(v, n) /\ \A i \in 1..Len(r) : ~ InVector(r[i].looped, n)
  \/ /\ h \in 1..Len(r) /\ ~ InVector(v, n)
     /\ \A i \in 1..Len(r) : InVector(r[i].looped, n) <=> i = h

Held(r, v) == \A n \in 1..Len(r) : \E h : HeldBy(r, v, n, h)

(* A loop takes over what is behind position k.                            *)
LEMMA SplitIs ==
  ASSUME NEW N \in Nat, NEW v, VectorOf(v, N), NEW k \in 0..Len(v)
  PROVE  /\ InVector(Append(SubSeq(v, 1, k), N + 1), N + 1)
         /\ ~ InVector(From(v, k + 1), N + 1) /\ ~ InVector(v, N + 1)
         /\ \A n \in 1..N :
              /\ InVector(v, n) => (InVector(Append(SubSeq(v, 1, k), N + 1), n)
                                      <=> ~ InVector(From(v, k + 1), n))
              /\ ~ InVector(v, n) => /\ ~ InVector(Append(SubSeq(v, 1, k), N + 1), n)
                                     /\ ~ InVector(From(v, k + 1), n)
<1>1. v \in Seq(1..N) /\ \A i, j \in DOMAIN v : i < j => v[i] < v[j]
  BY DEF VectorOf, Ordered
<1>2. Len(v) \in Nat /\ DOMAIN v = 1..Len(v) /\ \A i \in 1..Len(v) : v[i] \in 1..N
  BY <1>1, LenProperties, ElementOfSeq
<1>3. PICK w : w = Append(SubSeq(v, 1, k), N + 1)
  OBVIOUS
<1>4. PICK f : f = From(v, k + 1)
  OBVIOUS
<1>5. k \in Nat /\ k + 1 \in 1..Len(v) + 1
  BY <1>2
<1>6. SubSeq(v, 1, k) \in Seq(1..N) /\ Len(SubSeq(v, 1, k)) = k
      /\ \A i \in 1..k : SubSeq(v, 1, k)[i] = v[i]
  BY <1>1, TakeIs
<1>7. 1..N \subseteq Nat /\ N + 1 \in Nat
  OBVIOUS
<1>8. SubSeq(v, 1, k) \in Seq(Nat)
  BY <1>6, <1>7, SeqMonotonic
<1>9. w \in Seq(Nat) /\ Len(w) = k + 1 /\ w[k + 1] = N + 1 /\ \A i \in 1..k : w[i] = v[i]
  BY <1>3, <1>6, <1>7, <1>8, AppendProperties
<1>10. DOMAIN w = 1..k + 1
  BY <1>9, LenProperties
<1>11. f \in Seq(1..N) /\ Len(f) = Len(v) + 1 - (k + 1)
       /\ \A i \in 1..Len(v) + 1 - (k + 1) : f[i] = v[(k + 1) + i - 1]
  BY <1>1, <1>4, <1>5, FromIs
<1>12. DOMAIN f = 1..Len(v) - k
  <2>1. \A x \in Nat : \A i \in Nat : x + 1 - (i + 1) = x - i
    OBVIOUS
  <2>2. Len(f) = Len(v) - k
    BY <1>2, <1>5, <1>11, <2>1, Zenon
  <2> QED BY <1>11, <2>2, LenProperties
<1>13. \A i \in DOMAIN f : k + i \in k + 1..Len(v) /\ f[i] = v[k + i]
  BY <1>2, <1>5, <1>11, <1>12
<1>14. \A j \in k + 1..Len(v) : j - k \in DOMAIN f /\ f[j - k] = v[j]
  BY <1>2, <1>5, <1>11, <1>12
<1>15. \A n : InVector(f, n) <=> \E j \in k + 1..Len(v) : v[j] = n
  <2> TAKE n
  <2>1. ASSUME InVector(f, n) PROVE \E j \in k + 1..Len(v) : v[j] = n
    BY <1>13, <2>1 DEF InVector
  <2>2. ASSUME NEW j \in k + 1..Len(v), v[j] = n PROVE InVector(f, n)
    BY <1>14, <2>2 DEF InVector
  <2> QED BY <2>1, <2>2
<1>16. \A n \in 1..N : InVector(w, n) <=> \E j \in 1..k : v[j] = n
  <2> TAKE n \in 1..N
  <2>1. \A i \in 1..k + 1 : i = k + 1 \/ i \in 1..k
    BY <1>5
  <2>2. \A i \in 1..k : i \in 1..k + 1
    BY <1>5
  <2>3. N + 1 # n
    OBVIOUS
  <2>4. ASSUME InVector(w, n) PROVE \E j \in 1..k : v[j] = n
    BY <1>9, <1>10, <2>1, <2>3, <2>4 DEF InVector
  <2>5. ASSUME NEW j \in 1..k, v[j] = n PROVE InVector(w, n)
    BY <1>9, <1>10, <2>2, <2>5 DEF InVector
  <2> QED BY <2>4, <2>5
<1>17. InVector(w, N + 1)
  <2>1. k + 1 \in 1..k + 1
    BY <1>5
  <2> QED BY <1>9, <1>10, <2>1 DEF InVector
<1>18. \A n : InVector(v, n) <=> \E j \in 1..Len(v) : v[j] = n
  BY <1>2 DEF InVector
<1>19. \A j \in 1..Len(v) : j \in 1..k \/ j \in k + 1..Len(v)
  BY <1>2, <1>5
<1>20. \A j \in 1..k : j \in 1..Len(v) /\ \A m \in k + 1..Len(v) : j < m /\ m \in 1..Len(v)
  BY <1>2, <1>5
<1>21. \A j \in k + 1..Len(v) : j \in 1..Len(v)
  BY <1>2, <1>5
<1>22. \A j \in 1..Len(v) : v[j] # N + 1
  BY <1>2
<1>23. ~ InVector(f, N + 1) /\ ~ InVector(v, N + 1)
  BY <1>15, <1>18, <1>21, <1>22
<1>24. ASSUME NEW n \in 1..N, InVector(v, n)
       PROVE  InVector(w, n) <=> ~ InVector(f, n)
  <2>1. PICK j \in 1..Len(v) : v[j] = n
    BY <1>18, <1>24
  <2>2. InVector(w, n) \/ InVector(f, n)
    BY <1>15, <1>16, <1>19, <2>1
  <2>3. ASSUME InVector(w, n), InVector(f, n) PROVE FALSE
    <3>1. PICK i \in 1..k : v[i] = n
      BY <1>16, <2>3
    <3>2. PICK m \in k + 1..Len(v) : v[m] = n
      BY <1>15, <2>3
    <3>3. v[i] < v[m]
      BY <1>1, <1>2, <1>20
    <3> QED BY <3>1, <3>2, <3>3
  <2> QED BY <2>2, <2>3
<1>25. ASSUME NEW n \in 1..N, ~ InVector(v, n)
       PROVE  ~ InVector(w, n) /\ ~ InVector(f, n)
  BY <1>15, <1>16, <1>18, <1>20, <1>21, <1>25
<1> QED BY <1>3, <1>4, <1>17, <1>23, <1>24, <1>25

LEMMA HeldSplit ==
  ASSUME NEW r, Formed(r), NEW v, VectorOf(v, Len(r)), Held(r, v), NEW k \in 0..Len(v),
         NEW s, Len(s) = Len(r) + 1, \A i \in 1..Len(r) : s[i] = r[i],
         s[Len(r) + 1].looped = From(v, k + 1)
  PROVE  Held(s, Append(SubSeq(v, 1, k), Len(r) + 1))
<1>1. PICK N : N = Len(r)
  OBVIOUS
<1>2. N \in Nat /\ VectorOf(v, N)
  BY <1>1, LenProperties DEF Formed
<1>3. PICK w : w = Append(SubSeq(v, 1, k), N + 1)
  OBVIOUS
<1>4. PICK f : f = From(v, k + 1)
  OBVIOUS
<1>5. /\ InVector(w, N + 1) /\ ~ InVector(f, N + 1) /\ ~ InVector(v, N + 1)
      /\ \A n \in 1..N :
           /\ InVector(v, n) => (InVector(w, n) <=> ~ InVector(f, n))
           /\ ~ InVector(v, n) => ~ InVector(w, n) /\ ~ InVector(f, n)
  BY <1>2, <1>3, <1>4, SplitIs
<1>6. /\ Len(s) = N + 1 /\ \A i \in 1..N : s[i] = r[i] 
      /\ s[N + 1].looped = f
  BY <1>1, <1>4
<1>7. \A i \in 1..N + 1 : i = N + 1 \/ i \in 1..N
  BY <1>2
<1>8. N + 1 \in 1..N + 1 /\ N + 1 # 0 /\ N + 1 \notin 1..N /\ \A i \in 1..N : i \in 1..N + 1
  BY <1>2
<1>9. ASSUME NEW i \in 1..N PROVE ~ InVector(s[i].looped, N + 1)
  <2>1. s[i].looped \in Seq(1..i - 1)
    BY <1>1, <1>6 DEF Formed, VectorOf
  <2>2. \A x \in 1..i - 1 : x # N + 1
    BY <1>2
  <2>3. DOMAIN s[i].looped = 1..Len(s[i].looped)
    BY <2>1, LenProperties
  <2>4. \A x \in DOMAIN s[i].looped : s[i].looped[x] \in 1..i - 1
    BY <2>1, <2>3, ElementOfSeq
  <2> QED BY <2>2, <2>4 DEF InVector
<1>10. ASSUME NEW n \in 1..N + 1 PROVE \E h : HeldBy(s, w, n, h)
  <2>1. CASE n = N + 1
    <3>1. HeldBy(s, w, n, 0)
      BY <1>5, <1>6, <1>7, <1>9, <2>1 DEF HeldBy
    <3> QED BY <3>1
  <2>2. CASE n \in 1..N
    <3>1. PICK h : HeldBy(r, v, n, h)
      BY <1>1, <2>2 DEF Held
    <3>2. CASE h = 0 /\ InVector(v, n) /\ \A i \in 1..N : ~ InVector(r[i].looped, n)
      <4>1. \A i \in 1..N : ~ InVector(s[i].looped, n)
        BY <1>6, <3>2
      <4>2. CASE InVector(w, n)
        <5>1. HeldBy(s, w, n, 0)
          BY <1>5, <1>6, <1>7, <2>2, <3>2, <4>1, <4>2 DEF HeldBy
        <5> QED BY <5>1
      <4>3. CASE ~ InVector(w, n)
        <5>1. InVector(f, n)
          BY <1>5, <2>2, <3>2, <4>3
        <5>2. HeldBy(s, w, n, N + 1)
          BY <1>6, <1>7, <1>8, <4>1, <4>3, <5>1 DEF HeldBy
        <5> QED BY <5>2
      <4> QED BY <4>2, <4>3
    <3>3. CASE /\ h \in 1..N /\ ~ InVector(v, n)
               /\ \A i \in 1..N : InVector(r[i].looped, n) <=> i = h
      <4>1. ~ InVector(w, n) /\ ~ InVector(f, n)
        BY <1>5, <2>2, <3>3
      <4>2. \A i \in 1..N : InVector(s[i].looped, n) <=> i = h
        BY <1>6, <3>3
      <4>3. h \in 1..N + 1 /\ h # N + 1
        BY <1>8, <3>3
      <4>4. \A i \in 1..N + 1 : InVector(s[i].looped, n) <=> i = h
        BY <1>6, <1>7, <4>1, <4>2, <4>3
      <4>5. HeldBy(s, w, n, h)
        BY <1>6, <4>1, <4>3, <4>4 DEF HeldBy
      <4> QED BY <4>5
    <3> QED BY <1>1, <3>1, <3>2, <3>3 DEF HeldBy
  <2> QED BY <1>7, <2>1, <2>2
<1> QED BY <1>1, <1>3, <1>6, <1>10 DEF Held

HolderInv == status # "rejected" => Held(read, sequence)

(* A command that is read is put behind the label of the vector.           *)
LEMMA ReadPushes ==
  ASSUME TypeInv, NEW c, Reads(c)
  PROVE  \E k \in 0..Len(sequence) :
           /\ sequence' = Append(SubSeq(sequence, 1, k), Len(read) + 1)
           /\ c.looped = From(sequence, k + 1)
<1>1. sequence \in Seq(1..Len(read)) /\ VectorOf(sequence, Len(read)) /\ read \in Seq(CommandType)
  BY DEF TypeInv, VectorOf, Formed
<1>2. Len(read) \in Nat /\ Len(sequence) \in Nat
  BY <1>1, LenProperties
<1>3. PICK n : n = Len(read)
  OBVIOUS
<1>4. read'[n + 1] = c /\ \A i \in 1..n : read'[i] = read[i]
  BY <1>3, ReadIs
<1>5. sequence' = Pushed(read', sequence, n + 1)
  BY <1>3 DEF Reads
<1>6. CASE c.op = "j"
  <2>1. PICK k : k = Inner(read, sequence, c.name)
    OBVIOUS
  <2>2. k \in 0..Len(sequence)
    BY <1>1, <2>1, InnerIs
  <2>3. Agree(read', read, n)
    BY <1>4 DEF Agree
  <2>4. Named(read', sequence, c.name) = Named(read, sequence, c.name)
    BY <1>1, <1>2, <1>3, <2>3, NamedAgree
  <2>5. Inner(read', sequence, c.name) = k
    BY <2>1, <2>4 DEF Inner
  <2>6. sequence' = Append(SubSeq(sequence, 1, k), n + 1)
    BY <1>4, <1>5, <1>6, <2>5 DEF Pushed
  <2>7. c.looped = From(sequence, k + 1)
    BY <1>6, <2>1 DEF Reads
  <2> QED BY <1>3, <2>2, <2>6, <2>7
<1>7. CASE c.op # "j"
  <2>1. PICK k : k = Len(sequence)
    OBVIOUS
  <2>2. k \in 0..Len(sequence) /\ k \in Nat
    BY <1>2, <2>1
  <2>3. SubSeq(sequence, 1, k) = sequence
    BY <1>1, <2>1, SubSeqFull
  <2>4. From(sequence, k + 1) = <<>>
    <3>1. k + 1 \in 1..Len(sequence) + 1 /\ Len(sequence) + 1 - (k + 1) = 0
      BY <2>1, <2>2
    <3>2. From(sequence, k + 1) \in Seq(1..Len(read)) /\ Len(From(sequence, k + 1)) = 0
      BY <1>1, <3>1, FromIs
    <3> QED BY <3>2, EmptySeq
  <2>5. c.looped = <<>>
    BY <1>7 DEF Reads
  <2>6. sequence' = Append(sequence, n + 1)
    BY <1>4, <1>5, <1>7 DEF Pushed
  <2> QED BY <1>3, <2>2, <2>3, <2>4, <2>5, <2>6
<1> QED BY <1>6, <1>7

(* Every step leaves each command in one vector.                           *)
LEMMA HolderStep == TypeInv /\ HolderInv /\ [Next]_vars => HolderInv'
<1> SUFFICES ASSUME TypeInv, HolderInv, [Next]_vars PROVE HolderInv'
  OBVIOUS
<1>1. CASE UNCHANGED vars
  BY <1>1 DEF vars, HolderInv
<1>2. CASE Skip
  BY <1>2 DEF Skip, HolderInv
<1>3. ASSUME NEW c, Reads(c) PROVE HolderInv'
  <2>1. PICK k \in 0..Len(sequence) :
          /\ sequence' = Append(SubSeq(sequence, 1, k), Len(read) + 1)
          /\ c.looped = From(sequence, k + 1)
    BY <1>3, ReadPushes
  <2>2. /\ Len(read') = Len(read) + 1 /\ read'[Len(read) + 1] = c
        /\ \A i \in 1..Len(read) : read'[i] = read[i]
    BY <1>3, ReadIs
  <2>3. Formed(read) /\ VectorOf(sequence, Len(read)) /\ Held(read, sequence)
    BY <1>3 DEF TypeInv, HolderInv, Reads, Takes
  <2>4. read'[Len(read) + 1].looped = From(sequence, k + 1)
    BY <2>1, <2>2
  <2>5. Held(read', sequence')
    BY <2>1, <2>2, <2>3, <2>4, HeldSplit
  <2> QED BY <2>5 DEF HolderInv
<1>4. CASE Fails
  BY <1>4 DEF Fails, HolderInv
<1>5. CASE ParseEnd
  BY <1>5 DEF ParseEnd, HolderInv, TypeInv
<1>6. CASE Rewrite
  <2>1. read' = <<>> /\ Len(<<>>) = 0
    BY <1>6, EmptySeq DEF Rewrite
  <2>2. \A n \in 1..0 : FALSE
    OBVIOUS
  <2>3. Held(read', sequence')
    BY <2>1, <2>2 DEF Held
  <2> QED BY <2>3 DEF HolderInv
<1> QED BY <1>1, <1>2, <1>3, <1>4, <1>5, <1>6, Steps

LEMMA HolderInit == Init => HolderInv
<1> SUFFICES ASSUME Init PROVE HolderInv
  OBVIOUS
<1>1. read = <<>> /\ Len(<<>>) = 0
  BY EmptySeq DEF Init, Start
<1>2. \A n \in 1..0 : FALSE
  OBVIOUS
<1> QED BY <1>1, <1>2 DEF HolderInv, Held

(* The set of vectors that hold a command has one element.                 *)
LEMMA HoldersAre ==
  ASSUME TypeInv, Held(read, sequence), NEW n \in DOMAIN read
  PROVE  Cardinality(Holders(n)) = 1
<1>1. DOMAIN read = 1..Len(read) /\ Len(read) \in Nat
  BY LenProperties DEF TypeInv, Formed
<1>2. PICK h : HeldBy(read, sequence, n, h)
  BY <1>1 DEF Held
<1>3. \A i : i \in {x \in DOMAIN read : n \in ToSet(read[x].looped)}
               <=> i \in 1..Len(read) /\ InVector(read[i].looped, n)
  BY <1>1 DEF InVector, ToSet
<1>4. \A i : i \in {0 : x \in In(sequence, {n})} <=> i = 0 /\ InVector(sequence, n)
  BY DEF InVector, In
<1>5. \A i : i \in Holders(n) <=> \/ i \in 1..Len(read) /\ InVector(read[i].looped, n)
                                  \/ i = 0 /\ InVector(sequence, n)
  BY <1>3, <1>4 DEF Holders
<1>6. \A i : i \in Holders(n) <=> i = h
  BY <1>1, <1>2, <1>5 DEF HeldBy
<1>7. Holders(n) = {h}
  BY <1>6
<1> QED BY <1>7, FS_Singleton

(* A phrase between two ';' is at most one command, and it is one if there *)
(* is a letter of a command in it; and each command that has been read is  *)
(* in the vector of the script or in that of one loop.                     *)
THEOREM PhraseByPhrase == Spec => []OnePerPhrase
<1> DEFINE IInv == TypeInv /\ PhraseInv /\ HolderInv
<1>1. Init => IInv
  BY TypeInit, PhraseInit, HolderInit
<1>2. IInv /\ [Next]_vars => IInv'
  BY TypeStep, PhraseStep, HolderStep
<1>3. IInv => OnePerPhrase
  <2> SUFFICES ASSUME IInv, status = "done"
               PROVE  /\ Len(read) = Cardinality(Opening(text))
                      /\ \A n \in DOMAIN read : Cardinality(Holders(n)) = 1
    BY DEF OnePerPhrase
  <2>1. Len(read) = Cardinality(Seen(text, Len(text) + 1)) /\ Held(read, sequence)
    BY DEF PhraseInv, HolderInv
  <2>2. text \in Seq(Characters)
    BY DEF TypeInv
  <2>3. Seen(text, Len(text) + 1) = Opening(text)
    <3>1. 0 \in Nat
      OBVIOUS
    <3> QED BY <2>2, <3>1, SeenIs
  <2> QED BY <2>1, <2>3, HoldersAre
<1> HIDE DEF IInv
<1> QED BY <1>1, <1>2, <1>3, PTL DEF Spec

-----------------------------------------------------------------------------
(* Where two texts are joined.                                             *)
LEMMA JoinIs ==
  ASSUME NEW S, NEW s \in Seq(S), NEW t \in Seq(S)
  PROVE  /\ s \o t \in Seq(S) /\ Len(s) + 1 \in 1..Len(s \o t) + 1
         /\ Before(s \o t, Len(s) + 1) = s /\ From(s \o t, Len(s) + 1) = t
         /\ Len(s) <= Len(s \o t)
<1>1. PICK a : a = s \o t
  OBVIOUS
<1>2. PICK m : m = Len(s)
  OBVIOUS
<1>3. PICK n : n = Len(t)
  OBVIOUS
<1>4. /\ a \in Seq(S) /\ Len(a) = m + n
      /\ \A i \in 1..m + n : a[i] = IF i <= m THEN s[i] ELSE t[i - m]
  BY <1>1, <1>2, <1>3, ConcatProperties
<1>5. m \in Nat /\ n \in Nat
  BY <1>2, <1>3, LenProperties
<1>6. m + 1 \in 1..Len(a) + 1 /\ (m + 1) - 1 = m /\ Len(a) + 1 - (m + 1) = n /\ m <= Len(a)
  BY <1>4, <1>5
<1>7. /\ Before(a, m + 1) \in Seq(S) /\ Len(Before(a, m + 1)) = (m + 1) - 1
      /\ \A i \in 1..(m + 1) - 1 : Before(a, m + 1)[i] = a[i]
  BY <1>4, <1>6, BeforeIs
<1>8. \A i \in 1..m : i \in 1..m + n /\ i <= m
  BY <1>5
<1>9. \A i \in 1..m : Before(a, m + 1)[i] = s[i]
  BY <1>4, <1>6, <1>7, <1>8
<1>10. Before(a, m + 1) = s
  BY <1>2, <1>6, <1>7, <1>9, SeqEqual
<1>11. /\ From(a, m + 1) \in Seq(S) /\ Len(From(a, m + 1)) = n
       /\ \A i \in 1..n : From(a, m + 1)[i] = a[(m + 1) + i - 1]
  <2>1. /\ From(a, m + 1) \in Seq(S) /\ Len(From(a, m + 1)) = Len(a) + 1 - (m + 1)
        /\ \A i \in 1..Len(a) + 1 - (m + 1) : From(a, m + 1)[i] = a[(m + 1) + i - 1]
    BY <1>4, <1>6, FromIs
  <2> QED BY <1>6, <2>1
<1>12. \A i \in 1..n : (m + 1) + i - 1 \in 1..m + n /\ ~ (m + 1) + i - 1 <= m
                       /\ ((m + 1) + i - 1) - m = i
  BY <1>5
<1>13. \A i \in 1..n : From(a, m + 1)[i] = t[i]
  BY <1>4, <1>11, <1>12
<1>14. From(a, m + 1) = t
  BY <1>3, <1>11, <1>13, SeqEqual
<1> QED BY <1>1, <1>2, <1>4, <1>6, <1>10, <1>14

LEMMA FirstOfJoin ==
  ASSUME NEW S, NEW s \in Seq(S), NEW t \in Seq(S), NEW A,
         \A i \in 1..Len(s) : s[i] \notin A, t # <<>> => t[1] \in A
  PROVE  First(s \o t, A) = Len(s) + 1
<1>1. PICK a : a = s \o t
  OBVIOUS
<1>2. PICK m : m = Len(s)
  OBVIOUS
<1>3. PICK n : n = Len(t)
  OBVIOUS
<1>4. /\ a \in Seq(S) /\ Len(a) = m + n
      /\ \A i \in 1..m + n : a[i] = IF i <= m THEN s[i] ELSE t[i - m]
  BY <1>1, <1>2, <1>3, ConcatProperties
<1>5. m \in Nat /\ n \in Nat
  BY <1>2, <1>3, LenProperties
<1>6. m + 1 \in 1..Len(a) + 1
  BY <1>4, <1>5
<1>7. ASSUME NEW i \in 1..Len(a), i < m + 1 PROVE a[i] \notin A
  <2>1. i \in 1..m + n /\ i \in 1..m /\ i <= m
    BY <1>4, <1>5, <1>7
  <2> QED BY <1>2, <1>4, <2>1
<1>8. ASSUME m + 1 <= Len(a) PROVE a[m + 1] \in A
  <2>1. m + 1 \in 1..m + n /\ ~ m + 1 <= m /\ (m + 1) - m = 1 /\ n # 0
    BY <1>4, <1>5, <1>8
  <2>2. a[m + 1] = t[1]
    BY <1>4, <2>1
  <2>3. t # <<>>
    BY <1>3, <2>1, EmptySeq
  <2> QED BY <2>2, <2>3
<1>9. First(a, A) = m + 1
  BY <1>4, <1>6, <1>7, <1>8, FirstAt
<1> QED BY <1>1, <1>2, <1>9

LEMMA HeadIs ==
  ASSUME NEW S, NEW s \in Seq(S), s # <<>>
  PROVE  Len(s) \in Nat /\ 1 \in 1..Len(s) /\ Head(s) = s[1] /\ s[1] \in S
<1>1. Len(s) \in Nat /\ Len(s) # 0
  BY LenProperties, EmptySeq
<1>2. 1 \in 1..Len(s)
  BY <1>1
<1>3. s[1] \in S
  BY <1>2, ElementOfSeq
<1>4. Head(s) = s[1]
  BY HeadTailProperties
<1> QED BY <1>1, <1>2, <1>3, <1>4

(* What may stand in an argument.                                          *)
LEMMA ArgLettersAre ==
  /\ Digits \subseteq ArgLetters /\ OptionLetters \subseteq ArgLetters
  /\ {"w", "l"} \subseteq ArgLetters /\ ArgLetters \subseteq Characters
  /\ Letters \subseteq ArgLetters
<1>1. Letters \subseteq Characters /\ OptionLetters \subseteq Characters /\ ToneLetters \subseteq Characters
  BY SyntaxAssumption
<1>2. Digits \subseteq ToneLetters
  BY DEF ToneLetters
<1>3. {"w", "l"} \subseteq Letters
  BY DEF Letters
<1> QED BY <1>1, <1>2, <1>3, SemicolonApart DEF ArgLetters

(* A number that is written down.                                          *)
LEMMA DecimalFor ==
  ASSUME NEW n \in Nat
  PROVE  /\ Decimal(n) \in Seq(Digits) /\ Decimal(n) \in Seq(ArgLetters) /\ Decimal(n) # <<>>
         /\ Decimal(n)[1] \in Digits /\ Value(Decimal(n)) = n /\ AllIn(Decimal(n), Digits)
         /\ \A i \in 1..Len(Decimal(n)) : Decimal(n)[i] \notin Characters \ Digits
         /\ n > 0 => Head(Decimal(n)) # "0"
<1>1. PICK d : d = Decimal(n)
  OBVIOUS
<1>2. d \in Seq(Digits) /\ Value(d) = n /\ Len(d) > 0 /\ (n > 0 => d[1] # "0")
  BY <1>1, DecimalIs, DecimalReads
<1>3. d \in Seq(ArgLetters)
  BY <1>2, ArgLettersAre, SeqMonotonic
<1>4. d # <<>>
  <2>1. Len(<<>>) = 0
    BY EmptySeq
  <2> QED BY <1>2, <2>1
<1>5. d[1] \in Digits /\ Head(d) = d[1]
  BY <1>2, <1>4, HeadIs
<1>6. AllIn(d, Digits)
  BY <1>2, SeqAllIn
<1>7. \A i \in 1..Len(d) : d[i] \in Digits
  BY <1>2, ElementOfSeq
<1> QED BY <1>1, <1>2, <1>3, <1>4, <1>5, <1>6, <1>7

(* A command is what it is made of.                                        *)
LEMMA MadeSame ==
  ASSUME NEW c, NEW d, NEW op, NEW m, NEW k, NEW o, Made(c, op, m, k, o), Made(d, op, m, k, o)
  PROVE  c = d
<1>1. PICK e : e = <<>>
  OBVIOUS
<1>2. /\ c \in CommandType /\ c.op = op /\ c.name = m /\ c.num = k /\ c.opts = o /\ c.looped = e
      /\ d \in CommandType /\ d.op = op /\ d.name = m /\ d.num = k /\ d.opts = o /\ d.looped = e
  BY <1>1 DEF Made
<1> QED BY <1>2 DEF CommandType

(* A well formed command is made of what its record says.                  *)
LEMMA CommandOf ==
  ASSUME NEW c, WellFormed(c), c.looped = <<>>
  PROVE  /\ c = Command(c.op, c.name, c.num, c.opts)
         /\ c.op \in Letters /\ c.name \in Seq(ArgLetters) /\ c.num \in Nat
         /\ c.opts \in SUBSET OptionLetters
<1>1. /\ c \in CommandType /\ AllIn(c.name, Characters \ {Semicolon})
  BY DEF WellFormed
<1>2. /\ c.op \in Letters /\ c.name \in Seq(Characters) /\ c.num \in Nat
      /\ c.opts \in SUBSET OptionLetters
  BY <1>1 DEF CommandType
<1>3. c.name \in Seq(ArgLetters)
  BY <1>1, <1>2, SeqAllIn DEF ArgLetters
<1>4. Made(Command(c.op, c.name, c.num, c.opts), c.op, c.name, c.num, c.opts)
  BY <1>2, <1>3, CommandIs
<1>5. Made(c, c.op, c.name, c.num, c.opts)
  BY <1>1 DEF Made
<1> QED BY <1>2, <1>3, <1>4, <1>5, MadeSame

-----------------------------------------------------------------------------
(* The argument that is written for a command is read as this command.     *)
LEMMA CallReads ==
  ASSUME NEW c, WellFormed(c), c.looped = <<>>, c.op = "c"
  PROVE  ParsesTo("c", Arguments(c), c)
<1>1. /\ c = Command(c.op, c.name, c.num, c.opts) /\ c.name \in Seq(ArgLetters) /\ c.num \in Nat
  BY CommandOf
<1>2. /\ c.name # <<>> /\ c.num > 0 /\ AllIn(c.name, Characters \ {"w"}) /\ c.opts = {}
  BY DEF WellFormed, OptionsOf
<1>3. PICK x : x = c.name
  OBVIOUS
<1>4. PICK d : d = Decimal(c.num)
  OBVIOUS
<1>5. PICK a : a = Arguments(c)
  OBVIOUS
<1> DEFINE w == <<"w">>
<1>6. w \in Seq(ArgLetters) /\ Len(w) = 1 /\ w # <<>> /\ w[1] = "w"
  BY ArgLettersAre
<1>7. /\ d \in Seq(Digits) /\ d \in Seq(ArgLetters) /\ d # <<>> /\ Value(d) = c.num
      /\ AllIn(d, Digits) /\ Head(d) # "0"
  BY <1>1, <1>2, <1>4, DecimalFor
<1>8. a = (x \o w) \o d
  BY <1>3, <1>4, <1>5 DEF Arguments
<1> HIDE DEF w
<1>9. x \o w \in Seq(ArgLetters) /\ w \o d \in Seq(ArgLetters) /\ x \in Seq(ArgLetters)
  <2>1. x \in Seq(ArgLetters)
    BY <1>1, <1>3
  <2>2. x \o w \in Seq(ArgLetters)
    BY <2>1, <1>6, ConcatProperties
  <2>3. w \o d \in Seq(ArgLetters)
    BY <1>6, <1>7, ConcatProperties
  <2> QED BY <2>1, <2>2, <2>3
<1>10. a = x \o (w \o d)
  <2>1. (x \o w) \o d = x \o (w \o d)
    BY <1>6, <1>7, <1>9, ConcatAssociative
  <2> QED BY <1>8, <2>1
<1>11. (w \o d)[1] = "w"
  <2>1. 1 \in 1..Len(w) + Len(d) /\ 1 <= Len(w)
    <3>1. Len(d) \in Nat
      BY <1>7, LenProperties
    <3> QED BY <1>6, <3>1
  <2>2. (w \o d)[1] = w[1]
    BY <1>6, <1>7, <2>1, ConcatProperties
  <2> QED BY <1>6, <2>2
<1>12. \A i \in 1..Len(x) : x[i] \notin {"w"}
  <2>1. DOMAIN x = 1..Len(x)
    BY <1>9, LenProperties
  <2>2. \A i \in DOMAIN x : x[i] \in Characters \ {"w"}
    BY <1>2, <1>3, AllInIs
  <2> QED BY <2>1, <2>2
<1>13. First(a, {"w"}) = Len(x) + 1
  <2>1. (w \o d)[1] \in {"w"}
    BY <1>11
  <2> QED BY <1>9, <1>10, <1>12, <2>1, FirstOfJoin
<1>14. Party(a) = x
  <2>1. PICK y : y = w \o d
    OBVIOUS
  <2>2. x \in Seq(ArgLetters) /\ y \in Seq(ArgLetters)
    BY <1>9, <2>1
  <2>3. Before(x \o y, Len(x) + 1) = x
    BY <2>2, JoinIs
  <2> QED BY <1>10, <1>13, <2>1, <2>3 DEF Party
<1>15. Timeout(a) = d
  <2>1. From(a, Len(x \o w) + 1) = d
    <3>1. PICK y : y = x \o w
      OBVIOUS
    <3>2. y \in Seq(ArgLetters) /\ d \in Seq(ArgLetters)
      BY <1>7, <1>9, <3>1
    <3>3. From(y \o d, Len(y) + 1) = d
      BY <3>2, JoinIs
    <3> QED BY <1>8, <3>1, <3>3
  <2>2. Len(x \o w) = Len(x) + Len(w)
    BY <1>6, <1>9, ConcatProperties
  <2>3. Len(x \o w) = Len(x) + 1
    BY <1>6, <2>2
  <2> QED BY <1>13, <2>1, <2>3 DEF Timeout
<1>16. Party(a) # a
  <2>1. x \o (w \o d) = x => w \o d = <<>>
    BY <1>9, ConcatEqualIffEmpty
  <2>2. w \o d # <<>>
    BY <1>6, <1>7, ConcatEqualIffEmpty
  <2> QED BY <1>10, <1>14, <2>1, <2>2
<1>17. CallArgs(a)
  BY <1>2, <1>3, <1>7, <1>14, <1>15 DEF CallArgs
<1>18. CallOf(a) = c
  BY <1>1, <1>2, <1>3, <1>7, <1>14, <1>15, <1>16 DEF CallOf
<1> QED BY <1>5, <1>17, <1>18 DEF ParsesTo

LEMMA NameReads ==
  ASSUME NEW c, WellFormed(c), c.looped = <<>>, c.op \in {"a", "h", "d", "v", "l"}
  PROVE  ParsesTo(c.op, Arguments(c), c)
<1>1. c = Command(c.op, c.name, c.num, c.opts)
  BY CommandOf
<1>2. c.num = 0 /\ c.opts = {}
  BY DEF WellFormed, OptionsOf
<1>3. c = Command(c.op, c.name, 0, {})
  BY <1>1, <1>2
<1>4. CASE c.op = "h"
  <2>1. c.name = <<>>
    BY <1>4 DEF WellFormed
  <2> QED BY <1>3, <1>4, <2>1 DEF ParsesTo
<1>5. CASE c.op = "a"
  <2>1. Arguments(c) = c.name
    BY <1>5 DEF Arguments
  <2> QED BY <1>3, <1>5, <2>1 DEF ParsesTo
<1>6. CASE c.op = "d"
  <2>1. Arguments(c) = c.name /\ ToneArgs(c.name)
    BY <1>6 DEF Arguments, WellFormed, ToneArgs
  <2> QED BY <1>3, <1>6, <2>1 DEF ParsesTo
<1>7. CASE c.op \in {"v", "l"}
  <2>1. Arguments(c) = c.name /\ c.name # <<>>
    BY <1>7 DEF Arguments, WellFormed
  <2> QED BY <1>3, <1>7, <2>1 DEF ParsesTo
<1> QED BY <1>4, <1>5, <1>6, <1>7

(* The letters of the options.                                             *)
LEMMA OptionIs ==
  ASSUME NEW c \in CommandType, NEW o \in OptionLetters
  PROVE  /\ Option(c, o) \in Seq(OptionLetters)
         /\ \A x : x \in ToSet(Option(c, o)) <=> x = o /\ o \in c.opts
<1>1. CASE o \in c.opts
  <2>1. Option(c, o) = <<o>>
    BY <1>1 DEF Option
  <2>2. <<o>> \in Seq(OptionLetters) /\ ToSet(<<o>>) = {o}
    BY DEF ToSet
  <2> QED BY <1>1, <2>1, <2>2
<1>2. CASE o \notin c.opts
  <2>1. Option(c, o) = <<>>
    BY <1>2 DEF Option
  <2>2. <<>> \in Seq(OptionLetters) /\ ToSet(<<>>) = {}
    BY DEF ToSet
  <2> QED BY <1>2, <2>1, <2>2
<1> QED BY <1>1, <1>2

LEMMA JoinSet ==
  ASSUME NEW S, NEW s \in Seq(S), NEW t \in Seq(S)
  PROVE  ToSet(s \o t) = ToSet(s) \cup ToSet(t)
<1>1. \A u : ToSet(u) = Range(u)
  BY DEF ToSet, Range
<1>2. Range(s \o t) = Range(s) \cup Range(t)
  BY RangeConcatenation
<1> QED BY <1>1, <1>2

LEMMA OptionsSet ==
  ASSUME NEW c \in CommandType
  PROVE  ToSet(Options(c)) = c.opts
<1>1. PICK a : a = Option(c, "a")
  OBVIOUS
<1>2. PICK s : s = Option(c, "s")
  OBVIOUS
<1>3. PICK i : i = Option(c, "i")
  OBVIOUS
<1>4. PICK k : k = Option(c, "c")
  OBVIOUS
<1>5. \A o \in OptionLetters : /\ Option(c, o) \in Seq(OptionLetters)
                               /\ \A x : x \in ToSet(Option(c, o)) <=> x = o /\ o \in c.opts
  BY OptionIs
<1>6. /\ "a" \in OptionLetters /\ "s" \in OptionLetters /\ "i" \in OptionLetters /\ "c" \in OptionLetters
      /\ OptionLetters = {"a", "s", "i", "c"}
  BY DEF OptionLetters
<1>7. /\ a \in Seq(OptionLetters) /\ s \in Seq(OptionLetters) /\ i \in Seq(OptionLetters)
      /\ k \in Seq(OptionLetters)
  BY <1>1, <1>2, <1>3, <1>4, <1>5, <1>6
<1>8. Options(c) = ((a \o s) \o i) \o k
  BY <1>1, <1>2, <1>3, <1>4 DEF Options
<1>9. a \o s \in Seq(OptionLetters) /\ (a \o s) \o i \in Seq(OptionLetters)
  <2>1. \A u, v \in Seq(OptionLetters) : u \o v \in Seq(OptionLetters)
    BY ConcatProperties
  <2>2. a \o s \in Seq(OptionLetters)
    BY <1>7, <2>1
  <2> QED BY <1>7, <2>1, <2>2
<1>10. ToSet(Options(c)) = ((ToSet(a) \cup ToSet(s)) \cup ToSet(i)) \cup ToSet(k)
  <2>1. \A u, v \in Seq(OptionLetters) : ToSet(u \o v) = ToSet(u) \cup ToSet(v)
    BY JoinSet
  <2>2. ToSet(((a \o s) \o i) \o k) = ToSet((a \o s) \o i) \cup ToSet(k)
    BY <1>7, <1>9, <2>1
  <2>3. ToSet((a \o s) \o i) = ToSet(a \o s) \cup ToSet(i)
    BY <1>7, <1>9, <2>1
  <2>4. ToSet(a \o s) = ToSet(a) \cup ToSet(s)
    BY <1>7, <2>1
  <2> QED BY <1>8, <2>2, <2>3, <2>4
<1>11. /\ \A x : x \in ToSet(a) <=> x = "a" /\ "a" \in c.opts
       /\ \A x : x \in ToSet(s) <=> x = "s" /\ "s" \in c.opts
       /\ \A x : x \in ToSet(i) <=> x = "i" /\ "i" \in c.opts
       /\ \A x : x \in ToSet(k) <=> x = "c" /\ "c" \in c.opts
  BY <1>1, <1>2, <1>3, <1>4, <1>5, <1>6
<1>12. c.opts \subseteq {"a", "s", "i", "c"}
  BY <1>6 DEF CommandType
<1> QED BY <1>10, <1>11, <1>12

LEMMA OptionsApart == \A o \in OptionLetters : o \notin Digits
<1>1. \A i \in 1..10 : \/ i = 1 \/ i = 2 \/ i = 3 \/ i = 4 \/ i = 5
                       \/ i = 6 \/ i = 7 \/ i = 8 \/ i = 9 \/ i = 10
  BY SMT
<1>2. \A i \in 1..10 : Numerals[i] \in {"0", "1", "2", "3", "4", "5", "6", "7", "8", "9"}
  BY <1>1 DEF Numerals
<1>3. Digits \subseteq {"0", "1", "2", "3", "4", "5", "6", "7", "8", "9"}
  BY <1>2 DEF Digits
<1> QED BY <1>3 DEF OptionLetters

(* The options of a Record hide no digit, and its file begins with none.   *)
LEMMA RecordReads ==
  ASSUME NEW c, WellFormed(c), c.looped = <<>>, c.op = "r"
  PROVE  ParsesTo("r", Arguments(c), c)
<1>1. /\ c = Command(c.op, c.name, c.num, c.opts) /\ c.name \in Seq(ArgLetters) /\ c.num \in Nat
      /\ c.opts \in SUBSET OptionLetters
  BY CommandOf
<1>2. /\ c \in CommandType /\ c.name # <<>> /\ Head(c.name) \notin Digits /\ c.num < UIntSize
      /\ c.opts \subseteq OptionsOf("r")
  BY DEF WellFormed
<1>3. PICK x : x = c.name
  OBVIOUS
<1>4. PICK d : d = Decimal(c.num)
  OBVIOUS
<1>5. PICK o : o = Options(c)
  OBVIOUS
<1>6. PICK a : a = Arguments(c)
  OBVIOUS
<1>7. PICK b : b = d \o x
  OBVIOUS
<1>8. /\ o \in Seq(OptionLetters) /\ o \in Seq(ArgLetters) /\ ToSet(o) = c.opts
  BY <1>2, <1>5, OptionsAre, OptionsSet, ArgLettersAre, SeqMonotonic
<1>9. /\ d \in Seq(Digits) /\ d \in Seq(ArgLetters) /\ d # <<>> /\ d[1] \in Digits
      /\ Value(d) = c.num /\ \A i \in 1..Len(d) : d[i] \notin Characters \ Digits
  BY <1>1, <1>4, DecimalFor
<1>10. x \in Seq(ArgLetters) /\ x # <<>> /\ x[1] \in Characters \ Digits
  BY <1>1, <1>2, <1>3, HeadIs, ArgLettersAre
<1>11. a = (o \o d) \o x
  BY <1>3, <1>4, <1>5, <1>6 DEF Arguments
<1>12. a = o \o b
  BY <1>7, <1>8, <1>9, <1>10, <1>11, ConcatAssociative
<1>13. b \in Seq(ArgLetters) /\ b[1] \in Digits /\ b # <<>>
  <2>1. Len(d) \in Nat /\ Len(x) \in Nat /\ 1 \in 1..Len(d)
    BY <1>9, <1>10, HeadIs, LenProperties
  <2>2. 1 \in 1..Len(d) + Len(x) /\ 1 <= Len(d)
    BY <2>1
  <2>3. b[1] = d[1]
    BY <1>7, <1>9, <1>10, <2>2, ConcatProperties
  <2>4. b \in Seq(ArgLetters)
    BY <1>7, <1>9, <1>10, ConcatProperties
  <2>5. b # <<>>
    BY <1>7, <1>9, <1>10, ConcatEqualIffEmpty
  <2> QED BY <1>9, <2>3, <2>4, <2>5
<1>14. \A i \in 1..Len(o) : o[i] \notin Digits
  BY <1>8, ElementOfSeq, OptionsApart
<1>15. First(a, Digits) = Len(o) + 1
  BY <1>8, <1>12, <1>13, <1>14, FirstOfJoin
<1>16. FromDigits(a) = b /\ Before(a, First(a, Digits)) = o
  BY <1>8, <1>12, <1>13, <1>15, JoinIs DEF FromDigits
<1>17. First(b, Characters \ Digits) = Len(d) + 1
  BY <1>7, <1>9, <1>10, FirstOfJoin
<1>18. Millis(b) = d /\ Rest(b) = x
  BY <1>7, <1>9, <1>10, <1>17, JoinIs DEF Millis, Rest
<1>19. RecordArgs(a)
  BY <1>10, <1>13, <1>16, <1>18 DEF RecordArgs
<1>20. Scan(d) = c.num
  <2>1. UIntSize \in Nat /\ UIntSize > 0
    BY SyntaxAssumption
  <2>2. \A m, n \in Nat : m < n => m % n = m
    OBVIOUS
  <2>3. c.num % UIntSize = c.num
    BY <1>1, <1>2, <2>1, <2>2
  <2> QED BY <1>9, <2>3 DEF Scan
<1>21. OptionsOf("r") \cap ToSet(o) = c.opts
  BY <1>2, <1>8
<1>22. RecordOf(a) = Command("r", x, c.num, c.opts)
  BY <1>16, <1>18, <1>20, <1>21 DEF RecordOf
<1>23. RecordOf(a) = c
  BY <1>1, <1>3, <1>22
<1> QED BY <1>6, <1>19, <1>23 DEF ParsesTo

(* The options of Wait are written in the order in which they are read.    *)
LEMMA WaitOptionsWritten ==
  ASSUME NEW c, WellFormed(c), c.op = "w"
  PROVE  Options(c) \in WaitOptions
<1>1. PICK o : o = c.opts
  OBVIOUS
<1>2. o \subseteq {"a", "s", "c"} /\ ~ {"a", "s"} \subseteq o
  BY <1>1 DEF WellFormed, OptionsOf
<1>3. "i" \notin o /\ ("a" \notin o \/ "s" \notin o)
  BY <1>2
<1>4. Options(c) = ((Option(c, "a") \o Option(c, "s")) \o Option(c, "i")) \o Option(c, "c")
  BY DEF Options
<1>5. \A x : Option(c, x) = IF x \in o THEN <<x>> ELSE <<>>
  BY <1>1 DEF Option
<1>6. Option(c, "i") = <<>>
  BY <1>3, <1>5
<1>7. \A s \in Seq(OptionLetters) : s \o <<>> = s /\ <<>> \o s = s
  BY ConcatEmptySeq
<1>8. \A x \in OptionLetters : <<x>> \in Seq(OptionLetters)
  OBVIOUS
<1>9. {"a", "s", "i", "c"} \subseteq OptionLetters
  BY DEF OptionLetters
<1>10. <<>> \in Seq(OptionLetters)
  BY EmptySeq
<1>11. PICK x : x = Option(c, "a") \o Option(c, "s")
  OBVIOUS
<1>12. x \in {<<>>, <<"a">>, <<"s">>}
  <2>1. CASE "a" \in o
    <3>1. Option(c, "a") = <<"a">> /\ Option(c, "s") = <<>>
      BY <1>3, <1>5, <2>1
    <3>2. x = <<"a">>
      BY <1>7, <1>8, <1>9, <1>11, <3>1
    <3> QED BY <3>2
  <2>2. CASE "a" \notin o /\ "s" \in o
    <3>1. Option(c, "a") = <<>> /\ Option(c, "s") = <<"s">>
      BY <1>5, <2>2
    <3>2. x = <<"s">>
      BY <1>7, <1>8, <1>9, <1>11, <3>1
    <3> QED BY <3>2
  <2>3. CASE "a" \notin o /\ "s" \notin o
    <3>1. Option(c, "a") = <<>> /\ Option(c, "s") = <<>>
      BY <1>5, <2>3
    <3>2. x = <<>>
      BY <1>7, <1>10, <1>11, <3>1
    <3> QED BY <3>2
  <2> QED BY <2>1, <2>2, <2>3
<1>13. x \in Seq(OptionLetters)
  BY <1>8, <1>9, <1>10, <1>12
<1>14. Options(c) = x \o Option(c, "c")
  BY <1>4, <1>6, <1>7, <1>11, <1>13
<1>15. CASE "c" \notin o
  <2>1. Options(c) = x
    BY <1>5, <1>7, <1>13, <1>14, <1>15
  <2> QED BY <1>12, <2>1 DEF WaitOptions
<1>16. CASE "c" \in o
  <2>1. Options(c) = x \o <<"c">>
    BY <1>5, <1>14, <1>16
  <2>2. ASSUME NEW y \in OptionLetters, NEW z \in OptionLetters PROVE <<y>> \o <<z>> = <<y, z>>
    <3>1. <<y>> \in Seq(OptionLetters) /\ <<z>> \in Seq(OptionLetters) /\ <<y, z>> \in Seq(OptionLetters)
      OBVIOUS
    <3>2. Len(<<y>>) = 1 /\ Len(<<z>>) = 1 /\ Len(<<y, z>>) = 2
      OBVIOUS
    <3>3. PICK t : t = <<y>> \o <<z>>
      OBVIOUS
    <3>4. /\ t \in Seq(OptionLetters) /\ Len(t) = 2
          /\ \A i \in 1..2 : t[i] = IF i <= 1 THEN <<y>>[i] ELSE <<z>>[i - 1]
      <4>1. 1 + 1 = 2
        OBVIOUS
      <4> QED BY <3>1, <3>2, <3>3, <4>1, ConcatProperties
    <3>5. t[1] = y /\ t[2] = z
      BY <3>4
    <3>6. \A i \in 1..2 : t[i] = <<y, z>>[i]
      BY <3>5
    <3> QED BY <3>1, <3>2, <3>3, <3>4, <3>6, SeqEqual
  <2>3. <<>> \o <<"c">> = <<"c">>
    BY <1>7, <1>8, <1>9
  <2>4. Options(c) \in {<<"c">>, <<"a", "c">>, <<"s", "c">>}
    BY <1>9, <1>12, <2>1, <2>2, <2>3
  <2> QED BY <2>4 DEF WaitOptions
<1> QED BY <1>15, <1>16

LEMMA WaitReads ==
  ASSUME NEW c, WellFormed(c), c.looped = <<>>, c.op = "w"
  PROVE  ParsesTo("w", Arguments(c), c)
<1>1. /\ c = Command(c.op, c.name, c.num, c.opts) /\ c.num \in Nat
      /\ c.opts \in SUBSET OptionLetters
  BY CommandOf
<1>2. c \in CommandType /\ c.name = <<>> /\ c.num < UIntSize
  BY DEF WellFormed
<1>3. PICK d : d = Decimal(c.num)
  OBVIOUS
<1>4. PICK o : o = Options(c)
  OBVIOUS
<1>5. PICK a : a = Arguments(c)
  OBVIOUS
<1>6. /\ o \in Seq(OptionLetters) /\ o \in Seq(ArgLetters) /\ ToSet(o) = c.opts /\ o \in WaitOptions
  BY <1>2, <1>4, OptionsAre, OptionsSet, ArgLettersAre, SeqMonotonic, WaitOptionsWritten
<1>7. /\ d \in Seq(Digits) /\ d \in Seq(ArgLetters) /\ d # <<>> /\ Value(d) = c.num
      /\ AllIn(d, Digits)
  BY <1>1, <1>3, DecimalFor
<1>8. a = o \o d
  BY <1>3, <1>4, <1>5 DEF Arguments
<1>9. From(a, Len(o) + 1) = d /\ Before(a, Len(o) + 1) = o /\ Len(o) <= Len(a)
  BY <1>6, <1>7, <1>8, JoinIs
<1>10. IsPrefix(o, a)
  <2>1. Len(o) \in Nat /\ (Len(o) + 1) - 1 = Len(o)
    BY <1>6, LenProperties
  <2>2. SubSeq(a, 1, Len(o)) = o
    BY <1>9, <2>1 DEF Before
  <2>3. SubSeq(o, 1, Len(o)) = o
    BY <1>6, SubSeqFull
  <2> QED BY <1>9, <2>2, <2>3 DEF IsPrefix
<1>11. WaitArgs(a, o)
  BY <1>7, <1>9, <1>10 DEF WaitArgs
<1>12. Scan(d) = c.num
  <2>1. UIntSize \in Nat /\ UIntSize > 0
    BY SyntaxAssumption
  <2>2. \A m, n \in Nat : m < n => m % n = m
    OBVIOUS
  <2>3. c.num % UIntSize = c.num
    BY <1>1, <1>2, <2>1, <2>2
  <2> QED BY <1>7, <2>3 DEF Scan
<1>13. WaitOf(a, o) = Command("w", <<>>, c.num, c.opts)
  BY <1>6, <1>9, <1>12 DEF WaitOf
<1>14. WaitOf(a, o) = c
  BY <1>1, <1>2, <1>13
<1> QED BY <1>5, <1>6, <1>11, <1>14 DEF ParsesTo

(* A Loop may be written with a count, a label, both or neither.           *)
LEMMA LoopWritten ==
  ASSUME NEW c, WellFormed(c), c.looped = <<>>, c.op = "j"
  PROVE  ParsesTo("j", Arguments(c), c)
<1>1. /\ c = Command(c.op, c.name, c.num, c.opts) /\ c.num \in Nat /\ c.name \in Seq(ArgLetters)
  BY CommandOf
<1>2. c.opts = {} /\ (c.num = 0 \/ Len(Decimal(c.num)) <= MaxDigits) /\ MaxDigits \in Nat
  BY SyntaxAssumption DEF WellFormed, OptionsOf
<1>3. PICK d : d = IF c.num = 0 THEN <<>> ELSE Decimal(c.num)
  OBVIOUS
<1>4. PICK x : x = c.name
  OBVIOUS
<1>5. PICK l : l = IF x = <<>> THEN <<>> ELSE <<"l">> \o x
  OBVIOUS
<1>6. PICK a : a = Arguments(c)
  OBVIOUS
<1>7. a = d \o l
  BY <1>3, <1>4, <1>5, <1>6 DEF Arguments
<1>8. /\ d \in Seq(ArgLetters) /\ \A i \in 1..Len(d) : d[i] \notin Characters \ Digits
      /\ Value(d) = c.num /\ Len(d) <= MaxDigits
  <2>1. CASE c.num = 0
    <3>1. d = <<>>
      BY <1>3, <2>1
    <3>2. Len(<<>>) = 0 /\ <<>> \in Seq(ArgLetters)
      BY EmptySeq
    <3>3. \A i \in 1..0 : FALSE
      OBVIOUS
    <3>4. 0 <= MaxDigits
      BY <1>2
    <3> QED BY <2>1, <3>1, <3>2, <3>3, <3>4, ValueOfNone
  <2>2. CASE c.num # 0
    <3>1. d = Decimal(c.num)
      BY <1>3, <2>2
    <3> QED BY <1>1, <1>2, <2>2, <3>1, DecimalFor
  <2> QED BY <2>1, <2>2
<1>9. "l" \in Characters \ Digits
  <2>1. "l" \notin Digits
    <3>1. \A i \in 1..10 : \/ i = 1 \/ i = 2 \/ i = 3 \/ i = 4 \/ i = 5
                           \/ i = 6 \/ i = 7 \/ i = 8 \/ i = 9 \/ i = 10
      BY SMT
    <3>2. \A i \in 1..10 : Numerals[i] \in {"0", "1", "2", "3", "4", "5", "6", "7", "8", "9"}
      BY <3>1 DEF Numerals
    <3>3. Digits \subseteq {"0", "1", "2", "3", "4", "5", "6", "7", "8", "9"}
      BY <3>2 DEF Digits
    <3> QED BY <3>3
  <2> QED BY <2>1, ArgLettersAre
<1>10. /\ l \in Seq(ArgLetters)
       /\ l # <<>> => l[1] = "l" /\ Head(l) = "l" /\ Tail(l) = x /\ x # <<>>
       /\ l = <<>> => x = <<>>
  <2>1. CASE x = <<>>
    <3>1. l = <<>>
      BY <1>5, <2>1
    <3> QED BY <2>1, <3>1, EmptySeq
  <2>2. CASE x # <<>>
    <3>1. PICK w : w = <<"l">>
      OBVIOUS
    <3>2. w \in Seq(ArgLetters) /\ Len(w) = 1 /\ w[1] = "l" /\ w # <<>>
      BY <3>1, ArgLettersAre
    <3>3. l = w \o x /\ x \in Seq(ArgLetters)
      BY <1>1, <1>4, <1>5, <2>2, <3>1
    <3>4. l \in Seq(ArgLetters) /\ l # <<>> /\ Len(l) = Len(w) + Len(x)
      <4>1. w \in Seq(ArgLetters) /\ x \in Seq(ArgLetters) /\ w # <<>>
        BY <3>2, <3>3
      <4>2. w \o x \in Seq(ArgLetters) /\ Len(w \o x) = Len(w) + Len(x)
        BY <4>1, ConcatProperties
      <4>3. w \o x # <<>>
        BY <4>1, ConcatEqualIffEmpty
      <4> QED BY <3>3, <4>2, <4>3
    <3>5. Len(x) \in Nat
      BY <3>3, LenProperties
    <3>6. 1 \in 1..Len(w) + Len(x) /\ 1 <= Len(w)
      BY <3>2, <3>5
    <3>7. l[1] = w[1]
      BY <3>2, <3>3, <3>6, ConcatProperties
    <3>8. Head(l) = l[1]
      BY <3>4, HeadIs
    <3>9. From(l, Len(w) + 1) = x
      BY <3>2, <3>3, JoinIs
    <3>10. Tail(l) = SubSeq(l, 2, Len(l))
      BY <3>4, TailIsSubSeq
    <3>11. Tail(l) = x
      BY <3>2, <3>9, <3>10 DEF From
    <3> QED BY <2>2, <3>2, <3>4, <3>7, <3>8, <3>11
  <2> QED BY <2>1, <2>2
<1>11. First(a, Characters \ Digits) = Len(d) + 1
  BY <1>7, <1>8, <1>9, <1>10, FirstOfJoin
<1>12. Millis(a) = d /\ Rest(a) = l
  BY <1>7, <1>8, <1>10, <1>11, JoinIs DEF Millis, Rest
<1>13. LabelOf(a) = x
  BY <1>10, <1>12 DEF LabelOf
<1>14. Count(a) = c.num
  BY <1>8, <1>12 DEF Count
<1>15. LoopArgs(a)
  BY <1>10, <1>12, <1>13 DEF LoopArgs
<1>16. LoopOf(a, <<>>) = Command("j", x, c.num, {})
  BY <1>13, <1>14 DEF LoopOf, Command
<1>17. LoopOf(a, <<>>) = c
  BY <1>1, <1>2, <1>4, <1>16
<1> QED BY <1>6, <1>15, <1>17 DEF ParsesTo

(* The arguments a command is written with can be read as that command.    *)
LEMMA WrittenReads ==
  ASSUME NEW c, WellFormed(c), c.looped = <<>>
  PROVE  ParsesTo(c.op, Arguments(c), c) /\ Arguments(c) \in Seq(ArgLetters)
<1>1. c.op \in {"c", "a", "h", "d", "v", "r", "w", "l", "j"} /\ c.name \in Seq(ArgLetters)
  BY CommandOf DEF Letters
<1>2. c \in CommandType
  BY DEF WellFormed
<1>3. Arguments(c) \in Seq(ArgLetters)
  BY <1>1, <1>2, ArgumentsIs, ArgLettersAre
<1> QED BY <1>1, <1>3, CallReads, NameReads, RecordReads, WaitReads, LoopWritten

(* There is one way to read an argument.                                   *)
LEMMA OptionsEnd ==
  ASSUME NEW a \in Seq(ArgLetters), NEW p \in WaitOptions, NEW q \in WaitOptions,
         WaitArgs(a, p), WaitArgs(a, q)
  PROVE  ~ Len(p) < Len(q)
<1> SUFFICES ASSUME Len(p) < Len(q) PROVE FALSE
  OBVIOUS
<1>1. Len(p) \in Nat /\ Len(q) \in Nat /\ Len(a) \in Nat
  BY WaitOptionsAre, LenProperties
<1>2. PICK i : i = Len(p) + 1
  OBVIOUS
<1>3. From(a, i) # <<>> /\ AllIn(From(a, i), Digits)
  BY <1>2 DEF WaitArgs
<1>4. Len(q) <= Len(a) /\ SubSeq(q, 1, Len(q)) = SubSeq(a, 1, Len(q))
  BY DEF WaitArgs, IsPrefix
<1>5. i \in 1..Len(q) /\ i \in 1..Len(a) /\ i \in 1..Len(a) + 1 /\ Len(q) \in 0..Len(a) /\ i + 1 - 1 = i
  BY <1>1, <1>2, <1>4
<1>6. q \in Seq(OptionLetters)
  <2>1. {"a", "s", "c"} \subseteq OptionLetters
    BY DEF OptionLetters
  <2>2. \A x, y \in OptionLetters : <<x>> \in Seq(OptionLetters) /\ <<x, y>> \in Seq(OptionLetters)
    OBVIOUS
  <2>3. <<>> \in Seq(OptionLetters)
    BY EmptySeq
  <2> QED BY <2>1, <2>2, <2>3 DEF WaitOptions
<1>7. q[i] \notin Digits
  BY <1>5, <1>6, ElementOfSeq, OptionsApart
<1>8. a[i] = q[i]
  <2>1. \A j \in 1..Len(q) : SubSeq(a, 1, Len(q))[j] = a[j]
    BY <1>5, TakeIs
  <2>2. SubSeq(q, 1, Len(q)) = q
    BY <1>6, SubSeqFull
  <2> QED BY <1>4, <1>5, <2>1, <2>2
<1>9. a[i] \in Digits
  <2>1. PICK f : f = From(a, i)
    OBVIOUS
  <2>2. f \in Seq(ArgLetters) /\ \A j \in 1..Len(a) + 1 - i : f[j] = a[i + j - 1]
    BY <1>5, <2>1, FromIs
  <2>3. 1 \in 1..Len(a) + 1 - i
    BY <1>1, <1>5
  <2>4. f[1] = a[i]
    BY <1>5, <2>2, <2>3
  <2>5. 1 \in 1..Len(f) /\ DOMAIN f = 1..Len(f)
    BY <1>3, <2>1, <2>2, HeadIs, LenProperties
  <2>6. f[1] \in Digits
    BY <1>3, <2>1, <2>5, AllInIs
  <2> QED BY <2>4, <2>6
<1> QED BY <1>7, <1>8, <1>9

(* No arguments can be read as two commands.                               *)
LEMMA ReadsOne ==
  ASSUME NEW a \in Seq(ArgLetters), NEW op, NEW c, NEW d, ParsesTo(op, a, c), ParsesTo(op, a, d)
  PROVE  c = d
<1>1. CASE op # "w"
  BY <1>1 DEF ParsesTo
<1>2. CASE op = "w"
  <2>1. PICK p \in WaitOptions : WaitArgs(a, p) /\ c = WaitOf(a, p)
    BY <1>2 DEF ParsesTo
  <2>2. PICK q \in WaitOptions : WaitArgs(a, q) /\ d = WaitOf(a, q)
    BY <1>2 DEF ParsesTo
  <2>3. ~ Len(p) < Len(q) /\ ~ Len(q) < Len(p)
    BY <2>1, <2>2, OptionsEnd
  <2>4. Len(p) \in Nat /\ Len(q) \in Nat
    BY WaitOptionsAre
  <2>5. Len(p) = Len(q)
    BY <2>3, <2>4
  <2>6. SubSeq(p, 1, Len(p)) = SubSeq(q, 1, Len(q))
    BY <2>1, <2>2, <2>5 DEF WaitArgs, IsPrefix
  <2>7. \A r \in WaitOptions : SubSeq(r, 1, Len(r)) = r
    <3>1. {"a", "s", "c"} \subseteq OptionLetters
      BY DEF OptionLetters
    <3>2. \A x, y \in OptionLetters : <<x>> \in Seq(OptionLetters) /\ <<x, y>> \in Seq(OptionLetters)
      OBVIOUS
    <3>3. <<>> \in Seq(OptionLetters)
      BY EmptySeq
    <3>4. \A r \in WaitOptions : r \in Seq(OptionLetters)
      BY <3>1, <3>2, <3>3 DEF WaitOptions
    <3> QED BY <3>4, SubSeqFull
  <2>8. p = q
    BY <2>6, <2>7
  <2> QED BY <2>1, <2>2, <2>8
<1> QED BY <1>1, <1>2

(* The argument, when the text goes on with the letters of a and a ';'.    *)
LEMMA StopAt ==
  ASSUME text \in Seq(Characters), ptr \in 1..Len(text), NEW a \in Seq(ArgLetters),
         NEW q \in 1..Len(text), q = (ptr + Len(a)) + 1,
         \A i \in 1..Len(a) : text[ptr + i] = a[i], text[q] = Semicolon
  PROVE  Stop = q /\ arg = a
<1>1. Len(text) \in Nat /\ ptr \in Nat /\ Len(a) \in Nat /\ q \in Nat
  BY LenProperties
<1>2. \A i \in 1..Len(a) : a[i] # Semicolon
  BY ElementOfSeq DEF ArgLetters
<1>3. PICK s : s = Stop
  OBVIOUS
<1>4. /\ s \in ptr + 1..Len(text) + 1
      /\ \A i \in ptr + 1..Len(text) : i < s => text[i] # Semicolon
      /\ s <= Len(text) => text[s] = Semicolon
  BY <1>3, StopIs
<1>5. ~ q < s
  <2>1. q \in ptr + 1..Len(text)
    BY <1>1
  <2> QED BY <1>4, <2>1
<1>6. ~ s < q
  <2> SUFFICES ASSUME s < q PROVE FALSE
    OBVIOUS
  <2>1. s - ptr \in 1..Len(a) /\ ptr + (s - ptr) = s /\ s <= Len(text)
    BY <1>1, <1>4
  <2>2. text[s] = a[s - ptr]
    BY <2>1
  <2> QED BY <1>2, <1>4, <2>1, <2>2
<1>7. s = q
  BY <1>1, <1>4, <1>5, <1>6
<1>8. (s - ptr) - 1 = Len(a)
  BY <1>1, <1>7
<1>9. arg \in Seq(ArgLetters) /\ Len(arg) = Len(a) /\ \A i \in 1..Len(a) : arg[i] = text[ptr + i]
  BY <1>3, <1>8, ArgIs
<1>10. arg = a
  BY <1>9, SeqEqual
<1> QED BY <1>3, <1>7, <1>10

LEMMA ConcatIs ==
  ASSUME NEW S, NEW s \in Seq(S), NEW t \in Seq(S), NEW m, m = Len(s), NEW n, n = Len(t)
  PROVE  /\ s \o t \in Seq(S) /\ Len(s \o t) = m + n
         /\ \A i \in 1..m : (s \o t)[i] = s[i]
         /\ \A i \in 1..n : (s \o t)[m + i] = t[i]
<1>1. m \in Nat /\ n \in Nat
  BY LenProperties
<1>2. PICK a : a = s \o t
  OBVIOUS
<1>3. a \in Seq(S) /\ Len(a) = Len(s) + Len(t)
      /\ \A i \in 1..Len(s) + Len(t) : a[i] = IF i <= Len(s) THEN s[i] ELSE t[i - Len(s)]
  BY <1>2, ConcatProperties
<1>4. \A i \in 1..m + n : a[i] = IF i <= m THEN s[i] ELSE t[i - m]
  BY <1>3
<1>5. \A i \in 1..m : i \in 1..m + n /\ i <= m
  BY <1>1
<1>6. \A i \in 1..n : m + i \in 1..m + n /\ ~ m + i <= m /\ (m + i) - m = i
  BY <1>1
<1>7. \A i \in 1..m : a[i] = s[i]
  BY <1>4, <1>5
<1>8. \A i \in 1..n : a[m + i] = t[i]
  BY <1>4, <1>6
<1> QED BY <1>2, <1>3, <1>7, <1>8

(* A command of this operation with these arguments stands in a text from   *)
(* one place to the semicolon at another.                                   *)
Stands(t, k, q, a, o) ==
  /\ k \in Nat /\ Len(a) \in Nat /\ q = (k + Len(a)) + 1
  /\ k \in 1..Len(t) /\ q \in 1..Len(t) /\ Len(t) \in Nat
  /\ t[k] = o /\ t[q] = Semicolon
  /\ \A i \in 1..Len(a) : t[k + i] = a[i]

(* Where the n-th command of a program is written.                         *)
LEMMA PhraseAt ==
  ASSUME NEW p \in Seq(CommandType), NEW w, Wrote(p, w), NEW n \in 1..Len(p),
         NEW a, a = Arguments(p[n]), NEW t, t = w[Len(p)], NEW k, k = Len(w[n - 1]) + 1
  PROVE  Stands(t, k, Len(w[n]), a, p[n].op)
<1>1. Len(p) \in Nat /\ n - 1 \in 0..Len(p) /\ n \in 0..Len(p) /\ Len(p) \in 0..Len(p)
  BY LenProperties
<1>2. p[n] \in CommandType
  BY ElementOfSeq
<1>3. PICK o : o = <<p[n].op>>
  OBVIOUS
<1>4. /\ o \in Seq(Characters) /\ a \in Seq(Characters) /\ Written(p[n]) = o \o a
      /\ Len(o) = 1 /\ o[1] = p[n].op
  BY <1>2, <1>3, WrittenIs
<1>5. PICK u : u = w[n - 1]
  OBVIOUS
<1>6. u \in Seq(Characters)
  BY <1>1, <1>5 DEF Wrote
<1>7. PICK e : e = <<Semicolon>>
  OBVIOUS
<1>8. e \in Seq(Characters) /\ Len(e) = 1 /\ e[1] = Semicolon
  BY <1>7, EndIs
<1>9. w[n] = (u \o (o \o a)) \o e
  BY <1>4, <1>5, <1>7 DEF Wrote
<1>10. PICK x : x = o \o a
  OBVIOUS
<1>11. PICK l : l = Len(a)
  OBVIOUS
<1>12. PICK m : m = Len(u)
  OBVIOUS
<1>13. l \in Nat /\ m \in Nat /\ k = m + 1
  BY <1>4, <1>5, <1>6, <1>11, <1>12, LenProperties
<1>14. /\ x \in Seq(Characters) /\ Len(x) = 1 + l /\ x[1] = o[1]
       /\ \A i \in 1..l : x[1 + i] = a[i]
  <2>1. PICK b : b = 1
    OBVIOUS
  <2>2. b = Len(o) /\ b \in 1..b
    BY <1>4, <2>1
  <2>3. /\ x \in Seq(Characters) /\ Len(x) = b + l /\ \A i \in 1..b : x[i] = o[i]
        /\ \A i \in 1..l : x[b + i] = a[i]
    <3>1. o \in Seq(Characters) /\ a \in Seq(Characters)
      BY <1>4
    <3>2. b = Len(o) /\ l = Len(a)
      BY <1>11, <2>2
    <3> QED BY <1>10, <3>1, <3>2, ConcatIs
  <2> QED BY <2>1, <2>2, <2>3
<1>15. PICK y : y = u \o x
  OBVIOUS
<1>16. /\ y \in Seq(Characters) /\ Len(y) = m + (1 + l)
       /\ \A i \in 1..1 + l : y[m + i] = x[i]
  <2>1. 1 + l = Len(x)
    BY <1>14
  <2> QED BY <1>6, <1>12, <1>14, <1>15, <2>1, ConcatIs
<1>17. PICK v : v = w[n]
  OBVIOUS
<1>18. v = y \o e
  BY <1>9, <1>10, <1>15, <1>17
<1>19. PICK z : z = m + (1 + l)
  OBVIOUS
<1>20. z \in Nat /\ z = k + l
  BY <1>13, <1>19
<1>21. Len(v) = z + 1 /\ (\A i \in 1..z : v[i] = y[i]) /\ v[z + 1] = e[1]
  <2>1. PICK b : b = 1
    OBVIOUS
  <2>2. b = Len(e) /\ b \in 1..b /\ z = Len(y)
    BY <1>8, <1>16, <1>19, <2>1
  <2>3. /\ Len(v) = z + b /\ \A i \in 1..z : v[i] = y[i]
        /\ \A i \in 1..b : v[z + i] = e[i]
    <3>1. y \in Seq(Characters) /\ e \in Seq(Characters)
      BY <1>8, <1>16
    <3>2. z = Len(y) /\ b = Len(e)
      BY <2>2
    <3> QED BY <1>18, <3>1, <3>2, ConcatIs
  <2> QED BY <2>1, <2>2, <2>3
<1>22. v[k] = p[n].op
  <2>1. k \in 1..z /\ k = m + 1 /\ 1 \in 1..1 + l
    BY <1>13, <1>20
  <2>2. v[k] = y[k]
    BY <1>21, <2>1
  <2>3. y[k] = x[1]
    BY <1>16, <2>1
  <2> QED BY <1>4, <1>14, <2>2, <2>3
<1>23. ASSUME NEW i \in 1..l PROVE v[k + i] = a[i]
  <2>1. k + i \in 1..z /\ k + i = m + (1 + i) /\ 1 + i \in 1..1 + l
    BY <1>13, <1>20
  <2>2. v[k + i] = y[k + i]
    BY <1>21, <2>1
  <2>3. y[m + (1 + i)] = x[1 + i]
    BY <1>16, <2>1
  <2>4. x[1 + i] = a[i]
    BY <1>14
  <2> QED BY <2>1, <2>2, <2>3, <2>4
<1>24. v[z + 1] = Semicolon
  BY <1>8, <1>21
<1>25. /\ Len(v) \in Nat /\ Len(t) \in Nat /\ Len(v) <= Len(t)
       /\ \A i \in 1..Len(v) : t[i] = v[i]
  BY <1>1, <1>17, WroteBefore
<1>26. \A i \in 1..z + 1 : t[i] = v[i]
  BY <1>21, <1>25
<1>27. t[k] = v[k] /\ t[z + 1] = v[z + 1] /\ \A i \in 1..l : t[k + i] = v[k + i]
  <2>1. k \in 1..z + 1 /\ z + 1 \in 1..z + 1 /\ \A i \in 1..l : k + i \in 1..z + 1
    BY <1>13, <1>20
  <2> QED BY <1>26, <2>1
<1>28. k \in 1..Len(t) /\ z + 1 \in 1..Len(t)
  BY <1>13, <1>20, <1>21, <1>25
<1>29. /\ Len(w[n]) = z + 1 /\ z + 1 = (k + l) + 1 /\ k \in Nat
       /\ t[k] = p[n].op /\ t[z + 1] = Semicolon
  BY <1>13, <1>17, <1>20, <1>21, <1>22, <1>24, <1>27
<1>30. \A i \in 1..l : t[k + i] = a[i]
  BY <1>23, <1>27
<1> QED BY <1>11, <1>13, <1>25, <1>28, <1>29, <1>30 DEF Stands

-----------------------------------------------------------------------------
(* The first m commands of a program have their labels.                    *)
LabelsFoundTo(p, m) ==
  \A n \in 1..m : p[n].op = "j" => Found(p, Vectors(p)[n - 1], p[n].name)

LEMMA LabelsFoundIs ==
  ASSUME NEW p \in Seq(CommandType)
  PROVE  LabelsFound(p) <=> LabelsFoundTo(p, Len(p))
<1>1. DOMAIN p = 1..Len(p)
  BY LenProperties
<1> QED BY <1>1 DEF LabelsFound, LabelsFoundTo

LEMMA LabelsAgree ==
  ASSUME NEW p \in Seq(CommandType), NEW q \in Seq(CommandType), NEW m \in Nat,
         m <= Len(p), m <= Len(q), Agree(p, q, m), LabelsFoundTo(p, m)
  PROVE  LabelsFoundTo(q, m)
<1>1. Len(p) \in Nat /\ Len(q) \in Nat
  BY LenProperties
<1>2. ASSUME NEW n \in 1..m, q[n].op = "j" PROVE Found(q, Vectors(q)[n - 1], q[n].name)
  <2>1. p[n].op = q[n].op /\ p[n].name = q[n].name
    BY DEF Agree
  <2>2. PICK v : v = Vectors(p)[n - 1]
    OBVIOUS
  <2>3. n - 1 \in 0..m /\ n - 1 \in 0..Len(p)
    BY <1>1
  <2>4. Vectors(q)[n - 1] = v
    BY <2>2, <2>3, VectorsAgree
  <2>5. Found(p, v, p[n].name)
    BY <1>2, <2>1, <2>2 DEF LabelsFoundTo
  <2>6. v \in Seq(1..m)
    <3>1. Holds(p, Vectors(p))
      BY VectorsIs
    <3>2. v \in Seq(1..n - 1)
      BY <2>2, <2>3, <3>1, HoldsEarlier
    <3>3. 1..n - 1 \subseteq 1..m
      OBVIOUS
    <3> QED BY <3>2, <3>3, SeqMonotonic
  <2>7. Named(p, v, p[n].name) = Named(q, v, p[n].name)
    BY <2>6, NamedAgree
  <2> QED BY <2>1, <2>4, <2>5, <2>7 DEF Found
<1> QED BY <1>2 DEF LabelsFoundTo

(* The vector is the one of the commands that have been read, and every    *)
(* loop has found its label.                                               *)
VectorInv ==
  status # "rejected" =>
    sequence = Vectors(read)[Len(read)] /\ LabelsFoundTo(read, Len(read))

LEMMA VectorsStart == Vectors(<<>>)[0] = <<>> /\ LabelsFoundTo(<<>>, 0)
<1>1. <<>> \in Seq(CommandType)
  BY EmptySeq
<1>2. Holds(<<>>, Vectors(<<>>))
  BY <1>1, VectorsIs
<1>3. \A n \in 1..0 : FALSE
  OBVIOUS
<1> QED BY <1>2, <1>3 DEF Holds, LabelsFoundTo

LEMMA VectorInit == Init => VectorInv
<1> SUFFICES ASSUME Init PROVE VectorInv
  OBVIOUS
<1>1. read = <<>> /\ sequence = <<>> /\ Len(<<>>) = 0
  BY EmptySeq DEF Init, Start
<1> QED BY <1>1, VectorsStart DEF VectorInv

LEMMA ReadVector ==
  ASSUME TypeInv, VectorInv, NEW c, Reads(c)
  PROVE  VectorInv'
<1>1. PICK n : n = Len(read)
  OBVIOUS
<1>2. PICK r : r = read
  OBVIOUS
<1>3. PICK s : s = read'
  OBVIOUS
<1>4. r \in Seq(CommandType) /\ n \in Nat /\ n = Len(r)
  BY <1>1, <1>2, LenProperties DEF TypeInv, Formed
<1>5. /\ sequence = Vectors(r)[n] /\ LabelsFoundTo(r, n) /\ status' = status
      /\ sequence' = Pushed(s, sequence, n + 1) /\ s = Append(r, c) /\ c \in CommandType
      /\ c.op = "j" => Found(r, sequence, c.name)
  BY <1>1, <1>2, <1>3 DEF VectorInv, Reads, Takes
<1>6. s \in Seq(CommandType) /\ Len(s) = n + 1 /\ s[n + 1] = c /\ \A i \in 1..n : s[i] = r[i]
  BY <1>4, <1>5, AppendProperties
<1>7. Agree(r, s, n) /\ n <= Len(r) /\ n <= Len(s)
  <2>1. n <= n /\ n <= n + 1
    BY <1>4
  <2> QED BY <1>4, <1>6, <2>1 DEF Agree
<1>8. n \in 0..n /\ n + 1 \in 1..n + 1 /\ (n + 1) - 1 = n
  BY <1>4
<1>9. Vectors(s)[n] = sequence
  BY <1>4, <1>5, <1>6, <1>7, <1>8, VectorsAgree
<1>10. Vectors(s)[n + 1] = sequence'
  <2>1. Holds(s, Vectors(s))
    BY <1>6, VectorsIs
  <2> QED BY <1>5, <1>6, <1>8, <1>9, <2>1 DEF Holds
<1>11. LabelsFoundTo(s, n)
  BY <1>4, <1>5, <1>6, <1>7, LabelsAgree
<1>12. c.op = "j" => Found(s, sequence, c.name)
  <2>1. sequence \in Seq(1..n)
    BY <1>1 DEF TypeInv, VectorOf
  <2>2. Named(r, sequence, c.name) = Named(s, sequence, c.name)
    BY <1>4, <1>7, <2>1, NamedAgree
  <2> QED BY <1>5, <2>2 DEF Found
<1>13. LabelsFoundTo(s, n + 1)
  <2>1. \A i \in 1..n + 1 : i \in 1..n \/ i = n + 1
    BY <1>4
  <2> QED BY <1>6, <1>8, <1>9, <1>11, <1>12, <2>1 DEF LabelsFoundTo
<1> QED BY <1>3, <1>6, <1>10, <1>13 DEF VectorInv

(* Every step keeps the vector that of the commands read so far.           *)
LEMMA VectorStep == TypeInv /\ VectorInv /\ [Next]_vars => VectorInv'
<1> SUFFICES ASSUME TypeInv, VectorInv, [Next]_vars PROVE VectorInv'
  OBVIOUS
<1>1. CASE UNCHANGED vars
  BY <1>1 DEF vars, VectorInv
<1>2. CASE Skip
  BY <1>2 DEF Skip, VectorInv
<1>3. ASSUME NEW c, Reads(c) PROVE VectorInv'
  BY <1>3, ReadVector
<1>4. CASE Fails
  BY <1>4 DEF Fails, VectorInv
<1>5. CASE ParseEnd
  BY <1>5 DEF ParseEnd, VectorInv
<1>6. CASE Rewrite
  <2>1. read' = <<>> /\ sequence' = <<>> /\ Len(<<>>) = 0
    BY <1>6, EmptySeq DEF Rewrite
  <2> QED BY <2>1, VectorsStart DEF VectorInv
<1> QED BY <1>1, <1>2, <1>3, <1>4, <1>5, <1>6, Steps

-----------------------------------------------------------------------------
(* The parser has read the first n commands of the program p: it is at the *)
(* ';' that ends the last of them or behind it.                            *)
Place(p, n) ==
  {Len(Writing(p)[n]) + 1} \cup (IF n = 0 THEN {} ELSE {Len(Writing(p)[n])})

(* What has been read is what was written.                                 *)
AsMeant(p, r, k) ==
  /\ Len(r) <= Len(p) /\ k \in Place(p, Len(r))
  /\ \A i \in 1..Len(r) : Alone(r[i]) = p[i]

MeantInv ==
  meant # Unread =>
    /\ Sensible(meant) /\ text = WrittenAll(meant) /\ status # "rejected"
    /\ AsMeant(meant, read, ptr)
    /\ status = "done" => Len(read) = Len(meant)
    /\ listenmode <=> \E i \in 1..Len(read) : read[i].op = "a"

(* Where the parser is before it takes the next command of a program.      *)
LEMMA PlaceIs ==
  ASSUME NEW p, Sensible(p), NEW r, AsMeant(p, r, ptr), NEW n, n = Len(r), n \in Nat,
         text = WrittenAll(p), ptr \in 1..Len(text) + 1
  PROVE  \/ n = Len(p) /\ ptr = Len(text) + 1
         \/ /\ n > 0 /\ ptr \in 1..Len(text) /\ text[ptr] = Semicolon
            /\ ptr + 1 = Len(Writing(p)[n]) + 1
         \/ /\ n + 1 \in 1..Len(p) /\ ptr = Len(Writing(p)[n]) + 1 /\ ptr \in 1..Len(text)
            /\ text[ptr] = p[n + 1].op /\ p[n + 1].op \in Letters
<1>1. p \in Seq(CommandType)
  BY DEF Sensible
<1>2. PICK w : w = Writing(p)
  OBVIOUS
<1>3. Wrote(p, w) /\ text = w[Len(p)]
  BY <1>1, <1>2, WritingIs DEF WrittenAll
<1>4. Len(p) \in Nat /\ n <= Len(p) /\ ptr \in Place(p, n)
  BY <1>1, LenProperties DEF AsMeant
<1>5. CASE n > 0 /\ ptr = Len(w[n])
  <2>1. n \in 1..Len(p)
    BY <1>4, <1>5
  <2>2. PICK a : a = Arguments(p[n])
    OBVIOUS
  <2>3. PICK k : k = Len(w[n - 1]) + 1
    OBVIOUS
  <2>4. Stands(text, k, Len(w[n]), a, p[n].op)
    BY <1>1, <1>3, <2>1, <2>2, <2>3, PhraseAt
  <2> QED BY <1>2, <1>5, <2>4 DEF Stands
<1>6. CASE ptr = Len(w[n]) + 1 /\ n = Len(p)
  BY <1>3, <1>6
<1>7. CASE ptr = Len(w[n]) + 1 /\ n # Len(p)
  <2>1. n + 1 \in 1..Len(p) /\ (n + 1) - 1 = n
    BY <1>4, <1>7
  <2>2. PICK a : a = Arguments(p[n + 1])
    OBVIOUS
  <2>3. ptr = Len(w[(n + 1) - 1]) + 1
    BY <1>7, <2>1
  <2>4. Stands(text, ptr, Len(w[n + 1]), a, p[n + 1].op)
    BY <1>1, <1>3, <2>1, <2>2, <2>3, PhraseAt
  <2>5. p[n + 1].op \in Letters
    <3>1. p[n + 1] \in CommandType
      BY <1>1, <2>1, ElementOfSeq
    <3> QED BY <3>1 DEF CommandType
  <2> QED BY <1>2, <1>7, <2>1, <2>4, <2>5 DEF Stands
<1>8. ptr = Len(w[n]) + 1 \/ (n > 0 /\ ptr = Len(w[n]))
  BY <1>2, <1>4 DEF Place
<1> QED BY <1>5, <1>6, <1>7, <1>8

(* Nothing has been read of what was written.                              *)
LEMMA MeantStart ==
  ASSUME NEW p \in Seq(CommandType)
  PROVE  /\ AsMeant(p, <<>>, 1) /\ Len(<<>>) = 0 
         /\ ~ \E i \in 1..0 : <<>>[i].op = "a"
<1>1. Wrote(p, Writing(p)) /\ Len(<<>>) = 0 /\ Len(p) \in Nat
  BY WritingIs, EmptySeq, LenProperties
<1>2. Len(Writing(p)[0]) + 1 = 1
  BY <1>1 DEF Wrote
<1>3. 1 \in Place(p, 0)
  BY <1>2 DEF Place
<1>4. \A i \in 1..0 : FALSE
  OBVIOUS
<1>5. 0 <= Len(p)
  BY <1>1
<1>6. AsMeant(p, <<>>, 1)
  BY <1>1, <1>3, <1>4, <1>5 DEF AsMeant
<1> QED BY <1>1, <1>4, <1>6

LEMMA MeantInit == Init => MeantInv
<1> SUFFICES ASSUME Init, meant # Unread PROVE MeantInv
  BY DEF MeantInv
<1>1. PICK p \in Programs : Start(WrittenAll(p)) /\ meant = p
  BY DEF Init
<1>2. Sensible(p)
  BY SyntaxAssumption
<1>3. p \in Seq(CommandType)
  BY <1>2 DEF Sensible
<1>4. /\ text = WrittenAll(p) /\ ptr = 1 /\ read = <<>>
      /\ status = "parsing" /\ listenmode = FALSE
  BY <1>1 DEF Start
<1> QED BY <1>1, <1>2, <1>3, <1>4, MeantStart DEF MeantInv

(* The next command is the one that was written.                           *)
LEMMA NextMeant ==
  ASSUME TypeInv, VectorInv, MeantInv, meant # Unread, Takes,
         NEW n, n = Len(read)
  PROVE  /\ n + 1 \in 1..Len(meant) /\ text[ptr] = meant[n + 1].op
         /\ Stop = Len(Writing(meant)[n + 1]) /\ arg \in Seq(ArgLetters)
         /\ ParsesTo(text[ptr], arg, meant[n + 1])
         /\ meant[n + 1].op = "j" => Found(read, sequence, meant[n + 1].name)
<1>1. /\ Sensible(meant) /\ text = WrittenAll(meant) /\ AsMeant(meant, read, ptr)
  BY DEF MeantInv
<1>2. /\ text \in Seq(Characters) /\ Len(text) \in Nat /\ ptr \in 1..Len(text)
      /\ text[ptr] \in Letters /\ status = "parsing" /\ read \in Seq(CommandType) /\ n \in Nat
      /\ ptr \in 1..Len(text) + 1
  BY LenProperties DEF TypeInv, Takes, Formed
<1>3. PICK p : p = meant
  OBVIOUS
<1>4. PICK w : w = Writing(p)
  OBVIOUS
<1>5. p \in Seq(CommandType) /\ Wrote(p, w) /\ text = w[Len(p)] /\ Len(p) \in Nat
  BY <1>1, <1>3, <1>4, WritingIs, LenProperties DEF Sensible, WrittenAll
<1>6. /\ n + 1 \in 1..Len(p) /\ ptr = Len(w[n]) + 1 /\ text[ptr] = p[n + 1].op
  <2>1. ~ (n = Len(p) /\ ptr = Len(text) + 1)
    BY <1>2
  <2>2. text[ptr] # Semicolon
    BY <1>2, SemicolonApart
  <2> QED BY <1>1, <1>2, <1>3, <1>4, <2>1, <2>2, PlaceIs
<1>7. PICK m : m = p[n + 1]
  OBVIOUS
<1>8. WellFormed(m) /\ m.looped = <<>>
  BY <1>1, <1>3, <1>5, <1>6, <1>7, LenProperties DEF Sensible
<1>9. PICK a : a = Arguments(m)
  OBVIOUS
<1>10. ParsesTo(m.op, a, m) /\ a \in Seq(ArgLetters)
  BY <1>8, <1>9, WrittenReads
<1>11. PICK q : q = Len(w[n + 1])
  OBVIOUS
<1>12. /\ Len(a) \in Nat /\ q = (ptr + Len(a)) + 1 /\ q \in 1..Len(text) /\ text[q] = Semicolon
       /\ \A i \in 1..Len(a) : text[ptr + i] = a[i]
  <2>1. (n + 1) - 1 = n
    BY <1>2
  <2>2. ptr = Len(w[(n + 1) - 1]) + 1 /\ a = Arguments(p[n + 1])
    BY <1>6, <1>7, <1>9, <2>1
  <2>3. PICK i : i = n + 1
    OBVIOUS
  <2>4. PICK t : t = text
    OBVIOUS
  <2>5. PICK k : k = ptr
    OBVIOUS
  <2>6. /\ i \in 1..Len(p) /\ a = Arguments(p[i]) /\ t = w[Len(p)] /\ k = Len(w[i - 1]) + 1
        /\ p \in Seq(CommandType) /\ Wrote(p, w)
    BY <1>5, <1>6, <2>2, <2>3, <2>4, <2>5
  <2>7. Stands(t, k, Len(w[i]), a, p[i].op)
    BY <2>6, PhraseAt
  <2> QED BY <1>11, <2>3, <2>4, <2>5, <2>7 DEF Stands
<1>13. Stop = q /\ arg = a
  BY <1>2, <1>10, <1>12, StopAt
<1>14. ASSUME m.op = "j" PROVE Found(read, sequence, m.name)
  <2>1. LabelsFoundTo(p, Len(p))
    BY <1>1, <1>3, <1>5, LabelsFoundIs DEF Sensible
  <2>2. Found(p, Vectors(p)[n], m.name)
    <3>1. (n + 1) - 1 = n
      BY <1>2
    <3> QED BY <1>6, <1>7, <1>14, <2>1, <3>1 DEF LabelsFoundTo
  <2>3. Agree(p, read, n)
    <3>1. ASSUME NEW i \in 1..n PROVE p[i].op = read[i].op /\ p[i].name = read[i].name
      <4>1. Alone(read[i]) = p[i]
        BY <1>1, <1>3 DEF AsMeant
      <4>2. read[i] \in CommandType
        BY <1>2, ElementOfSeq
      <4> QED BY <4>1, <4>2, AloneIs
    <3> QED BY <3>1 DEF Agree
  <2>4. n <= Len(p) /\ n <= Len(read) /\ n \in 0..n
    BY <1>2, <1>5, <1>6
  <2>5. Vectors(p)[n] = Vectors(read)[n]
    BY <1>2, <1>5, <2>3, <2>4, VectorsAgree
  <2>6. Vectors(read)[n] = sequence
    BY <1>2 DEF VectorInv
  <2>7. sequence \in Seq(1..n)
    BY DEF TypeInv, VectorOf
  <2>8. Named(p, sequence, m.name) = Named(read, sequence, m.name)
    BY <1>2, <2>3, <2>7, NamedAgree
  <2> QED BY <2>2, <2>5, <2>6, <2>8 DEF Found
<1> QED BY <1>3, <1>4, <1>6, <1>7, <1>10, <1>11, <1>13, <1>14

(* A command that is read is the next one that was meant.                  *)
LEMMA ReadMeant ==
  ASSUME TypeInv, VectorInv, MeantInv, NEW c, Reads(c)
  PROVE  MeantInv'
<1> SUFFICES ASSUME meant # Unread PROVE MeantInv'
  BY DEF MeantInv, Reads
<1>1. /\ Sensible(meant) /\ text = WrittenAll(meant) /\ status # "rejected"
      /\ AsMeant(meant, read, ptr)
      /\ listenmode <=> \E i \in 1..Len(read) : read[i].op = "a"
  BY DEF MeantInv
<1>2. /\ Takes /\ c \in CommandType /\ ParsesTo(text[ptr], arg, Alone(c)) /\ ptr' = Stop
      /\ listenmode' = (listenmode \/ c.op = "a") /\ status' = status /\ status = "parsing"
      /\ text' = text /\ meant' = meant
  BY DEF Reads, Takes
<1>3. PICK n : n = Len(read)
  OBVIOUS
<1>4. /\ n + 1 \in 1..Len(meant) /\ Stop = Len(Writing(meant)[n + 1]) /\ arg \in Seq(ArgLetters)
      /\ ParsesTo(text[ptr], arg, meant[n + 1])
  BY <1>2, <1>3, NextMeant
<1>5. Alone(c) = meant[n + 1]
  BY <1>2, <1>4, ReadsOne
<1>6. PICK s : s = read'
  OBVIOUS
<1>7. Len(s) = n + 1 /\ s[n + 1] = c /\ \A i \in 1..n : s[i] = read[i]
  BY <1>3, <1>6, ReadIs
<1>8. n \in Nat /\ \A i \in 1..n + 1 : i = n + 1 \/ i \in 1..n
  BY <1>3, LenProperties DEF TypeInv, Formed
<1>9. \A i \in 1..n + 1 : Alone(s[i]) = meant[i]
  BY <1>1, <1>3, <1>5, <1>7, <1>8 DEF AsMeant
<1>10. Len(s) <= Len(meant) /\ Stop \in Place(meant, Len(s))
  <2>1. n + 1 # 0 /\ n + 1 <= Len(meant)
    BY <1>4, <1>8
  <2> QED BY <1>4, <1>7, <2>1 DEF Place
<1>11. AsMeant(meant, s, Stop)
  BY <1>7, <1>9, <1>10 DEF AsMeant
<1>12. listenmode' <=> \E i \in 1..n + 1 : s[i].op = "a"
  <2>1. n + 1 \in 1..n + 1 /\ \A i \in 1..n : i \in 1..n + 1
    BY <1>8
  <2> QED BY <1>1, <1>2, <1>3, <1>7, <1>8, <2>1
<1> QED BY <1>1, <1>2, <1>6, <1>7, <1>11, <1>12 DEF MeantInv

(* No program that was written down is refused.                            *)
LEMMA FailMeant ==
  ASSUME TypeInv, VectorInv, MeantInv, Fails
  PROVE  meant = Unread
<1> SUFFICES ASSUME meant # Unread PROVE FALSE
  OBVIOUS
<1>1. PICK n : n = Len(read)
  OBVIOUS
<1>2. Takes
  BY DEF Fails
<1>3. /\ ParsesTo(text[ptr], arg, meant[n + 1])
      /\ meant[n + 1].op = "j" => Found(read, sequence, meant[n + 1].name)
  BY <1>1, <1>2, NextMeant
<1> QED BY <1>3 DEF Fails

LEMMA SkipMeant ==
  ASSUME TypeInv, MeantInv, Skip
  PROVE  MeantInv'
<1> SUFFICES ASSUME meant # Unread PROVE MeantInv'
  BY DEF MeantInv, Skip
<1>1. /\ Sensible(meant) /\ text = WrittenAll(meant) /\ status # "rejected"
      /\ AsMeant(meant, read, ptr)
      /\ listenmode <=> \E i \in 1..Len(read) : read[i].op = "a"
  BY DEF MeantInv
<1>2. /\ ptr' = ptr + 1 /\ text' = text /\ read' = read /\ status' = status
      /\ listenmode' = listenmode /\ meant' = meant /\ status = "parsing"
      /\ ptr <= Len(text) /\ text[ptr] \notin Letters
  BY DEF Skip
<1>3. PICK n : n = Len(read)
  OBVIOUS
<1>4. n \in Nat /\ ptr \in 1..Len(text) + 1 /\ Len(text) \in Nat
  BY <1>3, LenProperties DEF TypeInv, Formed
<1>5. n > 0 /\ ptr + 1 = Len(Writing(meant)[n]) + 1
  <2>1. ptr # Len(text) + 1
    BY <1>2, <1>4
  <2> QED BY <1>1, <1>2, <1>3, <1>4, <2>1, PlaceIs
<1>6. AsMeant(meant, read, ptr + 1)
  BY <1>1, <1>3, <1>5 DEF AsMeant, Place
<1> QED BY <1>1, <1>2, <1>6 DEF MeantInv

LEMMA EndMeant ==
  ASSUME TypeInv, MeantInv, ParseEnd
  PROVE  MeantInv'
<1> SUFFICES ASSUME meant # Unread PROVE MeantInv'
  BY DEF MeantInv, ParseEnd
<1>1. /\ Sensible(meant) /\ text = WrittenAll(meant) /\ AsMeant(meant, read, ptr)
      /\ listenmode <=> \E i \in 1..Len(read) : read[i].op = "a"
  BY DEF MeantInv
<1>2. /\ text' = text /\ ptr' = ptr /\ read' = read /\ status' = "done"
      /\ listenmode' = listenmode /\ meant' = meant /\ ptr > Len(text)
  BY DEF ParseEnd
<1>3. PICK n : n = Len(read)
  OBVIOUS
<1>4. n \in Nat /\ ptr \in 1..Len(text) + 1 /\ Len(text) \in Nat
  BY <1>3, LenProperties DEF TypeInv, Formed
<1>5. n = Len(meant)
  <2>1. ptr \notin 1..Len(text)
    BY <1>2, <1>4
  <2> QED BY <1>1, <1>3, <1>4, <2>1, PlaceIs
<1> QED BY <1>1, <1>2, <1>3, <1>5 DEF MeantInv

(* What was read of any text may be written down.                          *)
LEMMA RewriteMeant ==
  ASSUME TypeInv, VectorInv, Rewrite
  PROVE  MeantInv'
<1>1. /\ status = "done" /\ meant' = Bare(read) /\ text' = WrittenAll(meant')
      /\ ptr' = 1 /\ read' = <<>> /\ status' = "parsing" /\ listenmode' = FALSE
  BY DEF Rewrite
<1>2. PICK r : r = read
  OBVIOUS
<1>3. PICK b : b = Bare(r)
  OBVIOUS
<1>4. r \in Seq(CommandType) /\ Len(r) \in Nat
  BY <1>2, LenProperties DEF TypeInv, Formed
<1>5. b \in Seq(CommandType) /\ Len(b) = Len(r) /\ \A i \in 1..Len(r) : b[i] = Alone(r[i])
  BY <1>3, <1>4, BareIs
<1>6. \A i \in 1..Len(r) : r[i] \in CommandType /\ WellFormed(r[i])
  BY <1>2, <1>4, ElementOfSeq DEF TypeInv, Formed
<1>7. \A i \in DOMAIN b : WellFormed(b[i]) /\ b[i].looped = <<>>
  <2>1. DOMAIN b = 1..Len(r)
    BY <1>5, LenProperties
  <2> QED BY <1>5, <1>6, <2>1, AloneIs
<1>8. LabelsFound(b)
  <2>1. LabelsFoundTo(r, Len(r))
    BY <1>1, <1>2 DEF VectorInv
  <2>2. Agree(r, b, Len(r))
    BY <1>5, <1>6, AloneIs DEF Agree
  <2>3. Len(r) <= Len(r) /\ Len(r) <= Len(b)
    BY <1>4, <1>5
  <2>4. LabelsFoundTo(b, Len(r))
    BY <1>4, <1>5, <2>1, <2>2, <2>3, LabelsAgree
  <2> QED BY <1>5, <2>4, LabelsFoundIs
<1>9. Sensible(b)
  BY <1>5, <1>7, <1>8 DEF Sensible
<1> QED BY <1>1, <1>2, <1>3, <1>5, <1>9, MeantStart DEF MeantInv

(* What has been read stays the beginning of what was meant.               *)
LEMMA MeantStep == TypeInv /\ VectorInv /\ MeantInv /\ [Next]_vars => MeantInv'
<1> SUFFICES ASSUME TypeInv, VectorInv, MeantInv, [Next]_vars PROVE MeantInv'
  OBVIOUS
<1>1. CASE UNCHANGED vars
  BY <1>1 DEF vars, MeantInv
<1>2. CASE Fails
  <2>1. meant' = Unread
    BY <1>2, FailMeant DEF Fails
  <2> QED BY <2>1 DEF MeantInv, Unread
<1> QED BY <1>1, <1>2, SkipMeant, ReadMeant, EndMeant, RewriteMeant, Steps

(* A sequence of commands that is written down is never refused, and is    *)
(* read as itself; so is what was read from any text at all.  And the      *)
(* manager listens exactly if an Answer was written.                       *)
THEOREM ReadAsWritten == Spec => []ReadsWhatIsWritten
<1> DEFINE IInv == TypeInv /\ VectorInv /\ MeantInv
<1>1. Init => IInv
  BY TypeInit, VectorInit, MeantInit
<1>2. IInv /\ [Next]_vars => IInv'
  BY TypeStep, VectorStep, MeantStep
<1>3. IInv => ReadsWhatIsWritten
  <2> SUFFICES ASSUME IInv, meant # Unread
               PROVE  /\ status # "rejected"
                      /\ status = "done" =>
                           /\ Bare(read) = meant
                           /\ listenmode <=> \E c \in ToSet(meant) : c.op = "a"
    BY DEF ReadsWhatIsWritten
  <2>1. /\ status # "rejected" /\ Sensible(meant) /\ AsMeant(meant, read, ptr)
        /\ status = "done" => Len(read) = Len(meant)
        /\ listenmode <=> \E i \in 1..Len(read) : read[i].op = "a"
    BY DEF MeantInv
  <2>2. ASSUME status = "done"
        PROVE  Bare(read) = meant /\ (listenmode <=> \E c \in ToSet(meant) : c.op = "a")
    <3>1. PICK m : m = meant
      OBVIOUS
    <3>2. read \in Seq(CommandType) /\ m \in Seq(CommandType) /\ Len(read) = Len(m)
      BY <2>1, <2>2, <3>1 DEF TypeInv, Formed, Sensible
    <3>3. \A i \in 1..Len(m) : Alone(read[i]) = m[i]
      BY <2>1, <3>1, <3>2 DEF AsMeant
    <3>4. /\ Bare(read) \in Seq(CommandType) /\ Len(Bare(read)) = Len(m)
          /\ \A i \in 1..Len(m) : Bare(read)[i] = m[i]
      BY <3>2, <3>3, BareIs
    <3>5. Bare(read) = m
      BY <3>2, <3>4, SeqEqual
    <3>6. \A i \in 1..Len(m) : m[i].op = read[i].op
      <4> TAKE i \in 1..Len(m)
      <4>1. read[i] \in CommandType
        BY <3>2, ElementOfSeq
      <4> QED BY <3>3, <4>1, AloneIs
    <3>7. (\E c \in ToSet(m) : c.op = "a") <=> \E i \in 1..Len(m) : m[i].op = "a"
      <4>1. DOMAIN m = 1..Len(m)
        BY <3>2, LenProperties
      <4> QED BY <4>1 DEF ToSet
    <3> QED BY <2>1, <3>1, <3>2, <3>5, <3>6, <3>7
  <2> QED BY <2>1, <2>2
<1> HIDE DEF IInv
<1> QED BY <1>1, <1>2, <1>3, PTL DEF Spec

=============================================================================
