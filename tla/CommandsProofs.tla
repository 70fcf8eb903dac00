---------------------------- MODULE CommandsProofs ---------------------------
(***************************************************************************)
(* That the interpreter of Commands is type correct and runs no command    *)
(* twice under one suffix, for every text.                                 *)
(*                                                                         *)
(* A vector within a vector is no state that an invariant can be defined   *)
(* over without recursion.  The invariant says instead that there is a set *)
(* V of vectors, closed under the bodies of the loops they hold, to which  *)
(* the vectors of all activations belong, each with the interval of the    *)
(* text it stands in.  Of the log it says that, seen from any activation,  *)
(* what was run of its vector belongs to an earlier round of some loop     *)
(* around it or stands before the command the activation is at, so that    *)
(* the command that is next was never run under the suffix it has now.     *)
(***************************************************************************)
EXTENDS Commands, SequenceTheorems, WellFoundedInduction, TLAPS

(* A vector of commands of C with the interval lo..hi, both ends excluded, *)
(* in which its commands stand in the text.                                *)
VectorIn(C) == [seq : Seq(C), lo : Nat, hi : Nat]

(* The id of the command before position i of v, or the lower bound of v.  *)
Before(v, i) == IF i = 1 THEN v.lo ELSE v.seq[i - 1].id

(* The vector of the loop at position i: it stands between the command     *)
(* before the loop and the loop itself.  A command that is no loop has an  *)
(* empty one.                                                              *)
Body(v, i) ==
  [seq |-> v.seq[i].loopedsequence, lo |-> Before(v, i), hi |-> v.seq[i].id]

(* The commands of v are in the order of the text and within its interval, *)
(* and V holds all their bodies.                                           *)
WellNested(C, V, v) ==
  /\ v \in VectorIn(C) /\ v.lo < v.hi
  /\ \A i \in 1..Len(v.seq) :
       /\ v.seq[i].id \in Nat /\ v.seq[i].loops \in Nat
       /\ v.lo < v.seq[i].id /\ v.seq[i].id < v.hi
       /\ \A j \in 1..i - 1 : v.seq[j].id < v.seq[i].id
       /\ Body(v, i) \in V

(* V holds the bodies of the loops of its vectors, down to the innermost.  *)
Closed(C, V) == \A v \in V : WellNested(C, V, v)

(* What stands behind position m of v, and v with c in the place of that.  *)
Rest(v, m) ==
  [seq |-> SubSeq(v.seq, m + 1, Len(v.seq)), lo |-> Before(v, m + 1), hi |-> v.hi]

Closing(v, m, c) ==
  [seq |-> Append(SubSeq(v.seq, 1, m), c), lo |-> v.lo, hi |-> v.hi + 1]

(* The vector of the script, with all that was parsed as its interval.     *)
Text == [seq |-> sequence, lo |-> 0, hi |-> Len(cmds) + 1]

(* A set of positions has a greatest one.                                  *)
LEMMA MaxExists ==
  ASSUME NEW n \in Nat, NEW S \in SUBSET (0..n), S # {}
  PROVE  Max(S) \in S /\ \A y \in S : Max(S) >= y
<1> DEFINE T == {n - x : x \in S}
           L == OpToRel(<, Nat)
<1>1. T \subseteq Nat /\ T # {}
  <2>1. PICK x \in S : TRUE
    OBVIOUS
  <2>2. n - x \in T
    OBVIOUS
  <2>3. \A x1 \in S : n - x1 \in Nat
    OBVIOUS
  <2> QED BY <2>2, <2>3
<1>2. PICK x \in T : \A y \in T : ~(<<y, x>> \in L)
  <2> HIDE DEF T, L
  <2> QED BY <1>1, WFMin, NatLessThanWellFounded DEF L
<1>3. \A y \in T : x <= y
  <2> SUFFICES ASSUME NEW y \in T PROVE x <= y
    OBVIOUS
  <2>1. x \in Nat /\ y \in Nat
    BY <1>1
  <2>2. CASE y < x
    <3>1. <<y, x>> \in L
      BY <2>1, <2>2 DEF OpToRel
    <3> QED BY <3>1, <1>2
  <2> QED BY <2>1, <2>2
<1>4. n - x \in S /\ \A y \in S : n - x >= y
  BY <1>3
<1> QED BY <1>4 DEF Max

(* The commands of the rest are those of the vector, each behind the same. *)
LEMMA RestOf ==
  ASSUME NEW C, NEW v, v \in VectorIn(C), NEW m \in 0..Len(v.seq)
  PROVE  /\ Rest(v, m).seq \in Seq(C) /\ Len(Rest(v, m).seq) = Len(v.seq) - m
         /\ \A i \in 1..Len(v.seq) - m :
              m + i \in 1..Len(v.seq) /\ Rest(v, m).seq[i] = v.seq[m + i]
         /\ \A i \in 1..(Len(v.seq) - m) + 1 : Before(Rest(v, m), i) = Before(v, m + i)
<1> DEFINE n == Len(v.seq)
           r == SubSeq(v.seq, m + 1, n)
<1>1. v.seq \in Seq(C) /\ n \in Nat /\ \A i \in 1..n : v.seq[i] \in C
  BY ElementOfSeq DEF VectorIn
<1>2. /\ r \in Seq(C) /\ Len(r) = n - m
      /\ \A i \in 1..n - m : r[i] = v.seq[m + i]
  <2>1. \A i \in m + 1..n : v.seq[i] \in C
    BY <1>1
  <2> QED BY <1>1, <2>1, SubSeqProperties
<1>3. Rest(v, m).seq = r /\ Rest(v, m).lo = Before(v, m + 1)
  BY DEF Rest
<1> HIDE DEF r
<1>4. ASSUME NEW i \in 1..(n - m) + 1
      PROVE  Before(Rest(v, m), i) = Before(v, m + i)
  <2>1. CASE i = 1
    BY <2>1, <1>3 DEF Before
  <2>2. CASE i > 1
    <3>1. i - 1 \in 1..n - m /\ m + (i - 1) = (m + i) - 1 /\ m + i # 1
      BY <2>2, <1>1
    <3> QED BY <2>2, <3>1, <1>2, <1>3 DEF Before
  <2> QED BY <1>1, <2>1, <2>2
<1>5. \A i \in 1..n - m : m + i \in 1..n
  BY <1>1
<1> QED BY <1>2, <1>3, <1>4, <1>5

(* The commands of the vector that is closed, each behind the same.        *)
LEMMA ClosingOf ==
  ASSUME NEW C, NEW v, v \in VectorIn(C), NEW m \in 0..Len(v.seq), NEW c
  PROVE  /\ Closing(v, m, c).seq \in Seq(C \cup {c})
         /\ Len(Closing(v, m, c).seq) = m + 1 /\ Closing(v, m, c).seq[m + 1] = c
         /\ \A i \in 1..m : Closing(v, m, c).seq[i] = v.seq[i]
         /\ \A i \in 1..m + 1 : Before(Closing(v, m, c), i) = Before(v, i)
<1> DEFINE front == SubSeq(v.seq, 1, m)
           D == C \cup {c}
           w == Closing(v, m, c)
<1>1. v.seq \in Seq(C) /\ Len(v.seq) \in Nat /\ \A i \in 1..Len(v.seq) : v.seq[i] \in C
  BY ElementOfSeq DEF VectorIn
<1>2. /\ front \in Seq(C) /\ Len(front) = m
      /\ \A i \in 1..m : front[i] = v.seq[i]
  <2>1. \A i \in 1..m : v.seq[i] \in C
    BY <1>1
  <2> QED BY <1>1, <2>1, SubSeqProperties
<1>3. w.seq = Append(front, c) /\ w.lo = v.lo
  BY DEF Closing
<1>4. /\ w.seq \in Seq(D) /\ Len(w.seq) = m + 1 /\ w.seq[m + 1] = c
      /\ \A i \in 1..m : w.seq[i] = v.seq[i]
  <2>1. front \in Seq(D) /\ c \in D
    BY <1>2, SeqMonotonic
  <2> HIDE DEF front, D, w
  <2> QED BY <2>1, <1>2, <1>3
<1> HIDE DEF front, D, w
<1>5. ASSUME NEW i \in 1..m + 1
      PROVE  Before(w, i) = Before(v, i)
  <2>1. CASE i = 1
    BY <2>1, <1>3 DEF Before
  <2>2. CASE i > 1
    <3>1. i - 1 \in 1..m
      BY <2>2
    <3> QED BY <2>2, <3>1, <1>4 DEF Before
  <2> QED BY <2>1, <2>2
<1>6. Closing(v, m, c).seq \in Seq(C \cup {c})
  BY <1>4 DEF w, D
<1> QED BY <1>4, <1>5, <1>6 DEF w

(* A loop that takes the commands behind position m into its body leaves   *)
(* the vectors nested: the commands of the body lie between the command    *)
(* before them and the loop (Loop::PopToInnerSequence and                  *)
(* Loop::ParseCommand).                                                    *)
LEMMA Enclosed ==
  ASSUME NEW C, NEW V, Closed(C, V),
         NEW v, WellNested(C, V, v),
         NEW m \in 0..Len(v.seq),
         NEW c, c.id = v.hi, c.loops \in Nat, c.loopedsequence = Rest(v, m).seq
  PROVE  /\ Closed(C \cup {c}, V \cup {Rest(v, m)})
         /\ WellNested(C \cup {c}, V \cup {Rest(v, m)}, Closing(v, m, c))
<1> DEFINE n == Len(v.seq)
           body == Rest(v, m)
           w == Closing(v, m, c)
           D == C \cup {c}
           W == V \cup {body}
<1>1. /\ v \in VectorIn(C)
      /\ v.seq \in Seq(C) /\ v.lo \in Nat /\ v.hi \in Nat /\ v.lo < v.hi /\ n \in Nat
      /\ \A i \in 1..n : v.seq[i] \in C
  BY ElementOfSeq DEF WellNested, VectorIn
<1>2. /\ body.seq \in Seq(C) /\ Len(body.seq) = n - m
      /\ \A i \in 1..n - m : body.seq[i] = v.seq[m + i]
      /\ \A i \in 1..n - m : Before(body, i) = Before(v, m + i)
      /\ body.lo = Before(v, m + 1) /\ body.hi = v.hi
      /\ body = [seq |-> body.seq, lo |-> body.lo, hi |-> body.hi]
  <2>1. \A i \in 1..n - m : i \in 1..(n - m) + 1
    BY <1>1
  <2>2. /\ body.lo = Before(v, m + 1) /\ body.hi = v.hi
        /\ body = [seq |-> body.seq, lo |-> body.lo, hi |-> body.hi]
    BY DEF Rest
  <2> QED BY <1>1, <2>1, <2>2, RestOf
<1>3. /\ w.seq \in Seq(D) /\ Len(w.seq) = m + 1 /\ w.seq[m + 1] = c
      /\ \A i \in 1..m : w.seq[i] = v.seq[i]
      /\ \A i \in 1..m + 1 : Before(w, i) = Before(v, i)
      /\ w.lo = v.lo /\ w.hi = v.hi + 1
      /\ w = [seq |-> w.seq, lo |-> w.lo, hi |-> w.hi]
  <2>1. /\ w.lo = v.lo /\ w.hi = v.hi + 1
        /\ w = [seq |-> w.seq, lo |-> w.lo, hi |-> w.hi]
    BY DEF Closing
  <2>2. v \in VectorIn(C) /\ m \in 0..Len(v.seq)
    BY <1>1
  <2>3. /\ Closing(v, m, c).seq \in Seq(C \cup {c})
        /\ Len(Closing(v, m, c).seq) = m + 1 /\ Closing(v, m, c).seq[m + 1] = c
        /\ \A i \in 1..m : Closing(v, m, c).seq[i] = v.seq[i]
        /\ \A i \in 1..m + 1 : Before(Closing(v, m, c), i) = Before(v, i)
    BY <2>2, ClosingOf
  <2> QED BY <2>1, <2>3
<1> HIDE DEF body, w
<1>4. \A i \in 1..n :
        /\ v.seq[i].id \in Nat /\ v.seq[i].loops \in Nat
        /\ v.seq[i].id < v.hi /\ v.lo < v.seq[i].id
        /\ \A j \in 1..i - 1 : v.seq[j].id < v.seq[i].id
        /\ Body(v, i) \in V
  BY DEF WellNested
<1>5. WellNested(D, W, body)
  <2>1. Before(v, m + 1) \in Nat /\ v.lo <= Before(v, m + 1) /\ Before(v, m + 1) < v.hi
    <3>1. CASE m = 0
      BY <3>1, <1>1 DEF Before
    <3>2. CASE m > 0
      BY <3>2, <1>1 DEF Before, WellNested
    <3> QED BY <3>1, <3>2
  <2>2. body \in VectorIn(D)
    <3>1. body.seq \in Seq(D)
      BY <1>2, SeqMonotonic
    <3> HIDE DEF D
    <3> QED BY <2>1, <3>1, <1>1, <1>2 DEF VectorIn
  <2>3. ASSUME NEW i \in 1..Len(body.seq)
        PROVE  /\ body.seq[i].id \in Nat /\ body.seq[i].loops \in Nat
               /\ body.lo < body.seq[i].id /\ body.seq[i].id < body.hi
               /\ \A j \in 1..i - 1 : body.seq[j].id < body.seq[i].id
               /\ Body(body, i) \in W
    <3>1. m + i \in 1..n /\ body.seq[i] = v.seq[m + i]
      BY <1>1, <1>2
    <3>2. /\ v.seq[m + i].id \in Nat /\ v.seq[m + i].loops \in Nat
          /\ v.seq[m + i].id < v.hi /\ v.lo < v.seq[m + i].id
          /\ \A j \in 1..(m + i) - 1 : v.seq[j].id < v.seq[m + i].id
          /\ Body(v, m + i) \in V
      BY <3>1, <1>4, Zenon
    <3>3. body.lo < body.seq[i].id
      <4>1. CASE m = 0
        BY <4>1, <3>1, <3>2, <1>2 DEF Before
      <4>2. CASE m > 0
        <5>1. m \in 1..(m + i) - 1 /\ body.lo = v.seq[m].id
          BY <4>2, <3>1, <1>2 DEF Before
        <5> QED BY <5>1, <3>1, <3>2
      <4> QED BY <4>1, <4>2
    <3>4. \A j \in 1..i - 1 : body.seq[j].id < body.seq[i].id
      <4> TAKE j \in 1..i - 1
      <4>1. j \in 1..n - m /\ m + j \in 1..(m + i) - 1
        BY <1>1, <1>2
      <4> QED BY <4>1, <3>1, <3>2, <1>2
    <3>5. Body(body, i) = Body(v, m + i)
      BY <3>1, <1>2 DEF Body
    <3> QED BY <3>1, <3>2, <3>3, <3>4, <3>5, <1>2
  <2> HIDE DEF D, W
  <2>4. body.lo < body.hi
    BY <2>1, <1>2
  <2> QED BY <2>2, <2>3, <2>4 DEF WellNested
<1>6. Closed(D, W)
  <2>1. ASSUME NEW u \in V PROVE WellNested(D, W, u)
    <3>1. WellNested(C, V, u)
      BY DEF Closed
    <3>2. u \in VectorIn(D)
      BY <3>1, SeqMonotonic DEF WellNested, VectorIn
    <3> QED BY <3>1, <3>2 DEF WellNested
  <2> QED BY <2>1, <1>5 DEF Closed
<1>7. WellNested(D, W, w)
  <2>1. w \in VectorIn(D) /\ w.lo < w.hi
    BY <1>1, <1>3 DEF VectorIn
  <2>2. ASSUME NEW i \in 1..Len(w.seq)
        PROVE  /\ w.seq[i].id \in Nat /\ w.seq[i].loops \in Nat
               /\ w.lo < w.seq[i].id /\ w.seq[i].id < w.hi
               /\ \A j \in 1..i - 1 : w.seq[j].id < w.seq[i].id
               /\ Body(w, i) \in W
    <3>1. Before(w, i) = Before(v, i)
      BY <1>3
    <3>2. CASE i \in 1..m
      <4>1. /\ v.seq[i].id \in Nat /\ v.seq[i].loops \in Nat
            /\ v.seq[i].id < v.hi /\ v.lo < v.seq[i].id
            /\ \A j \in 1..i - 1 : v.seq[j].id < v.seq[i].id
            /\ Body(v, i) \in V
        BY <3>2, <1>1 DEF WellNested
      <4>2. w.seq[i] = v.seq[i] /\ \A j \in 1..i - 1 : w.seq[j] = v.seq[j]
        BY <3>2, <1>3
      <4>3. Body(w, i) = Body(v, i)
        BY <3>1, <4>2 DEF Body
      <4>4. v.seq[i].id < w.hi /\ w.lo = v.lo
        BY <4>1, <1>1, <1>3, <3>2
      <4> QED BY <4>1, <4>2, <4>3, <4>4, Zenon
    <3>3. CASE i = m + 1
      <4>1. w.seq[i] = c /\ Body(w, i) = body
        BY <3>1, <3>3, <1>2, <1>3 DEF Body, body
      <4>2. \A j \in 1..i - 1 : w.seq[j].id < c.id
        <5>1. \A j \in 1..m : j \in 1..n /\ w.seq[j] = v.seq[j]
          BY <1>1, <1>3
        <5> QED BY <3>3, <5>1, <1>4
      <4>3. c.id \in Nat /\ w.lo < c.id /\ c.id < w.hi
        BY <1>1, <1>3
      <4> QED BY <4>1, <4>2, <4>3
    <3> QED BY <3>2, <3>3, <1>3
  <2> HIDE DEF D, W
  <2> QED BY <2>1, <2>2 DEF WellNested
<1> QED BY <1>6, <1>7 DEF body, w

-----------------------------------------------------------------------------

(* t is s with the rounds of further loops.                                *)
Continues(t, s) ==
  Len(s) <= Len(t) /\ \A i \in 1..Len(s) : t[i] = s[i]

(* s is of an earlier round than t, in the outermost loop they differ in.  *)
Earlier(s, t) ==
  \E i \in 1..Len(s) : /\ i <= Len(t) /\ s[i] < t[i]
                       /\ \A j \in 1..i - 1 : s[j] = t[j]

(* A suffix continues itself and is not earlier than itself.               *)
LEMMA SameSuffix ==
  ASSUME NEW s \in Seq(Nat)
  PROVE  Continues(s, s) /\ ~Earlier(s, s)
<1>1. Len(s) \in Nat /\ \A i \in 1..Len(s) : s[i] \in Nat
  OBVIOUS
<1>2. Continues(s, s)
  BY <1>1 DEF Continues
<1>3. ~Earlier(s, s)
  BY <1>1 DEF Earlier
<1> QED BY <1>2, <1>3

(* To continue a suffix is transitive.                                     *)
LEMMA ContinuesTransitive ==
  ASSUME NEW s \in Seq(Nat), NEW t \in Seq(Nat), NEW u \in Seq(Nat),
         Continues(t, s), Continues(u, t)
  PROVE  Continues(u, s)
<1>1. Len(s) \in Nat /\ Len(t) \in Nat /\ Len(u) \in Nat
  OBVIOUS
<1> QED BY <1>1 DEF Continues

(* What is earlier than a suffix is earlier than each that continues it.   *)
LEMMA EarlierContinued ==
  ASSUME NEW s \in Seq(Nat), NEW t \in Seq(Nat), NEW u \in Seq(Nat),
         Earlier(u, s), Continues(t, s)
  PROVE  Earlier(u, t)
<1>1. Len(s) \in Nat /\ Len(t) \in Nat /\ Len(u) \in Nat
  OBVIOUS
<1>2. PICK i \in 1..Len(u) : /\ i <= Len(s) /\ u[i] < s[i]
                             /\ \A j \in 1..i - 1 : u[j] = s[j]
  BY DEF Earlier
<1>3. i <= Len(t) /\ t[i] = s[i] /\ \A j \in 1..i - 1 : t[j] = s[j]
  BY <1>1, <1>2 DEF Continues
<1> QED BY <1>2, <1>3 DEF Earlier

(* What was run in or before one round of a loop is earlier than the next  *)
(* round.                                                                  *)
LEMMA NextRound ==
  ASSUME NEW s \in Seq(Nat), NEW n \in Nat, NEW u \in Seq(Nat),
         Earlier(u, Append(s, n)) \/ Continues(u, Append(s, n))
  PROVE  Earlier(u, Append(s, n + 1))
<1> DEFINE old == Append(s, n)
           new == Append(s, n + 1)
<1>1. /\ Len(s) \in Nat /\ Len(u) \in Nat
      /\ Len(old) = Len(s) + 1 /\ Len(new) = Len(s) + 1
      /\ old[Len(s) + 1] = n /\ new[Len(s) + 1] = n + 1
      /\ \A i \in 1..Len(s) : old[i] = s[i] /\ new[i] = s[i] /\ s[i] \in Nat
      /\ \A i \in 1..Len(u) : u[i] \in Nat
  OBVIOUS
<1> HIDE DEF old, new
<1>2. ASSUME Earlier(u, old) PROVE Earlier(u, new)
  <2>1. PICK i \in 1..Len(u) : /\ i <= Len(old) /\ u[i] < old[i]
                               /\ \A j \in 1..i - 1 : u[j] = old[j]
    BY <1>2 DEF Earlier
  <2>2. u[i] < new[i]
    <3>1. CASE i = Len(s) + 1
      BY <1>1, <2>1, <3>1
    <3>2. CASE i # Len(s) + 1
      BY <1>1, <2>1, <3>2
    <3> QED BY <3>1, <3>2
  <2>3. \A j \in 1..i - 1 : u[j] = new[j]
    <3> TAKE j \in 1..i - 1
    <3>1. j \in 1..Len(s) /\ u[j] = old[j]
      BY <1>1, <2>1
    <3> QED BY <1>1, <3>1
  <2> QED BY <1>1, <2>1, <2>2, <2>3 DEF Earlier
<1>3. ASSUME Continues(u, old) PROVE Earlier(u, new)
  <2>1. /\ Len(s) + 1 \in 1..Len(u) /\ u[Len(s) + 1] = n
        /\ \A j \in 1..(Len(s) + 1) - 1 : u[j] = new[j]
    BY <1>1, <1>3 DEF Continues
  <2>2. u[Len(s) + 1] < new[Len(s) + 1] /\ Len(s) + 1 <= Len(new)
    BY <1>1, <2>1
  <2> QED BY <2>1, <2>2 DEF Earlier
<1> QED BY <1>2, <1>3 DEF old, new

(* The suffix of a loop's body continues that of the loop.                 *)
LEMMA LongerSuffix ==
  ASSUME NEW s \in Seq(Nat), NEW n \in Nat
  PROVE  Append(s, n) \in Seq(Nat) /\ Continues(Append(s, n), s)
BY DEF Continues
-----------------------------------------------------------------------------

(* The activations of Command::Run for vectors of commands of C.           *)
FrameIn(C) == [seq : Seq(C), it : Nat, timesleft : Nat, loops : Nat, loopsuffix : Seq(Nat)]

VectorOf(f, l, h) == [seq |-> f.seq, lo |-> l, hi |-> h]

(* The last command an activation has passed, and the one it is at.        *)
LastPassed(f, l) == Before(VectorOf(f, l, 0), f.it)

Current(f) == f.seq[f.it].id

(* The activation k runs a vector of V, and each activation below it is at *)
(* a command whose body that vector is or contains: the interval of k lies *)
(* behind what the lower one has passed and before the command it is at.   *)
Level(V, fs, lo, hi, k) ==
  /\ VectorOf(fs[k], lo[k], hi[k]) \in V
  /\ fs[k].it \in 1..Len(fs[k].seq) + 1
  /\ fs[k].timesleft = 0 \/ fs[k].timesleft < fs[k].loops
  /\ \A p \in 1..k - 1 :
       /\ fs[p].it <= Len(fs[p].seq)
       /\ LastPassed(fs[p], lo[p]) <= lo[k] /\ hi[k] <= Current(fs[p])
       /\ Continues(fs[k].loopsuffix, fs[p].loopsuffix)
  /\ k > 1 => fs[k].loopsuffix = Append(fs[k - 1].loopsuffix, fs[k].timesleft)

(* The activations, nested one in the other.                               *)
Stack(C, V, fs, lo, hi) ==
  /\ fs \in Seq(FrameIn(C)) /\ lo \in [Nat -> Nat] /\ hi \in [Nat -> Nat]
  /\ \A k \in 1..Len(fs) : Level(V, fs, lo, hi, k)

(* The types of an activation, and where its next command stands: behind   *)
(* the last one it has passed and before its upper bound.                  *)
LEMMA StackType ==
  ASSUME NEW C, NEW V, NEW fs, NEW lo, NEW hi, Stack(C, V, fs, lo, hi), Closed(C, V)
  PROVE  /\ Len(fs) \in Nat
         /\ \A k \in 1..Len(fs) :
              /\ fs[k] \in FrameIn(C) /\ lo[k] \in Nat /\ hi[k] \in Nat
              /\ WellNested(C, V, VectorOf(fs[k], lo[k], hi[k]))
              /\ lo[k] <= LastPassed(fs[k], lo[k]) /\ LastPassed(fs[k], lo[k]) < hi[k]
              /\ LastPassed(fs[k], lo[k]) \in Nat
              /\ fs[k].it <= Len(fs[k].seq) =>
                   /\ Current(fs[k]) \in Nat /\ Current(fs[k]) < hi[k]
                   /\ LastPassed(fs[k], lo[k]) < Current(fs[k])
<1>1. fs \in Seq(FrameIn(C)) /\ Len(fs) \in Nat
  BY DEF Stack
<1>2. SUFFICES ASSUME NEW k \in 1..Len(fs)
      PROVE   /\ fs[k] \in FrameIn(C) /\ lo[k] \in Nat /\ hi[k] \in Nat
              /\ WellNested(C, V, VectorOf(fs[k], lo[k], hi[k]))
              /\ lo[k] <= LastPassed(fs[k], lo[k]) /\ LastPassed(fs[k], lo[k]) < hi[k]
              /\ LastPassed(fs[k], lo[k]) \in Nat
              /\ fs[k].it <= Len(fs[k].seq) =>
                   /\ Current(fs[k]) \in Nat /\ Current(fs[k]) < hi[k]
                   /\ LastPassed(fs[k], lo[k]) < Current(fs[k])
  BY <1>1
<1>3. fs[k] \in FrameIn(C) /\ lo[k] \in Nat /\ hi[k] \in Nat
  BY <1>1, ElementOfSeq DEF Stack
<1>4. WellNested(C, V, VectorOf(fs[k], lo[k], hi[k])) /\ fs[k].it \in 1..Len(fs[k].seq) + 1
  BY DEF Stack, Closed, Level
<1>5. /\ lo[k] < hi[k] /\ Len(fs[k].seq) \in Nat
      /\ \A i \in 1..Len(fs[k].seq) :
           /\ fs[k].seq[i].id \in Nat /\ lo[k] < fs[k].seq[i].id /\ fs[k].seq[i].id < hi[k]
           /\ \A j \in 1..i - 1 : fs[k].seq[j].id < fs[k].seq[i].id
  BY <1>3, <1>4 DEF WellNested, VectorOf, FrameIn
<1>6. /\ LastPassed(fs[k], lo[k]) \in Nat
      /\ lo[k] <= LastPassed(fs[k], lo[k]) /\ LastPassed(fs[k], lo[k]) < hi[k]
      /\ fs[k].it <= Len(fs[k].seq) => LastPassed(fs[k], lo[k]) < Current(fs[k])
  <2>1. CASE fs[k].it = 1
    BY <2>1, <1>3, <1>5 DEF LastPassed, Before, VectorOf, Current
  <2>2. CASE fs[k].it > 1
    <3>1. fs[k].it - 1 \in 1..Len(fs[k].seq) /\ fs[k].it # 1
      BY <2>2, <1>4, <1>5
    <3>2. LastPassed(fs[k], lo[k]) = fs[k].seq[fs[k].it - 1].id
      BY <3>1 DEF LastPassed, Before, VectorOf
    <3>3. ASSUME fs[k].it <= Len(fs[k].seq)
          PROVE  fs[k].seq[fs[k].it - 1].id < fs[k].seq[fs[k].it].id
      <4>1. fs[k].it \in 1..Len(fs[k].seq) /\ fs[k].it - 1 \in 1..fs[k].it - 1
        BY <3>1, <3>3, <1>4, <1>5
      <4> QED BY <4>1, <1>5
    <3> QED BY <3>1, <3>2, <3>3, <1>3, <1>5 DEF Current
  <2> QED BY <2>1, <2>2, <1>4
<1>7. fs[k].it <= Len(fs[k].seq) => Current(fs[k]) \in Nat /\ Current(fs[k]) < hi[k]
  BY <1>4, <1>5 DEF Current
<1> QED BY <1>3, <1>4, <1>6, <1>7

(* fs2 is the first n activations of fs, the last of them at another       *)
(* command or in another round.                                            *)
TopChanged(C, fs, fs2, n) ==
  /\ n \in 1..Len(fs) /\ fs2 \in Seq(FrameIn(C)) /\ Len(fs2) = n
  /\ \A k \in 1..n - 1 : fs2[k] = fs[k]
  /\ fs2[n].seq = fs[n].seq /\ fs2[n].it \in 1..Len(fs[n].seq) + 1
  /\ fs2[n].timesleft = 0 \/ fs2[n].timesleft < fs2[n].loops
  /\ n > 1 => fs2[n].loopsuffix = Append(fs[n - 1].loopsuffix, fs2[n].timesleft)

(* The activations stay nested when some are left and the one then on top  *)
(* goes on or begins another round.                                        *)
LEMMA StackChanged ==
  ASSUME NEW C, NEW V, NEW fs, NEW fs2, NEW lo, NEW hi, NEW n,
         Stack(C, V, fs, lo, hi), TopChanged(C, fs, fs2, n)
  PROVE  Stack(C, V, fs2, lo, hi)
<1>1. fs \in Seq(FrameIn(C)) /\ Len(fs) \in Nat
  BY DEF Stack
<1>2. lo \in [Nat -> Nat] /\ hi \in [Nat -> Nat]
  BY DEF Stack
<1>3. /\ n \in Nat /\ 1 <= n /\ n <= Len(fs) /\ fs2 \in Seq(FrameIn(C)) /\ Len(fs2) = n
      /\ \A k \in 1..n - 1 : fs2[k] = fs[k]
  BY <1>1 DEF TopChanged
<1>4. /\ \A k \in 1..Len(fs) : fs[k] \in FrameIn(C)
      /\ \A k \in 1..n : fs2[k] \in FrameIn(C)
  BY <1>1, <1>3, ElementOfSeq
<1>5. ASSUME NEW k \in 1..n
      PROVE  Level(V, fs2, lo, hi, k)
  <2>1. k \in 1..Len(fs)
    BY <1>1, <1>3
  <2>2. Level(V, fs, lo, hi, k)
    BY <2>1 DEF Stack
  <2>3. \A p \in 1..k - 1 : fs2[p] = fs[p]
    BY <1>3
  <2>4. CASE k < n
    <3>1. fs2[k] = fs[k] /\ (k > 1 => fs2[k - 1] = fs[k - 1])
      BY <1>3, <2>4
    <3> QED BY <2>2, <2>3, <3>1 DEF Level
  <2>5. CASE k = n
    <3>1. VectorOf(fs2[k], lo[k], hi[k]) \in V
      BY <2>2, <2>5 DEF VectorOf, TopChanged, Level
    <3>2. ASSUME NEW p \in 1..k - 1
          PROVE  Continues(fs2[k].loopsuffix, fs[p].loopsuffix)
      <4>1. k - 1 \in 1..Len(fs) /\ p \in 1..Len(fs)
        BY <1>1, <1>3, <2>5
      <4>2. /\ fs[k - 1] \in FrameIn(C) /\ fs[p] \in FrameIn(C) /\ fs2[k] \in FrameIn(C)
        BY <1>4, <4>1
      <4>3. /\ fs[k - 1].loopsuffix \in Seq(Nat) /\ fs[p].loopsuffix \in Seq(Nat)
            /\ fs2[k].timesleft \in Nat
        BY <4>2 DEF FrameIn
      <4>4. Continues(fs[k - 1].loopsuffix, fs[p].loopsuffix)
        <5>1. CASE p = k - 1
          BY <4>3, <5>1, SameSuffix
        <5>2. CASE p # k - 1
          <6>1. p \in 1..(k - 1) - 1
            BY <5>2
          <6> QED BY <4>1, <6>1 DEF Stack, Level
        <5> QED BY <5>1, <5>2
      <4>5. fs2[k].loopsuffix = Append(fs[k - 1].loopsuffix, fs2[k].timesleft)
        BY <2>5, <4>3 DEF TopChanged
      <4> QED BY <4>3, <4>4, <4>5, LongerSuffix, ContinuesTransitive
    <3>3. k > 1 => fs2[k - 1] = fs[k - 1]
      BY <2>5, <1>3
    <3> QED BY <2>2, <2>3, <2>5, <3>1, <3>2, <3>3 DEF TopChanged, Level
  <2> QED BY <2>4, <2>5, <1>3
<1> QED BY <1>1, <1>5, <1>3, <1>2 DEF Stack

(* The activations stay nested when the body of a loop is entered          *)
(* (Loop::RunCommand calls Command::Run).                                  *)
LEMMA StackPushed ==
  ASSUME NEW C, NEW V, NEW fs, NEW lo, NEW hi, Closed(C, V),
         Stack(C, V, fs, lo, hi), fs # <<>>,
         NEW f, f = fs[Len(fs)], f.it <= Len(f.seq)
  PROVE  Stack(C, V,
               Append(fs, Frame(f.seq[f.it].loopedsequence, f.seq[f.it].loops,
                                Append(f.loopsuffix, 0))),
               [lo EXCEPT ![Len(fs) + 1] = LastPassed(f, lo[Len(fs)])],
               [hi EXCEPT ![Len(fs) + 1] = Current(f)])
<1> DEFINE n == Len(fs)
           c == f.seq[f.it]
           new == Frame(c.loopedsequence, c.loops, Append(f.loopsuffix, 0))
           fs2 == Append(fs, new)
           lo2 == [lo EXCEPT ![n + 1] = LastPassed(f, lo[n])]
           hi2 == [hi EXCEPT ![n + 1] = Current(f)]
<1>1. fs \in Seq(FrameIn(C)) /\ n \in Nat \ {0}
  BY EmptySeq DEF Stack
<1>2. lo \in [Nat -> Nat] /\ hi \in [Nat -> Nat]
  BY DEF Stack
<1>3. /\ n \in Nat /\ n > 0 /\ n \in 1..n
      /\ \A k \in 1..n : fs[k] \in FrameIn(C)
  BY <1>1, ElementOfSeq
<1>4. Level(V, fs, lo, hi, n)
  BY <1>3 DEF Stack
<1>5. f \in FrameIn(C) /\ Len(f.seq) \in Nat
  BY <1>3 DEF FrameIn
<1>6. f.it \in 1..Len(f.seq)
  BY <1>4, <1>5 DEF Level
<1>7. /\ WellNested(C, V, VectorOf(f, lo[n], hi[n]))
      /\ LastPassed(f, lo[n]) \in Nat /\ Current(f) \in Nat
  BY <1>3, <1>6, StackType
<1>8. Body(VectorOf(f, lo[n], hi[n]), f.it) \in V /\ c.loops \in Nat
  BY <1>7, <1>6 DEF WellNested, VectorOf
<1>9. /\ VectorOf(new, LastPassed(f, lo[n]), Current(f)) \in V
      /\ c.loopedsequence \in Seq(C)
  <2>1. Body(VectorOf(f, lo[n], hi[n]), f.it)
          = VectorOf(new, LastPassed(f, lo[n]), Current(f))
    BY DEF Body, VectorOf, LastPassed, Before, Current, Frame
  <2>2. WellNested(C, V, VectorOf(new, LastPassed(f, lo[n]), Current(f)))
    BY <1>8, <2>1 DEF Closed
  <2>3. new.seq \in Seq(C)
    BY <2>2 DEF WellNested, VectorIn, VectorOf
  <2> QED BY <1>8, <2>1, <2>3 DEF Frame
<1>10. /\ new \in FrameIn(C) /\ new.it = 1 /\ new.timesleft = 0
       /\ new.loopsuffix = Append(f.loopsuffix, 0) /\ f.loopsuffix \in Seq(Nat)
       /\ Len(new.seq) \in Nat
  BY <1>5, <1>8, <1>9, LongerSuffix DEF FrameIn, Frame
<1> HIDE DEF new
<1>11. /\ fs2 \in Seq(FrameIn(C)) /\ Len(fs2) = n + 1 /\ fs2[n + 1] = new
       /\ \A k \in 1..n : fs2[k] = fs[k]
  BY <1>1, <1>10
<1>12. lo2 \in [Nat -> Nat] /\ hi2 \in [Nat -> Nat]
  BY <1>2, <1>7, <1>3
<1>13. \A k \in 1..n + 1 : k \in DOMAIN lo /\ k \in DOMAIN hi
  BY <1>3, <1>2
<1>14. /\ lo2[n + 1] = LastPassed(f, lo[n]) /\ hi2[n + 1] = Current(f)
       /\ \A k \in 1..n : lo2[k] = lo[k] /\ hi2[k] = hi[k]
  BY <1>3, <1>13
<1> HIDE DEF fs2, lo2, hi2, c
<1>15. ASSUME NEW k \in 1..n + 1
       PROVE  Level(V, fs2, lo2, hi2, k)
  <2>1. CASE k \in 1..n
    <3>1. Level(V, fs, lo, hi, k)
      BY <2>1 DEF Stack
    <3>2. \A p \in 1..k : p \in 1..n
      BY <2>1, <1>3
    <3>3. \A p \in 1..k : fs2[p] = fs[p] /\ lo2[p] = lo[p] /\ hi2[p] = hi[p]
      BY <3>2, <1>11, <1>14
    <3>4. k \in 1..k /\ (\A p \in 1..k - 1 : p \in 1..k) /\ (k > 1 => k - 1 \in 1..k)
      BY <2>1, <1>3
    <3> QED BY <3>1, <3>3, <3>4 DEF Level
  <2>2. CASE k = n + 1
    <3>1. VectorOf(fs2[k], lo2[k], hi2[k]) \in V
      BY <2>2, <1>9, <1>11, <1>14
    <3>2. fs2[k].it \in 1..Len(fs2[k].seq) + 1 /\ fs2[k].timesleft = 0
      BY <2>2, <1>10, <1>11
    <3>3. ASSUME NEW p \in 1..k - 1
          PROVE  /\ fs2[p].it <= Len(fs2[p].seq)
                 /\ LastPassed(fs2[p], lo2[p]) <= lo2[k] /\ hi2[k] <= Current(fs2[p])
                 /\ Continues(fs2[k].loopsuffix, fs2[p].loopsuffix)
      <4>1. p \in 1..n
        BY <2>2, <1>3
      <4>2. fs2[p] = fs[p] /\ lo2[p] = lo[p]
        BY <4>1, <1>11, <1>14
      <4>3. CASE p = n
        <5>1. Continues(new.loopsuffix, f.loopsuffix)
          BY <1>10, LongerSuffix
        <5> QED BY <2>2, <4>2, <4>3, <5>1, <1>7, <1>6, <1>5, <1>11, <1>14
      <4>4. CASE p # n
        <5>1. p \in 1..n - 1
          BY <4>1, <4>4, <1>3
        <5>2. /\ fs[p].it <= Len(fs[p].seq)
              /\ LastPassed(fs[p], lo[p]) <= lo[n] /\ hi[n] <= Current(fs[p])
              /\ Continues(f.loopsuffix, fs[p].loopsuffix)
          BY <5>1, <1>4 DEF Level
        <5>3. /\ lo[n] <= LastPassed(f, lo[n]) /\ Current(f) < hi[n]
              /\ lo[n] \in Nat /\ hi[n] \in Nat
              /\ LastPassed(fs[p], lo[p]) \in Nat /\ Current(fs[p]) \in Nat
          BY <1>3, <1>6, <4>1, <5>2, StackType
        <5>4. Continues(new.loopsuffix, fs[p].loopsuffix)
          <6>1. fs[p].loopsuffix \in Seq(Nat)
            BY <1>3, <4>1 DEF FrameIn
          <6>2. new.loopsuffix \in Seq(Nat) /\ Continues(new.loopsuffix, f.loopsuffix)
            BY <1>10, LongerSuffix
          <6> QED BY <1>10, <5>2, <6>1, <6>2, ContinuesTransitive
        <5> QED BY <2>2, <4>2, <5>2, <5>3, <5>4, <1>7, <1>11, <1>14
      <4> QED BY <4>3, <4>4
    <3>4. k > 1 => fs2[k].loopsuffix = Append(fs2[k - 1].loopsuffix, fs2[k].timesleft)
      <4>1. k - 1 = n /\ n \in 1..n /\ k = n + 1
        BY <2>2, <1>3
      <4> QED BY <4>1, <1>10, <1>11
    <3> QED BY <2>2, <3>1, <3>2, <3>3, <3>4 DEF Level
  <2> QED BY <2>1, <2>2, <1>3
<1>16. Stack(C, V, fs2, lo2, hi2)
  BY <1>11, <1>12, <1>15 DEF Stack
<1> QED BY <1>16 DEF fs2, lo2, hi2, new, c

-----------------------------------------------------------------------------

Entry == Nat \X Seq(Nat)

(* The activation k has passed the command, or is at the loop that         *)
(* contains it.                                                            *)
Reached(fs, lo, k, id) ==
  IF k = Len(fs) THEN id <= LastPassed(fs[k], lo[k]) ELSE id < Current(fs[k])

(* What was run of the vector of activation k was run in an earlier round, *)
(* or in this one, and then the activation is behind it.                   *)
Ordered(fs, lo, hi, k, e) ==
  lo[k] < e[1] /\ e[1] < hi[k] =>
    \/ Earlier(e[2], fs[k].loopsuffix)
    \/ Continues(e[2], fs[k].loopsuffix) /\ Reached(fs, lo, k, e[1])

Order(fs, lo, hi, lg) ==
  \A i \in 1..Len(lg) : \A k \in 1..Len(fs) : Ordered(fs, lo, hi, k, lg[i])

(* A change of the activation on top leaves the order of those below it.   *)
LEMMA OrderBelow ==
  ASSUME NEW C, NEW fs, NEW fs2, NEW lo, NEW hi, NEW lg, NEW n, Len(fs) \in Nat,
         TopChanged(C, fs, fs2, n), Order(fs, lo, hi, lg)
  PROVE  \A i \in 1..Len(lg) : \A k \in 1..n - 1 : Ordered(fs2, lo, hi, k, lg[i])
<1> TAKE i \in 1..Len(lg)
<1> TAKE k \in 1..n - 1
<1>1. n \in Nat /\ n <= Len(fs) /\ Len(fs2) = n /\ fs2[k] = fs[k]
  BY DEF TopChanged
<1>2. k \in 1..Len(fs) /\ k # Len(fs) /\ k # n
  BY <1>1
<1>3. Ordered(fs, lo, hi, k, lg[i])
  BY <1>2 DEF Order
<1> QED BY <1>1, <1>2, <1>3 DEF Ordered, Reached

(* Behind the iterator that was advanced is the command it stood at.       *)
LEMMA Passing ==
  ASSUME NEW C, NEW f \in FrameIn(C), NEW l, f.it \in 1..Len(f.seq)
  PROVE  LastPassed([f EXCEPT !.it = @ + 1], l) = Current(f)
<1>1. /\ f.it \in Nat /\ f.it >= 1
      /\ [f EXCEPT !.it = @ + 1].it = f.it + 1 /\ [f EXCEPT !.it = @ + 1].seq = f.seq
  BY DEF FrameIn
<1>2. f.it + 1 # 1 /\ (f.it + 1) - 1 = f.it
  BY <1>1
<1> QED BY <1>1, <1>2 DEF LastPassed, Before, VectorOf, Current

(* The log stays in order when an activation passes its next command.      *)
LEMMA OrderAdvanced ==
  ASSUME NEW C, NEW V, NEW fs, NEW fs2, NEW lo, NEW hi, NEW lg, NEW n,
         Closed(C, V), Stack(C, V, fs, lo, hi), lg \in Seq(Entry),
         TopChanged(C, fs, fs2, n), fs2[n] = [fs[n] EXCEPT !.it = @ + 1],
         fs[n].it <= Len(fs[n].seq), Order(fs, lo, hi, lg)
  PROVE  Order(fs2, lo, hi, lg)
<1>1. /\ Len(fs) \in Nat /\ n \in 1..Len(fs) /\ Len(fs2) = n
  BY StackType DEF TopChanged
<1>2. fs[n] \in FrameIn(C)
  BY <1>1, StackType
<1>3. Level(V, fs, lo, hi, n)
  BY <1>1 DEF Stack
<1>4. fs[n].it \in 1..Len(fs[n].seq)
  BY <1>2, <1>3 DEF FrameIn, Level
<1>5. LastPassed(fs2[n], lo[n]) = Current(fs[n])
  BY <1>2, <1>4, Passing
<1>6. /\ LastPassed(fs[n], lo[n]) \in Nat /\ Current(fs[n]) \in Nat
      /\ LastPassed(fs[n], lo[n]) < Current(fs[n])
  BY <1>1, <1>4, StackType
<1>7. fs2[n].loopsuffix = fs[n].loopsuffix
  BY <1>2 DEF FrameIn
<1>8. ASSUME NEW i \in 1..Len(lg) PROVE Ordered(fs2, lo, hi, n, lg[i])
  <2>1. lg[i][1] \in Nat
    <3>1. lg[i] \in Entry
      BY ElementOfSeq
    <3> QED BY <3>1 DEF Entry
  <2>2. Ordered(fs, lo, hi, n, lg[i])
    BY <1>1 DEF Order
  <2>3. Reached(fs, lo, n, lg[i][1]) => Reached(fs2, lo, n, lg[i][1])
    BY <2>1, <1>1, <1>5, <1>6 DEF Reached
  <2> QED BY <2>2, <2>3, <1>7 DEF Ordered
<1>9. \A i \in 1..Len(lg) : \A k \in 1..n - 1 : Ordered(fs2, lo, hi, k, lg[i])
  BY <1>1, OrderBelow
<1>10. \A k \in 1..Len(fs2) : k = n \/ k \in 1..n - 1
  BY <1>1
<1> QED BY <1>8, <1>9, <1>10 DEF Order

(* The log stays in order when a loop begins its next round: all that was  *)
(* run before is then earlier.                                             *)
LEMMA OrderAgain ==
  ASSUME NEW C, NEW V, NEW fs, NEW fs2, NEW lo, NEW hi, NEW lg, NEW n,
         Closed(C, V), Stack(C, V, fs, lo, hi), lg \in Seq(Entry),
         TopChanged(C, fs, fs2, n), n > 1,
         fs2[n].timesleft = fs[n].timesleft + 1, Order(fs, lo, hi, lg)
  PROVE  Order(fs2, lo, hi, lg)
<1>1. /\ Len(fs) \in Nat /\ n \in 1..Len(fs) /\ Len(fs2) = n
  BY StackType DEF TopChanged
<1>2. n - 1 \in 1..Len(fs)
  BY <1>1
<1>3. fs[n] \in FrameIn(C) /\ fs[n - 1] \in FrameIn(C)
  BY <1>1, <1>2, StackType
<1>4. fs[n - 1].loopsuffix \in Seq(Nat) /\ fs[n].timesleft \in Nat
  BY <1>3 DEF FrameIn
<1>5. Level(V, fs, lo, hi, n)
  BY <1>1 DEF Stack
<1>6. /\ fs[n].loopsuffix = Append(fs[n - 1].loopsuffix, fs[n].timesleft)
      /\ fs2[n].loopsuffix = Append(fs[n - 1].loopsuffix, fs[n].timesleft + 1)
  BY <1>5 DEF Level, TopChanged
<1>7. ASSUME NEW i \in 1..Len(lg) PROVE Ordered(fs2, lo, hi, n, lg[i])
  <2>1. lg[i][2] \in Seq(Nat)
    <3>1. lg[i] \in Entry
      BY ElementOfSeq
    <3> QED BY <3>1 DEF Entry
  <2>2. Ordered(fs, lo, hi, n, lg[i])
    BY <1>1 DEF Order
  <2>3. \/ Earlier(lg[i][2], fs[n].loopsuffix)
        \/ Continues(lg[i][2], fs[n].loopsuffix)
        => Earlier(lg[i][2], fs2[n].loopsuffix)
    BY <2>1, <1>4, <1>6, NextRound
  <2> QED BY <2>2, <2>3 DEF Ordered
<1>8. \A i \in 1..Len(lg) : \A k \in 1..n - 1 : Ordered(fs2, lo, hi, k, lg[i])
  BY <1>1, OrderBelow
<1>9. \A k \in 1..Len(fs2) : k = n \/ k \in 1..n - 1
  BY <1>1
<1> QED BY <1>7, <1>8, <1>9 DEF Order

(* fs2 is fs with the activation for the body of the loop that the one on  *)
(* top is at.                                                              *)
Pushed(n, fs, fs2, lo, lo2, hi, hi2) ==
  /\ n \in Nat \ {0} /\ n = Len(fs) /\ fs[n].it <= Len(fs[n].seq)
  /\ Len(fs2) = n + 1 /\ \A k \in 1..n : fs2[k] = fs[k]
  /\ fs2[n + 1].loopsuffix = Append(fs[n].loopsuffix, 0)
  /\ lo2 = [lo EXCEPT ![n + 1] = LastPassed(fs[n], lo[n])]
  /\ hi2 = [hi EXCEPT ![n + 1] = Current(fs[n])]

(* The log stays in order when the body of a loop is entered.              *)
LEMMA OrderPushed ==
  ASSUME NEW C, NEW V, NEW fs, NEW fs2, NEW lo, NEW hi, NEW lo2, NEW hi2, NEW lg, NEW n,
         Closed(C, V), Stack(C, V, fs, lo, hi), lg \in Seq(Entry),
         Pushed(n, fs, fs2, lo, lo2, hi, hi2), Order(fs, lo, hi, lg)
  PROVE  Order(fs2, lo2, hi2, lg)
<1>1. lo \in [Nat -> Nat] /\ hi \in [Nat -> Nat]
  BY DEF Stack
<1>2. /\ n \in Nat \ {0} /\ n = Len(fs) /\ fs[n].it <= Len(fs[n].seq)
      /\ Len(fs2) = n + 1 /\ \A k \in 1..n : fs2[k] = fs[k]
      /\ fs2[n + 1].loopsuffix = Append(fs[n].loopsuffix, 0)
  BY DEF Pushed
<1>3. \A k \in 1..n + 1 : k \in DOMAIN lo /\ k \in DOMAIN hi
  BY <1>1, <1>2
<1>4. /\ lo2[n + 1] = LastPassed(fs[n], lo[n]) /\ hi2[n + 1] = Current(fs[n])
      /\ \A k \in 1..n : lo2[k] = lo[k] /\ hi2[k] = hi[k]
  BY <1>2, <1>3 DEF Pushed
<1>5. n \in 1..Len(fs)
  BY <1>2
<1>6. /\ lo[n] <= LastPassed(fs[n], lo[n]) /\ LastPassed(fs[n], lo[n]) < Current(fs[n])
      /\ Current(fs[n]) < hi[n] /\ lo[n] \in Nat /\ hi[n] \in Nat
      /\ LastPassed(fs[n], lo[n]) \in Nat /\ Current(fs[n]) \in Nat
  BY <1>5, <1>2, StackType
<1>7. fs[n].loopsuffix \in Seq(Nat)
  <2>1. fs[n] \in FrameIn(C)
    BY <1>5, StackType
  <2> QED BY <2>1 DEF FrameIn
<1>8. ASSUME NEW i \in 1..Len(lg), NEW k \in 1..n + 1
      PROVE  Ordered(fs2, lo2, hi2, k, lg[i])
  <2>1. lg[i] \in Entry
    BY ElementOfSeq
  <2>2. lg[i][1] \in Nat /\ lg[i][2] \in Seq(Nat)
    BY <2>1 DEF Entry
  <2>3. Ordered(fs, lo, hi, n, lg[i])
    BY <1>5 DEF Order
  <2>4. CASE k \in 1..n - 1
    <3>1. k \in 1..Len(fs) /\ k # n /\ k # n + 1 /\ k \in 1..n
      BY <2>4, <1>2
    <3>2. Ordered(fs, lo, hi, k, lg[i])
      BY <3>1 DEF Order
    <3> QED BY <3>1, <3>2, <1>4, <1>2 DEF Ordered, Reached
  <2>5. CASE k = n
    <3>1. n # n + 1 /\ fs2[n] = fs[n] /\ lo2[n] = lo[n] /\ hi2[n] = hi[n]
      BY <1>4, <1>5, <1>2
    <3>2. Reached(fs, lo, n, lg[i][1]) => Reached(fs2, lo2, n, lg[i][1])
      BY <3>1, <2>2, <1>6, <1>2 DEF Reached
    <3> QED BY <2>3, <2>5, <3>1, <3>2 DEF Ordered
  <2>6. CASE k = n + 1
    <3>1. CASE Earlier(lg[i][2], fs[n].loopsuffix)
      <4>1. Append(fs[n].loopsuffix, 0) \in Seq(Nat)
            /\ Continues(Append(fs[n].loopsuffix, 0), fs[n].loopsuffix)
        BY <1>7, LongerSuffix
      <4>2. Earlier(lg[i][2], Append(fs[n].loopsuffix, 0))
        BY <3>1, <4>1, <2>2, <1>7, EarlierContinued
      <4> QED BY <4>2, <2>6, <1>2 DEF Ordered
    <3>2. CASE ~Earlier(lg[i][2], fs[n].loopsuffix)
      <4>1. SUFFICES ASSUME lo2[k] < lg[i][1] /\ lg[i][1] < hi2[k] PROVE FALSE
        BY DEF Ordered
      <4>2. LastPassed(fs[n], lo[n]) < lg[i][1] /\ lg[i][1] < Current(fs[n])
        BY <4>1, <2>6, <1>4
      <4>3. lo[n] < lg[i][1] /\ lg[i][1] < hi[n]
        BY <4>2, <2>2, <1>6
      <4>4. Reached(fs, lo, n, lg[i][1])
        BY <4>3, <3>2, <2>3 DEF Ordered
      <4>5. lg[i][1] <= LastPassed(fs[n], lo[n])
        BY <4>4, <1>2 DEF Reached
      <4> QED BY <4>2, <4>5, <2>2, <1>6
    <3> QED BY <3>1, <3>2
  <2> QED BY <2>4, <2>5, <2>6, <1>2
<1> QED BY <1>8, <1>2 DEF Order

(* The next command has not been run under the suffix it has now.          *)
LEMMA EntryIsNew ==
  ASSUME NEW C, NEW V, NEW fs, NEW lo, NEW hi, NEW lg,
         Closed(C, V), Stack(C, V, fs, lo, hi), lg \in Seq(Entry),
         NEW n \in Nat \ {0}, n = Len(fs), fs[n].it <= Len(fs[n].seq),
         Order(fs, lo, hi, lg)
  PROVE  /\ <<Current(fs[n]), fs[n].loopsuffix>> \in Entry
         /\ \A i \in 1..Len(lg) : lg[i] # <<Current(fs[n]), fs[n].loopsuffix>>
<1>1. n \in 1..Len(fs)
  OBVIOUS
<1>2. /\ lo[n] <= LastPassed(fs[n], lo[n]) /\ LastPassed(fs[n], lo[n]) < Current(fs[n])
      /\ Current(fs[n]) < hi[n] /\ lo[n] \in Nat /\ hi[n] \in Nat
      /\ LastPassed(fs[n], lo[n]) \in Nat /\ Current(fs[n]) \in Nat
  BY <1>1, StackType
<1>3. fs[n].loopsuffix \in Seq(Nat)
  <2>1. fs[n] \in FrameIn(C)
    BY <1>1, StackType
  <2> QED BY <2>1 DEF FrameIn
<1>4. ASSUME NEW i \in 1..Len(lg), lg[i] = <<Current(fs[n]), fs[n].loopsuffix>>
      PROVE  FALSE
  <2>1. Ordered(fs, lo, hi, n, lg[i])
    BY <1>1 DEF Order
  <2>2. lg[i][1] = Current(fs[n]) /\ lg[i][2] = fs[n].loopsuffix
    BY <1>4
  <2>3. lo[n] < Current(fs[n])
    BY <1>2
  <2>4. Earlier(fs[n].loopsuffix, fs[n].loopsuffix) \/ Reached(fs, lo, n, Current(fs[n]))
    BY <2>1, <2>2, <2>3, <1>2 DEF Ordered
  <2>5. ~Reached(fs, lo, n, Current(fs[n]))
    BY <1>2 DEF Reached
  <2> QED BY <2>4, <2>5, <1>3, SameSuffix
<1> QED BY <1>2, <1>3, <1>4 DEF Entry

(* What is run is in order for every activation once the iterator is       *)
(* behind it.                                                              *)
LEMMA EntryOrdered ==
  ASSUME NEW C, NEW V, NEW fs, NEW fs2, NEW lo, NEW hi, NEW n,
         Closed(C, V), Stack(C, V, fs, lo, hi), n = Len(fs),
         TopChanged(C, fs, fs2, n), fs2[n] = [fs[n] EXCEPT !.it = @ + 1],
         fs[n].it <= Len(fs[n].seq)
  PROVE  \A k \in 1..n : Ordered(fs2, lo, hi, k, <<Current(fs[n]), fs[n].loopsuffix>>)
<1>1. n \in Nat /\ n \in 1..Len(fs) /\ Len(fs2) = n
  BY StackType DEF TopChanged
<1>2. fs[n] \in FrameIn(C) /\ Level(V, fs, lo, hi, n)
  BY <1>1, StackType DEF Stack
<1>3. fs[n].it \in 1..Len(fs[n].seq) /\ fs[n].loopsuffix \in Seq(Nat)
  BY <1>2 DEF FrameIn, Level
<1>4. LastPassed(fs2[n], lo[n]) = Current(fs[n])
  BY <1>2, <1>3, Passing
<1>5. Current(fs[n]) \in Nat /\ Current(fs[n]) < hi[n] /\ hi[n] \in Nat
  BY <1>1, <1>3, StackType
<1>6. Ordered(fs2, lo, hi, n, <<Current(fs[n]), fs[n].loopsuffix>>)
  <2>1. fs2[n].loopsuffix = fs[n].loopsuffix
    BY <1>2 DEF FrameIn
  <2>2. Continues(fs[n].loopsuffix, fs[n].loopsuffix)
    BY <1>3, SameSuffix
  <2>3. Reached(fs2, lo, n, Current(fs[n]))
    BY <1>1, <1>4, <1>5 DEF Reached
  <2> QED BY <2>1, <2>2, <2>3 DEF Ordered
<1>7. ASSUME NEW k \in 1..n - 1
      PROVE  Ordered(fs2, lo, hi, k, <<Current(fs[n]), fs[n].loopsuffix>>)
  <2>1. k \in 1..Len(fs) /\ k # Len(fs2) /\ fs2[k] = fs[k]
    BY <1>1 DEF TopChanged
  <2>2. /\ fs[k].it <= Len(fs[k].seq)
        /\ Continues(fs[n].loopsuffix, fs[k].loopsuffix) /\ hi[n] <= Current(fs[k])
    BY <1>2 DEF Level
  <2>3. Current(fs[k]) \in Nat
    BY <2>1, <2>2, StackType
  <2>4. Reached(fs2, lo, k, Current(fs[n]))
    BY <2>1, <2>2, <2>3, <1>5 DEF Reached
  <2> QED BY <2>1, <2>2, <2>4 DEF Ordered
<1>8. \A k \in 1..n : k = n \/ k \in 1..n - 1
  BY <1>1
<1> QED BY <1>6, <1>7, <1>8

(* An activation with another iterator is one.                             *)
LEMMA FrameWithIt ==
  ASSUME NEW S, NEW T, NEW L, NEW X, NEW i \in Nat,
         NEW f \in [seq : S, it : Nat, timesleft : T, loops : L, loopsuffix : X]
  PROVE  [f EXCEPT !.it = i]
           \in [seq : S, it : Nat, timesleft : T, loops : L, loopsuffix : X]
OBVIOUS

(* Advance changes the iterator of the last activation and nothing else.   *)
LEMMA AdvanceTop ==
  ASSUME NEW C, NEW fs \in Seq(FrameIn(C)), NEW n \in Nat \ {0}, n = Len(fs)
  PROVE  /\ Advance(fs) \in Seq(FrameIn(C)) /\ Len(Advance(fs)) = n
         /\ Advance(fs)[n] = [fs[n] EXCEPT !.it = @ + 1]
         /\ \A k \in 1..n - 1 : Advance(fs)[k] = fs[k]
<1> DEFINE f == [fs[n] EXCEPT !.it = @ + 1]
<1>1. n \in 1..Len(fs) /\ fs[n] \in FrameIn(C)
  BY ElementOfSeq
<1>2. f \in FrameIn(C)
  <2>1. fs[n].it + 1 \in Nat
    BY <1>1 DEF FrameIn
  <2> QED BY <1>1, <2>1, FrameWithIt DEF FrameIn
<1>3. Advance(fs) = [fs EXCEPT ![n] = f]
  BY DEF Advance
<1> HIDE DEF f
<1>4. /\ [fs EXCEPT ![n] = f] \in Seq(FrameIn(C)) /\ Len([fs EXCEPT ![n] = f]) = Len(fs)
      /\ \A j \in 1..Len(fs) : [fs EXCEPT ![n] = f][j] = IF j = n THEN f ELSE fs[j]
  BY <1>1, <1>2, ExceptSeq
<1>5. \A k \in 1..n - 1 : k \in 1..Len(fs) /\ k # n
  OBVIOUS
<1> QED BY <1>1, <1>3, <1>4, <1>5 DEF f

-----------------------------------------------------------------------------

(* The types of the variables that are not nested.                         *)
Shape ==
  /\ cmds \in Seq(Token) /\ Len(cmds) <= MaxTokens
  /\ status \in {"reading", "running", "failing", "done", "rejected", "failed"}
  /\ (frames # <<>>) <=> (status \in {"running", "failing"})
  /\ log \in Seq(Entry)
  /\ status \in {"reading", "rejected"} => log = <<>>

(* The vectors and the activations are nested, and what was run is in      *)
(* order.                                                                  *)
Nested(C, V, lo, hi) ==
  /\ Closed(C, V) /\ WellNested(C, V, Text)
  /\ Stack(C, V, frames, lo, hi)
  /\ status = "running" => Order(frames, lo, hi, log)

(* The inductive invariant.  The commands, the vectors and the intervals   *)
(* of the activations are not state: it is enough that there are some.     *)
IInv ==
  /\ Shape /\ SuffixesDistinct
  /\ \E C, V, lo, hi : Nested(C, V, lo, hi)

(* No activations are nested.                                              *)
LEMMA StackEmpty ==
  ASSUME NEW C, NEW V, NEW lo \in [Nat -> Nat], NEW hi \in [Nat -> Nat]
  PROVE  Stack(C, V, <<>>, lo, hi)
<1>1. <<>> \in Seq(FrameIn(C)) /\ Len(<<>>) = 0
  BY EmptySeq
<1>2. \A k \in 1..0 : FALSE
  OBVIOUS
<1> QED BY <1>1, <1>2 DEF Stack

(* A vector stays well nested when its upper bound is raised.              *)
LEMMA ScriptGrows ==
  ASSUME NEW C, NEW V, NEW v, WellNested(C, V, v)
  PROVE  WellNested(C, V, [seq |-> v.seq, lo |-> v.lo, hi |-> v.hi + 1])
<1> DEFINE w == [seq |-> v.seq, lo |-> v.lo, hi |-> v.hi + 1]
<1>1. v \in VectorIn(C) /\ v.lo < v.hi
  BY DEF WellNested
<1>2. v.seq \in Seq(C) /\ v.lo \in Nat /\ v.hi \in Nat
  BY <1>1 DEF VectorIn
<1>3. w \in VectorIn(C) /\ w.lo < w.hi
  BY <1>1, <1>2 DEF VectorIn
<1>4. ASSUME NEW i \in 1..Len(w.seq)
      PROVE  /\ w.seq[i].id \in Nat /\ w.seq[i].loops \in Nat
             /\ w.lo < w.seq[i].id /\ w.seq[i].id < w.hi
             /\ \A j \in 1..i - 1 : w.seq[j].id < w.seq[i].id
             /\ Body(w, i) \in V
  <2>1. /\ v.seq[i].id \in Nat /\ v.seq[i].loops \in Nat
        /\ v.lo < v.seq[i].id /\ v.seq[i].id < v.hi
        /\ \A j \in 1..i - 1 : v.seq[j].id < v.seq[i].id
        /\ Body(v, i) \in V
    BY DEF WellNested
  <2>2. Body(w, i) = Body(v, i)
    BY DEF Body, Before
  <2>3. v.seq[i].id < v.hi + 1
    BY <2>1, <1>2
  <2> QED BY <2>1, <2>2, <2>3
<1> HIDE DEF w
<1>5. WellNested(C, V, w)
  BY <1>3, <1>4 DEF WellNested
<1> QED BY <1>5 DEF w

(* Before Parse begins, no vectors are nested.                             *)
LEMMA InitNested ==
  ASSUME Init, NEW z, z = [k \in Nat |-> 0]
  PROVE  Shape /\ SuffixesDistinct /\ Nested({}, {}, z, z)
<1> USE DEF Init
<1>1. Shape
  BY EmptySeq, BoundsAssumption DEF Shape
<1>2. SuffixesDistinct
  BY EmptySeq DEF SuffixesDistinct
<1>3. Stack({}, {}, frames, z, z)
  BY StackEmpty
<1>4. Closed({}, {})
  BY DEF Closed
<1>5. WellNested({}, {}, Text)
  <2>1. <<>> \in Seq({}) /\ Len(<<>>) = 0
    BY EmptySeq
  <2>2. Text = [seq |-> <<>>, lo |-> 0, hi |-> 1]
    BY <2>1 DEF Text
  <2> QED BY <2>1, <2>2 DEF WellNested, VectorIn
<1>6. Nested({}, {}, z, z)
  BY <1>3, <1>4, <1>5 DEF Nested
<1> QED BY <1>1, <1>2, <1>6

(* The invariant holds before Parse begins.                                *)
LEMMA InitInv == Init => IInv
<1> SUFFICES ASSUME Init PROVE IInv
  OBVIOUS
<1>1. PICK z : z = [k \in Nat |-> 0]
  OBVIOUS
<1> QED BY <1>1, InitNested DEF IInv

(* Parse runs nothing, whatever it reads.                                  *)
LEMMA ParsedShape ==
  ASSUME Shape, NEW t \in Token, ParseAny(t), status' \in {"reading", "rejected"}
  PROVE  /\ Shape' /\ SuffixesDistinct' /\ Len(cmds') = Len(cmds) + 1
         /\ cmds \in Seq(Token) /\ frames = <<>> /\ frames' = <<>> /\ Len(cmds) \in Nat
<1>1. /\ cmds \in Seq(Token) /\ Len(cmds) \in Nat
      /\ cmds' \in Seq(Token) /\ Len(cmds') = Len(cmds) + 1
  BY DEF Shape, ParseAny
<1>2. /\ status = "reading" /\ frames' = frames /\ log' = log /\ Len(cmds) < MaxTokens
  BY DEF ParseAny
<1>3. frames = <<>> /\ log = <<>>
  BY <1>2 DEF Shape
<1>4. Len(cmds') <= MaxTokens
  BY <1>1, <1>2, BoundsAssumption
<1>5. Shape'
  BY <1>1, <1>2, <1>3, <1>4 DEF Shape
<1>6. SuffixesDistinct'
  BY <1>2, <1>3, EmptySeq DEF SuffixesDistinct
<1> QED BY <1>1, <1>2, <1>3, <1>5, <1>6

(* A count that is written is a natural number.                            *)
LEMMA TimesWritten ==
  ASSUME NEW t \in Token
  PROVE  t.times \in Nat
<1>1. t.times = 0 \/ t.times \in Times
  BY DEF Token
<1>2. Times \subseteq Nat
  BY BoundsAssumption
<1>3. 0 \in Nat
  OBVIOUS
<1> QED BY <1>1, <1>2, <1>3, Zenon

(***************************************************************************)
(* Every parsed command closes the commands behind the position m into its *)
(* body: none for a command that is not a loop.                            *)
(***************************************************************************)
LEMMA Encloses ==
  ASSUME IInv, NEW t \in Token, ParseAny(t), status' = status,
         NEW C, NEW V, NEW lo, NEW hi, Nested(C, V, lo, hi),
         NEW m \in 0..Len(sequence), NEW r, NEW c,
         r = Rest(Text, m), c = Command(t, r.seq),
         sequence' = Append(SubSeq(sequence, 1, m), c)
  PROVE  /\ IInv' /\ Nested(C \cup {c}, V \cup {r}, lo, hi)'
         /\ Text' = Closing(Text, m, c) /\ c.id = Text.hi
<1>1. Shape
  BY DEF IInv
<1>2. status' = "reading" /\ status = "reading"
  BY DEF ParseAny
<1>3. /\ Shape' /\ SuffixesDistinct' /\ Len(cmds') = Len(cmds) + 1
      /\ frames' = <<>> /\ frames = <<>> /\ Len(cmds) \in Nat
  BY <1>1, <1>2, ParsedShape
<1>4. c.id = Text.hi /\ c.loopedsequence = r.seq
  BY DEF Command, Text
<1>5. c.loops \in Nat
  <2>1. t.times \in Nat
    BY TimesWritten
  <2> QED BY <2>1 DEF Command, CountOf
<1>6. Text.seq = sequence /\ m \in 0..Len(Text.seq)
  BY DEF Text
<1>7. WellNested(C, V, Text) /\ Closed(C, V) /\ Stack(C, V, frames, lo, hi)
  BY DEF Nested
<1>8. Closing(Text, m, c) = Text'
  BY <1>3 DEF Text, Closing
<1>9. Closed(C \cup {c}, V \cup {r}) /\ WellNested(C \cup {c}, V \cup {r}, Text')
  BY <1>4, <1>5, <1>6, <1>7, <1>8, Enclosed
<1>10. lo \in [Nat -> Nat] /\ hi \in [Nat -> Nat]
  BY <1>7 DEF Stack
<1>11. Stack(C \cup {c}, V \cup {r}, frames', lo, hi)
  BY <1>3, <1>10, StackEmpty
<1>12. Nested(C \cup {c}, V \cup {r}, lo, hi)'
  BY <1>2, <1>9, <1>11 DEF Nested
<1> QED BY <1>3, <1>4, <1>8, <1>12 DEF IInv

(* Inner is a position of the vector, or 0.                                *)
LEMMA NamedIn ==
  ASSUME IInv, NEW t \in Token
  PROVE  /\ \E C : sequence \in Seq(C)
         /\ Inner(t) \in 0..Len(sequence)
<1>1. PICK C, V, lo, hi : Nested(C, V, lo, hi)
  BY DEF IInv
<1>2. sequence \in Seq(C)
  BY <1>1 DEF Nested, WellNested, VectorIn, Text
<1>3. Len(sequence) \in Nat /\ DOMAIN sequence = 1..Len(sequence)
  BY <1>2, LenProperties
<1>4. Named(t) \subseteq 1..Len(sequence)
  BY <1>3 DEF Named
<1>5. CASE Named(t) = {}
  <2>1. Inner(t) = 0
    BY <1>5 DEF Inner
  <2> QED BY <1>2, <1>3, <2>1
<1>6. CASE Named(t) # {}
  <2>1. Named(t) \in SUBSET (0..Len(sequence))
    BY <1>3, <1>4
  <2>2. Max(Named(t)) \in Named(t)
    BY <1>3, <1>6, <2>1, MaxExists
  <2>3. Inner(t) = Max(Named(t))
    BY <1>6 DEF Inner
  <2>4. Inner(t) \in 1..Len(sequence)
    BY <1>4, <2>2, <2>3
  <2> QED BY <1>2, <1>3, <2>4
<1> QED BY <1>2, <1>5, <1>6

(* What a command that is parsed closes: all that is behind its label if   *)
(* it is a loop, and nothing if it is none.                                *)
LEMMA Parsed ==
  ASSUME IInv, NEW t \in Token, ParseCommand(t) \/ ParseLoop(t)
  PROVE  \E m \in 0..Len(sequence) :
           /\ ParseAny(t) /\ status' = status
           /\ sequence' = Append(SubSeq(sequence, 1, m), Command(t, Rest(Text, m).seq))
           /\ m = IF t.op = "loop" THEN Inner(t) ELSE Len(sequence)
<1>1. \E C : sequence \in Seq(C)
  BY NamedIn
<1>2. Len(sequence) \in Nat
  BY <1>1, LenProperties
<1>3. ASSUME NEW m PROVE Rest(Text, m).seq = SubSeq(sequence, m + 1, Len(sequence))
  BY DEF Rest, Text
<1>4. CASE ParseCommand(t)
  <2>1. SubSeq(sequence, 1, Len(sequence)) = sequence
    BY <1>1, SubSeqFull
  <2>2. SubSeq(sequence, Len(sequence) + 1, Len(sequence)) = <<>>
    BY <1>1, <1>2, SubSeqEmpty
  <2>3. /\ ParseAny(t) /\ status' = status /\ sequence' = Append(sequence, Command(t, <<>>))
        /\ t.op # "loop"
    BY <1>4 DEF ParseCommand
  <2>4. Len(sequence) \in 0..Len(sequence)
    BY <1>2
  <2> QED BY <1>3, <2>1, <2>2, <2>3, <2>4
<1>5. CASE ParseLoop(t)
  <2>1. /\ ParseAny(t) /\ status' = status /\ t.op = "loop"
        /\ sequence' = Append(SubSeq(sequence, 1, Inner(t)),
                              Command(t, SubSeq(sequence, Inner(t) + 1, Len(sequence))))
    BY <1>5 DEF ParseLoop
  <2>2. Inner(t) \in 0..Len(sequence)
    BY NamedIn
  <2> QED BY <1>3, <2>1, <2>2
<1> QED BY <1>4, <1>5

(* Every step of Command::Parse keeps the invariant.                       *)
LEMMA ParseKeeps ==
  ASSUME IInv, NEW t \in Token,
         ParseCommand(t) \/ ParseError(t) \/ ParseLoop(t) \/ ParseLoopError(t)
  PROVE  IInv'
<1>1. PICK C, V, lo, hi : Nested(C, V, lo, hi)
  BY DEF IInv
<1>2. CASE ParseCommand(t) \/ ParseLoop(t)
  <2>1. PICK m \in 0..Len(sequence) :
           /\ ParseAny(t) /\ status' = status
           /\ sequence' = Append(SubSeq(sequence, 1, m), Command(t, Rest(Text, m).seq))
    BY <1>2, Parsed
  <2>2. PICK r : r = Rest(Text, m)
    OBVIOUS
  <2>3. PICK c : c = Command(t, r.seq)
    OBVIOUS
  <2> QED BY <1>1, <2>1, <2>2, <2>3, Encloses
<1>3. CASE ParseError(t) \/ ParseLoopError(t)
  <2>1. ParseAny(t) /\ status' = "rejected" /\ sequence' \in {sequence, <<>>}
    BY <1>3 DEF ParseError, ParseLoopError
  <2>2. Shape
    BY DEF IInv
  <2>3. /\ Shape' /\ SuffixesDistinct' /\ Len(cmds') = Len(cmds) + 1
        /\ frames = <<>> /\ frames' = <<>> /\ Len(cmds) \in Nat
    BY <2>1, <2>2, ParsedShape
  <2>4. Closed(C, V) /\ WellNested(C, V, Text) /\ Stack(C, V, frames, lo, hi)
    BY <1>1 DEF Nested
  <2>5. WellNested(C, V, Text')
    <3>1. CASE sequence' = sequence
      <4>1. Text' = [seq |-> Text.seq, lo |-> Text.lo, hi |-> Text.hi + 1]
        BY <2>3, <3>1 DEF Text
      <4> QED BY <4>1, <2>4, ScriptGrows
    <3>2. CASE sequence' = <<>>
      <4>1. <<>> \in Seq(C) /\ Len(<<>>) = 0
        BY EmptySeq
      <4>2. Text' = [seq |-> <<>>, lo |-> 0, hi |-> Len(cmds) + 2]
        BY <2>3, <3>2 DEF Text
      <4> QED BY <2>3, <4>1, <4>2 DEF WellNested, VectorIn
    <3> QED BY <2>1, <3>1, <3>2
  <2>6. Stack(C, V, frames', lo, hi)
    BY <2>3, <2>4
  <2>7. Nested(C, V, lo, hi)'
    BY <2>1, <2>4, <2>5, <2>6 DEF Nested
  <2> QED BY <2>3, <2>7 DEF IInv
<1> QED BY <1>2, <1>3

(* Command::Run, called for the script, keeps the invariant.               *)
LEMMA RunKeeps ==
  ASSUME IInv, Run, NEW C, NEW V, NEW lo, NEW hi, Nested(C, V, lo, hi),
         NEW W, NEW low, NEW high,
         W = V \cup {Text}, low = [k \in Nat |-> 0], high = [k \in Nat |-> Len(cmds) + 1]
  PROVE  IInv' /\ Nested(C, W, low, high)'
<1>1. /\ status = "reading" /\ status' = "running" /\ log' = log /\ log = <<>>
      /\ frames' = <<Frame(sequence, 1, <<>>)>> /\ Text' = Text /\ cmds' = cmds
  BY DEF Run, IInv, Shape, Text
<1>2. Closed(C, V) /\ WellNested(C, V, Text)
  BY DEF Nested
<1>3. sequence \in Seq(C) /\ Len(sequence) \in Nat /\ Len(cmds) \in Nat
  BY <1>2 DEF WellNested, VectorIn, Text, IInv, Shape
<1> DEFINE f == Frame(sequence, 1, <<>>)
<1>4. Closed(C, W)
  BY <1>2 DEF Closed, WellNested
<1>5. WellNested(C, W, Text)
  BY <1>2 DEF WellNested
<1>6. f \in FrameIn(C) /\ f.it = 1 /\ f.timesleft = 0 /\ f.seq = sequence
  <2>1. <<>> \in Seq(Nat)
    BY EmptySeq
  <2> QED BY <1>3, <2>1 DEF Frame, FrameIn
<1>7. low \in [Nat -> Nat] /\ high \in [Nat -> Nat] /\ low[1] = 0 /\ high[1] = Len(cmds) + 1
  BY <1>3
<1>8. VectorOf(f, low[1], high[1]) = Text
  BY <1>6, <1>7 DEF VectorOf, Text
<1> HIDE DEF f
<1>9. <<f>> \in Seq(FrameIn(C)) /\ Len(<<f>>) = 1 /\ <<f>>[1] = f
  BY <1>6
<1>10. Level(W, <<f>>, low, high, 1)
  <2>1. VectorOf(f, low[1], high[1]) \in W
    BY <1>8
  <2>2. f.it \in 1..Len(f.seq) + 1
    BY <1>3, <1>6
  <2>3. \A p \in 1..1 - 1 : FALSE
    OBVIOUS
  <2> QED BY <2>1, <2>2, <2>3, <1>6, <1>9 DEF Level
<1>11. \A k \in 1..1 : k = 1
  OBVIOUS
<1>12. Stack(C, W, <<f>>, low, high)
  BY <1>7, <1>9, <1>10, <1>11 DEF Stack
<1>13. Order(<<f>>, low, high, <<>>)
  <2>1. \A i \in 1..Len(<<>>) : FALSE
    BY EmptySeq
  <2> QED BY <2>1 DEF Order
<1>14. frames' = <<f>>
  BY <1>1 DEF f
<1>15. Order(frames', low, high, log') /\ Stack(C, W, frames', low, high)
  <2>1. log' = <<>>
    BY <1>1
  <2> QED BY <2>1, <1>12, <1>13, <1>14
<1>16. WellNested(C, W, Text')
  BY <1>1, <1>5
<1>17. Nested(C, W, low, high)'
  BY <1>4, <1>15, <1>16 DEF Nested
<1>18. frames' # <<>>
  BY <1>14
<1>19. Shape'
  BY <1>1, <1>18 DEF IInv, Shape
<1>20. SuffixesDistinct'
  BY <1>1 DEF IInv, SuffixesDistinct
<1> QED BY <1>17, <1>19, <1>20 DEF IInv

-----------------------------------------------------------------------------

(* There is an activation on top while the interpreter runs, and its       *)
(* iterator is within its vector or one behind it.                         *)
LEMMA TopFrame ==
  ASSUME NEW C, NEW V, NEW lo, NEW hi,
         Shape, Nested(C, V, lo, hi), status \in {"running", "failing"}
  PROVE  /\ Len(frames) \in Nat \ {0} /\ Len(frames) \in 1..Len(frames)
         /\ frames \in Seq(FrameIn(C)) /\ frames[Len(frames)] \in FrameIn(C)
         /\ top = frames[Len(frames)] /\ Len(top.seq) \in Nat
         /\ top.it \in 1..Len(top.seq) + 1
         /\ Closed(C, V) /\ Stack(C, V, frames, lo, hi)
         /\ Level(V, frames, lo, hi, Len(frames))
<1>1. frames # <<>>
  BY DEF Shape
<1>2. Closed(C, V) /\ Stack(C, V, frames, lo, hi)
  BY DEF Nested
<1>3. frames \in Seq(FrameIn(C))
  BY <1>2 DEF Stack
<1>4. Len(frames) \in Nat \ {0}
  BY <1>1, <1>3, EmptySeq
<1>5. Len(frames) \in 1..Len(frames)
  BY <1>4
<1>6. frames[Len(frames)] \in FrameIn(C) /\ top = frames[Len(frames)]
  BY <1>3, <1>5, ElementOfSeq DEF top, Last
<1>7. Len(top.seq) \in Nat
  BY <1>6 DEF FrameIn
<1>8. Level(V, frames, lo, hi, Len(frames))
  BY <1>2, <1>5 DEF Stack
<1>9. top.it \in 1..Len(top.seq) + 1
  BY <1>6, <1>8 DEF Level
<1> QED BY <1>2, <1>3, <1>4, <1>5, <1>6, <1>7, <1>8, <1>9

(* The log stays without repetitions when a command is run.                *)
LEMMA LogGrows ==
  ASSUME NEW C, NEW V, NEW lo, NEW hi,
         IInv, Nested(C, V, lo, hi), status = "running", ~AtEnd,
         log' = Append(log, <<cmd.id, top.loopsuffix>>)
  PROVE  log' \in Seq(Entry) /\ SuffixesDistinct'
<1> DEFINE e == <<Current(top), top.loopsuffix>>
<1>1. Shape /\ SuffixesDistinct /\ log \in Seq(Entry) /\ Order(frames, lo, hi, log)
  BY DEF IInv, Shape, Nested
<1>2. /\ Len(frames) \in Nat \ {0} /\ top = frames[Len(frames)] /\ top.it <= Len(top.seq)
      /\ Closed(C, V) /\ Stack(C, V, frames, lo, hi)
  BY <1>1, TopFrame DEF AtEnd
<1>3. e \in Entry /\ \A i \in 1..Len(log) : log[i] # e
  BY <1>1, <1>2, EntryIsNew
<1>4. log' = Append(log, e)
  BY DEF cmd, Current
<1> HIDE DEF e
<1>5. /\ Append(log, e) \in Seq(Entry) /\ Len(Append(log, e)) = Len(log) + 1
      /\ Len(log) \in Nat /\ Append(log, e)[Len(log) + 1] = e
      /\ \A i \in 1..Len(log) : Append(log, e)[i] = log[i]
  BY <1>1, <1>3
<1>6. DOMAIN log = 1..Len(log) /\ DOMAIN log' = 1..Len(log) + 1
  BY <1>1, <1>4, <1>5, LenProperties
<1>7. ASSUME NEW i \in DOMAIN log', NEW j \in DOMAIN log', i # j
      PROVE  log'[i] # log'[j]
  <2>1. CASE i \in 1..Len(log) /\ j \in 1..Len(log)
    BY <2>1, <1>1, <1>4, <1>5, <1>6, <1>7 DEF SuffixesDistinct
  <2>2. CASE i = Len(log) + 1 /\ j \in 1..Len(log)
    BY <2>2, <1>3, <1>4, <1>5
  <2>3. CASE j = Len(log) + 1 /\ i \in 1..Len(log)
    BY <2>3, <1>3, <1>4, <1>5
  <2>4. \A k \in 1..Len(log) + 1 : k = Len(log) + 1 \/ k \in 1..Len(log)
    BY <1>5
  <2> QED BY <2>1, <2>2, <2>3, <2>4, <1>6, <1>7
<1> QED BY <1>4, <1>5, <1>7 DEF SuffixesDistinct

(* The activation n of fs, which is then on top, passes its next command.   *)
Passes(C, fs, fs2, n) ==
  /\ TopChanged(C, fs, fs2, n) /\ fs[n].it <= Len(fs[n].seq)
  /\ fs2[n] = [fs[n] EXCEPT !.it = @ + 1]

(* The activation on top begins another round of its loop.                 *)
Rounds(C, fs, fs2, n) ==
  /\ TopChanged(C, fs, fs2, n) /\ n > 1
  /\ fs2[n].it = 1 /\ fs2[n].timesleft = fs[n].timesleft + 1
  /\ fs2[n].loops = fs[n].loops

(* What Advance does to the activations.                                   *)
LEMMA AdvancePasses ==
  ASSUME NEW C, NEW V, NEW lo, NEW hi, Shape, Nested(C, V, lo, hi),
         status = "running", ~AtEnd, frames' = Advance(frames)
  PROVE  Passes(C, frames, frames', Len(frames))
<1>1. PICK n : n = Len(frames)
  OBVIOUS
<1>2. /\ n \in Nat \ {0} /\ n \in 1..Len(frames) /\ top = frames[n] /\ top.it <= Len(top.seq)
      /\ frames \in Seq(FrameIn(C))
      /\ frames[n] \in FrameIn(C) /\ Level(V, frames, lo, hi, n) /\ Len(top.seq) \in Nat
      /\ top.it \in 1..Len(top.seq) + 1
  BY <1>1, TopFrame DEF AtEnd
<1>3. /\ frames' \in Seq(FrameIn(C)) /\ Len(frames') = n
      /\ frames'[n] = [frames[n] EXCEPT !.it = @ + 1]
      /\ \A k \in 1..n - 1 : frames'[k] = frames[k]
  BY <1>1, <1>2, AdvanceTop
<1>4. TopChanged(C, frames, frames', n)
  <2>1. /\ frames'[n].seq = frames[n].seq /\ frames'[n].it = frames[n].it + 1
        /\ frames'[n].timesleft = frames[n].timesleft /\ frames'[n].loops = frames[n].loops
        /\ frames'[n].loopsuffix = frames[n].loopsuffix
    BY <1>2, <1>3 DEF FrameIn
  <2>2. frames'[n].it \in 1..Len(frames[n].seq) + 1
    BY <1>2, <2>1
  <2>3. /\ frames[n].timesleft = 0 \/ frames[n].timesleft < frames[n].loops
        /\ n > 1 => frames[n].loopsuffix = Append(frames[n - 1].loopsuffix, frames[n].timesleft)
    BY <1>2 DEF Level
  <2> QED BY <1>2, <1>3, <2>1, <2>2, <2>3 DEF TopChanged
<1>5. Passes(C, frames, frames', n)
  BY <1>2, <1>3, <1>4 DEF Passes
<1> QED BY <1>1, <1>5

(* The invariant is kept when the activation on top passes a command,      *)
(* whether it was run or is a label.                                       *)
LEMMA AdvanceKeeps ==
  ASSUME IInv, NEW C, NEW V, NEW lo, NEW hi, Nested(C, V, lo, hi),
         status = "running", ~AtEnd,
         frames' = Advance(frames), UNCHANGED <<cmds, sequence, status>>,
         log' \in {log, Append(log, <<cmd.id, top.loopsuffix>>)}
  PROVE  IInv' /\ Nested(C, V, lo, hi)'
<1>1. PICK n : n = Len(frames)
  OBVIOUS
<1>2. PICK e : e = <<Current(top), top.loopsuffix>>
  OBVIOUS
<1>3. /\ Shape /\ SuffixesDistinct /\ log \in Seq(Entry)
  BY DEF IInv, Shape
<1>4. Order(frames, lo, hi, log) /\ WellNested(C, V, Text)
  BY DEF Nested
<1>5. /\ n \in Nat \ {0} /\ n \in 1..Len(frames) /\ top = frames[n] /\ top.it <= Len(top.seq)
      /\ Closed(C, V) /\ Stack(C, V, frames, lo, hi) /\ frames \in Seq(FrameIn(C))
      /\ frames[n] \in FrameIn(C) /\ Level(V, frames, lo, hi, n) /\ Len(top.seq) \in Nat
      /\ top.it \in 1..Len(top.seq) + 1
  BY <1>1, <1>3, TopFrame DEF AtEnd
<1>6. /\ TopChanged(C, frames, frames', n) /\ Len(frames') = n
      /\ frames'[n] = [frames[n] EXCEPT !.it = @ + 1]
  <2>1. Passes(C, frames, frames', n)
    BY <1>1, <1>3, AdvancePasses
  <2> QED BY <2>1 DEF Passes, TopChanged
<1>7. Stack(C, V, frames', lo, hi)
  BY <1>5, <1>6, StackChanged
<1>8. Order(frames', lo, hi, log)
  BY <1>3, <1>4, <1>5, <1>6, OrderAdvanced
<1>9. Order(frames', lo, hi, log') /\ log' \in Seq(Entry) /\ SuffixesDistinct'
  <2>1. CASE log' = log
    BY <2>1, <1>3, <1>8 DEF SuffixesDistinct
  <2>2. CASE log' = Append(log, <<cmd.id, top.loopsuffix>>)
    <3>1. log' \in Seq(Entry) /\ SuffixesDistinct'
      BY <2>2, LogGrows
    <3>2. \A k \in 1..n : Ordered(frames', lo, hi, k, e)
      BY <1>1, <1>2, <1>5, <1>6, EntryOrdered
    <3>3. log' = Append(log, e)
      BY <2>2, <1>2 DEF cmd, Current
    <3>4. /\ Len(log') = Len(log) + 1 /\ Len(log) \in Nat /\ log'[Len(log) + 1] = e
          /\ \A i \in 1..Len(log) : log'[i] = log[i]
      BY <1>3, <3>3
    <3>5. \A i \in 1..Len(log) + 1 : i = Len(log) + 1 \/ i \in 1..Len(log)
      BY <3>4
    <3>6. Order(frames', lo, hi, log')
      BY <1>6, <1>8, <3>2, <3>4, <3>5 DEF Order
    <3> QED BY <3>1, <3>6
  <2> QED BY <2>1, <2>2
<1>10. Text' = Text
  BY DEF Text
<1>11. Nested(C, V, lo, hi)'
  BY <1>4, <1>5, <1>7, <1>9, <1>10 DEF Nested
<1>12. frames' # <<>>
  BY <1>5, <1>6, EmptySeq
<1>13. Shape'
  BY <1>3, <1>9, <1>12 DEF Shape
<1> QED BY <1>9, <1>11, <1>13 DEF IInv

(* A command that is run keeps the invariant, whether it succeeds or       *)
(* fails.                                                                  *)
LEMMA RunCommandKeeps ==
  ASSUME IInv, RunCommand
  PROVE  IInv'
<1>1. /\ status = "running" /\ ~AtEnd /\ cmds' = cmds /\ sequence' = sequence
      /\ log' = Append(log, <<cmd.id, top.loopsuffix>>)
  BY DEF RunCommand, Running
<1>2. CASE frames' = Advance(frames) /\ status' = status
  <2>1. PICK C, V, lo, hi : Nested(C, V, lo, hi)
    BY DEF IInv
  <2> QED BY <1>1, <1>2, <2>1, AdvanceKeeps
<1>3. CASE status' = "failing" /\ frames' = frames
  <2>1. PICK C, V, lo, hi : Nested(C, V, lo, hi)
    BY DEF IInv
  <2>2. log' \in Seq(Entry) /\ SuffixesDistinct'
    BY <1>1, <2>1, LogGrows
  <2>3. Shape'
    BY <1>1, <1>3, <2>2 DEF IInv, Shape
  <2>4. Nested(C, V, lo, hi)'
    BY <1>1, <1>3, <2>1 DEF Nested, Text
  <2> QED BY <2>2, <2>3, <2>4 DEF IInv
<1> QED BY <1>2, <1>3 DEF RunCommand

(* A label keeps the invariant.                                            *)
LEMMA RunLabelKeeps ==
  ASSUME IInv, RunLabel
  PROVE  IInv'
<1>1. /\ status = "running" /\ ~AtEnd /\ UNCHANGED <<cmds, sequence, status>>
      /\ frames' = Advance(frames) /\ log' = log
  BY DEF RunLabel, Running
<1>2. PICK C, V, lo, hi : Nested(C, V, lo, hi)
  BY DEF IInv
<1> QED BY <1>1, <1>2, AdvanceKeeps

(***************************************************************************)
(* A step of the interpreter that changes only the activations.            *)
(***************************************************************************)
LEMMA FramesKeep ==
  ASSUME IInv, UNCHANGED <<cmds, sequence, log>>,
         NEW C, NEW V, NEW lo, NEW hi, NEW lo2, NEW hi2, Nested(C, V, lo, hi),
         status \in {"running", "failing"}, status' = status, frames' # <<>>,
         Stack(C, V, frames', lo2, hi2),
         status = "running" => Order(frames', lo2, hi2, log)
  PROVE  IInv' /\ Nested(C, V, lo2, hi2)'
<1>1. Nested(C, V, lo2, hi2)'
  BY DEF Nested, Text
<1>2. Shape'
  BY DEF IInv, Shape
<1>3. SuffixesDistinct'
  BY DEF IInv, SuffixesDistinct
<1> QED BY <1>1, <1>2, <1>3 DEF IInv

(* What RunLoop does to the activations.                                   *)
LEMMA RunLoopPushes ==
  ASSUME RunLoop, NEW C, NEW V, NEW lo, NEW hi, Shape, Nested(C, V, lo, hi),
         NEW lo2, NEW hi2,
         lo2 = [lo EXCEPT ![Len(frames) + 1] = LastPassed(top, lo[Len(frames)])],
         hi2 = [hi EXCEPT ![Len(frames) + 1] = Current(top)]
  PROVE  /\ Pushed(Len(frames), frames, frames', lo, lo2, hi, hi2)
         /\ frames' = Append(frames, Frame(cmd.loopedsequence, cmd.loops,
                                           Append(top.loopsuffix, 0)))
         /\ frames'[Len(frames) + 1] = Frame(cmd.loopedsequence, cmd.loops,
                                             Append(top.loopsuffix, 0))
<1>1. PICK n : n = Len(frames)
  OBVIOUS
<1>2. /\ status = "running" /\ ~AtEnd
      /\ frames' = Append(frames, Frame(cmd.loopedsequence, cmd.loops,
                                        Append(top.loopsuffix, 0)))
  BY DEF RunLoop, Running
<1>3. /\ n \in Nat \ {0} /\ top = frames[n] /\ top.it <= Len(top.seq)
      /\ frames \in Seq(FrameIn(C))
  BY <1>1, <1>2, TopFrame DEF AtEnd
<1>4. lo2 = [lo EXCEPT ![n + 1] = LastPassed(frames[n], lo[n])]
  BY <1>1, <1>3
<1>5. hi2 = [hi EXCEPT ![n + 1] = Current(frames[n])]
  BY <1>1, <1>3
<1>6. PICK f : f = Frame(cmd.loopedsequence, cmd.loops, Append(top.loopsuffix, 0))
  OBVIOUS
<1>7. f.loopsuffix = Append(frames[n].loopsuffix, 0)
  BY <1>3, <1>6 DEF Frame
<1>8. /\ Len(frames') = n + 1 /\ frames'[n + 1] = f
      /\ \A k \in 1..n : frames'[k] = frames[k]
  BY <1>1, <1>2, <1>3, <1>6
<1>9. frames[n].it <= Len(frames[n].seq)
  BY <1>3
<1>10. frames'[n + 1].loopsuffix = Append(frames[n].loopsuffix, 0)
  BY <1>7, <1>8
<1>11. Pushed(n, frames, frames', lo, lo2, hi, hi2)
  BY <1>1, <1>3, <1>4, <1>5, <1>8, <1>9, <1>10 DEF Pushed
<1> QED BY <1>1, <1>2, <1>6, <1>8, <1>11

(* Entering a loop keeps the invariant.                                    *)
LEMMA RunLoopKeeps ==
  ASSUME IInv, RunLoop, NEW C, NEW V, NEW lo, NEW hi, Nested(C, V, lo, hi),
         NEW lo2, NEW hi2,
         lo2 = [lo EXCEPT ![Len(frames) + 1] = LastPassed(top, lo[Len(frames)])],
         hi2 = [hi EXCEPT ![Len(frames) + 1] = Current(top)]
  PROVE  IInv' /\ Nested(C, V, lo2, hi2)'
<1>1. PICK n : n = Len(frames)
  OBVIOUS
<1>2. /\ status = "running" /\ ~AtEnd /\ UNCHANGED <<cmds, sequence, log>> /\ status' = status
  BY DEF RunLoop, Running
<1>3. Shape /\ log \in Seq(Entry) /\ Order(frames, lo, hi, log)
  BY <1>2 DEF IInv, Shape, Nested
<1>4. /\ n \in Nat \ {0} /\ top = frames[Len(frames)] /\ top.it <= Len(top.seq)
      /\ Closed(C, V) /\ Stack(C, V, frames, lo, hi) /\ frames # <<>>
  BY <1>1, <1>2, <1>3, TopFrame DEF AtEnd, Shape
<1>5. /\ Pushed(n, frames, frames', lo, lo2, hi, hi2)
      /\ frames' = Append(frames, Frame(cmd.loopedsequence, cmd.loops,
                                        Append(top.loopsuffix, 0)))
  BY <1>1, <1>3, RunLoopPushes
<1>6. Stack(C, V, frames', lo2, hi2)
  <2>1. frames' = Append(frames, Frame(top.seq[top.it].loopedsequence, top.seq[top.it].loops,
                                       Append(top.loopsuffix, 0)))
    BY <1>5 DEF cmd
  <2> QED BY <1>4, <2>1, StackPushed
<1>7. Order(frames', lo2, hi2, log)
  BY <1>3, <1>4, <1>5, OrderPushed
<1>8. frames' # <<>>
  BY <1>4, <1>5, EmptySeq DEF Pushed
<1> QED BY <1>2, <1>6, <1>7, <1>8, FramesKeep

(* Front takes the last element off and nothing else.                      *)
LEMMA FrontTop ==
  ASSUME NEW S, NEW fs \in Seq(S), NEW n \in Nat, n + 1 = Len(fs)
  PROVE  /\ Front(fs) \in Seq(S) /\ Len(Front(fs)) = n
         /\ \A k \in 1..n : Front(fs)[k] = fs[k]
<1>1. \A i \in 1..n : fs[i] \in S
  BY ElementOfSeq
<1>2. Front(fs) = SubSeq(fs, 1, n)
  BY DEF Front
<1>3. /\ SubSeq(fs, 1, n) \in Seq(S)
      /\ Len(SubSeq(fs, 1, n)) = IF 1 <= n THEN n - 1 + 1 ELSE 0
      /\ \A i \in 1..n - 1 + 1 : SubSeq(fs, 1, n)[i] = fs[1 + i - 1]
  BY <1>1, SubSeqProperties
<1> QED BY <1>2, <1>3

(* An activation that begins another round is one.                         *)
LEMMA RoundFrame ==
  ASSUME NEW S, NEW L, NEW I, NEW T, NEW X, NEW i \in I, NEW n \in T, NEW x \in X,
         NEW f \in [seq : S, it : I, timesleft : T, loops : L, loopsuffix : X]
  PROVE  [[f EXCEPT !.timesleft = n, !.it = i] EXCEPT !.loopsuffix = x]
           \in [seq : S, it : I, timesleft : T, loops : L, loopsuffix : X]
OBVIOUS

(* What Again does to the activations.                                     *)
LEMMA AgainRounds ==
  ASSUME Again, NEW C, NEW V, NEW lo, NEW hi, Shape, Nested(C, V, lo, hi)
  PROVE  Rounds(C, frames, frames', Len(frames))
<1>1. PICK n : n = Len(frames)
  OBVIOUS
<1> DEFINE round == [top EXCEPT !.timesleft = @ + 1, !.it = 1]
           suffix == Append(frames[Len(frames) - 1].loopsuffix, round.timesleft)
           f == [round EXCEPT !.loopsuffix = suffix]
<1>2. /\ status = "running" /\ n > 1 /\ top.timesleft + 1 < top.loops
      /\ frames' = Append(Front(frames), f)
  BY <1>1 DEF Again
<1>3. /\ n \in Nat \ {0} /\ n \in 1..Len(frames) /\ top = frames[n]
      /\ frames \in Seq(FrameIn(C))
      /\ frames[n] \in FrameIn(C) /\ Len(top.seq) \in Nat
  BY <1>1, <1>2, TopFrame
<1>4. n - 1 \in 1..Len(frames) /\ n - 1 \in Nat /\ (n - 1) + 1 = n /\ n > 1
  BY <1>1, <1>2, <1>3
<1>5. frames[n - 1].loopsuffix \in Seq(Nat)
  <2>1. frames[n - 1] \in FrameIn(C)
    BY <1>3, <1>4, ElementOfSeq
  <2> QED BY <2>1 DEF FrameIn
<1>6. /\ f.seq = top.seq /\ f.it = 1 /\ f.timesleft = top.timesleft + 1
      /\ f.loops = top.loops /\ f.loopsuffix = Append(frames[n - 1].loopsuffix, top.timesleft + 1)
  BY <1>1, <1>3 DEF FrameIn
<1>7. f \in FrameIn(C)
  <2>1. top.timesleft + 1 \in Nat /\ 1 \in Nat
    BY <1>3 DEF FrameIn
  <2>2. suffix \in Seq(Nat)
    <3>1. round.timesleft = top.timesleft + 1
      BY <1>3 DEF FrameIn
    <3>2. suffix = Append(frames[n - 1].loopsuffix, top.timesleft + 1)
      BY <3>1, <1>1
    <3> HIDE DEF suffix
    <3> QED BY <1>5, <2>1, <3>2, LongerSuffix
  <2> HIDE DEF suffix
  <2> QED BY <1>3, <2>1, <2>2, RoundFrame DEF FrameIn
<1> HIDE DEF f
<1>8. /\ Front(frames) \in Seq(FrameIn(C)) /\ Len(Front(frames)) = n - 1
      /\ \A k \in 1..n - 1 : Front(frames)[k] = frames[k]
  BY <1>1, <1>3, <1>4, FrontTop
<1>9. /\ frames' \in Seq(FrameIn(C)) /\ Len(frames') = n /\ frames'[n] = f
      /\ \A k \in 1..n - 1 : frames'[k] = frames[k]
  BY <1>2, <1>4, <1>7, <1>8
<1>10. TopChanged(C, frames, frames', n)
  BY <1>2, <1>3, <1>6, <1>9 DEF TopChanged
<1>11. Rounds(C, frames, frames', n)
  BY <1>3, <1>4, <1>6, <1>9, <1>10 DEF Rounds
<1> QED BY <1>1, <1>11

(* Another round of a loop keeps the invariant.                            *)
LEMMA AgainKeeps ==
  ASSUME IInv, Again, NEW C, NEW V, NEW lo, NEW hi, Nested(C, V, lo, hi)
  PROVE  IInv' /\ Nested(C, V, lo, hi)'
<1>1. PICK n : n = Len(frames)
  OBVIOUS
<1>2. status = "running" /\ UNCHANGED <<cmds, sequence, log>> /\ status' = status
  BY DEF Again
<1>3. Shape /\ log \in Seq(Entry) /\ Order(frames, lo, hi, log)
  BY <1>2 DEF IInv, Shape, Nested
<1>4. Closed(C, V) /\ Stack(C, V, frames, lo, hi) /\ n \in Nat \ {0}
  BY <1>1, <1>2, <1>3, TopFrame
<1>5. /\ TopChanged(C, frames, frames', n) /\ n > 1 /\ Len(frames') = n
      /\ frames'[n].timesleft = frames[n].timesleft + 1
  <2>1. Rounds(C, frames, frames', n)
    BY <1>1, <1>3, AgainRounds
  <2> QED BY <2>1 DEF Rounds, TopChanged
<1>6. Stack(C, V, frames', lo, hi)
  BY <1>4, <1>5, StackChanged
<1>7. Order(frames', lo, hi, log)
  BY <1>3, <1>4, <1>5, OrderAgain
<1>8. frames' # <<>>
  BY <1>4, <1>5, EmptySeq
<1> QED BY <1>2, <1>6, <1>7, <1>8, FramesKeep

(* What LoopDone does to the activations.                                  *)
LEMMA LoopDonePasses ==
  ASSUME LoopDone, NEW C, NEW V, NEW lo, NEW hi, Shape, Nested(C, V, lo, hi)
  PROVE  Len(frames) \in Nat /\ Passes(C, frames, frames', Len(frames) - 1)
<1>1. PICK n : n = Len(frames) - 1
  OBVIOUS
<1>2. /\ status = "running" /\ Len(frames) > 1 /\ frames' = Advance(Front(frames))
  BY DEF LoopDone
<1>3. /\ Len(frames) \in Nat \ {0} /\ Stack(C, V, frames, lo, hi)
      /\ frames \in Seq(FrameIn(C)) /\ Level(V, frames, lo, hi, Len(frames))
  BY <1>2, TopFrame
<1>4. n \in Nat \ {0} /\ n + 1 = Len(frames) /\ n \in 1..Len(frames) /\ n \in 1..Len(frames) - 1
  BY <1>1, <1>2, <1>3
<1>5. frames[n].it <= Len(frames[n].seq)
  BY <1>3, <1>4 DEF Level
<1>6. frames[n] \in FrameIn(C) /\ Level(V, frames, lo, hi, n)
  BY <1>3, <1>4, ElementOfSeq DEF Stack
<1>7. /\ Front(frames) \in Seq(FrameIn(C)) /\ Len(Front(frames)) = n
      /\ \A k \in 1..n : Front(frames)[k] = frames[k]
  BY <1>3, <1>4, FrontTop
<1>8. /\ frames' \in Seq(FrameIn(C)) /\ Len(frames') = n
      /\ frames'[n] = [Front(frames)[n] EXCEPT !.it = @ + 1]
      /\ \A k \in 1..n - 1 : frames'[k] = Front(frames)[k]
  BY <1>2, <1>4, <1>7, AdvanceTop
<1>9. /\ frames'[n] = [frames[n] EXCEPT !.it = @ + 1]
      /\ \A k \in 1..n - 1 : frames'[k] = frames[k]
  <2>1. n \in 1..n /\ \A k \in 1..n - 1 : k \in 1..n
    BY <1>4
  <2> QED BY <2>1, <1>7, <1>8
<1>10. TopChanged(C, frames, frames', n)
  <2>1. /\ frames'[n].seq = frames[n].seq /\ frames'[n].it = frames[n].it + 1
        /\ frames'[n].timesleft = frames[n].timesleft /\ frames'[n].loops = frames[n].loops
        /\ frames'[n].loopsuffix = frames[n].loopsuffix
    BY <1>6, <1>9 DEF FrameIn
  <2>2. frames'[n].it \in 1..Len(frames[n].seq) + 1
    BY <1>5, <1>6, <2>1 DEF FrameIn
  <2>3. /\ frames[n].timesleft = 0 \/ frames[n].timesleft < frames[n].loops
        /\ n > 1 => frames[n].loopsuffix = Append(frames[n - 1].loopsuffix, frames[n].timesleft)
    BY <1>6 DEF Level
  <2> QED BY <1>4, <1>8, <1>9, <2>1, <2>2, <2>3 DEF TopChanged
<1>11. Passes(C, frames, frames', n)
  BY <1>5, <1>9, <1>10 DEF Passes
<1> QED BY <1>1, <1>3, <1>11

(* Leaving a loop keeps the invariant.                                     *)
LEMMA LoopDoneKeeps ==
  ASSUME IInv, LoopDone, NEW C, NEW V, NEW lo, NEW hi, Nested(C, V, lo, hi)
  PROVE  IInv' /\ Nested(C, V, lo, hi)'
<1>1. PICK n : n = Len(frames) - 1
  OBVIOUS
<1>2. /\ status = "running" /\ UNCHANGED <<cmds, sequence, log>> /\ status' = status
      /\ Len(frames) > 1
  BY DEF LoopDone
<1>3. Shape /\ log \in Seq(Entry) /\ Order(frames, lo, hi, log)
  BY <1>2 DEF IInv, Shape, Nested
<1>4. Closed(C, V) /\ Stack(C, V, frames, lo, hi) /\ Len(frames) \in Nat \ {0}
  BY <1>2, <1>3, TopFrame
<1>5. /\ TopChanged(C, frames, frames', n) /\ Len(frames') = n
      /\ frames[n].it <= Len(frames[n].seq)
      /\ frames'[n] = [frames[n] EXCEPT !.it = @ + 1]
  <2>1. Passes(C, frames, frames', n)
    BY <1>1, <1>3, LoopDonePasses
  <2> QED BY <2>1 DEF Passes, TopChanged
<1>6. Stack(C, V, frames', lo, hi)
  BY <1>4, <1>5, StackChanged
<1>7. Order(frames', lo, hi, log)
  BY <1>3, <1>4, <1>5, OrderAdvanced
<1>8. frames' # <<>>
  <2>1. n \in Nat \ {0}
    BY <1>1, <1>2, <1>4
  <2> QED BY <2>1, <1>5, EmptySeq
<1> QED BY <1>2, <1>6, <1>7, <1>8, FramesKeep

(* The end of the script, reached or by a failure, keeps the invariant.    *)
LEMMA EndKeeps ==
  ASSUME IInv, status \in {"running", "failing"}, UNCHANGED <<cmds, sequence, log>>,
         frames' = <<>>, status' \in {"done", "failed"}
  PROVE  IInv'
<1>1. PICK C, V, lo, hi : Nested(C, V, lo, hi)
  BY DEF IInv
<1>2. Stack(C, V, frames', lo, hi)
  <2>1. lo \in [Nat -> Nat] /\ hi \in [Nat -> Nat]
    BY <1>1 DEF Nested, Stack
  <2> QED BY <2>1, StackEmpty
<1>3. Nested(C, V, lo, hi)'
  BY <1>1, <1>2 DEF Nested, Text
<1>4. Shape'
  BY DEF IInv, Shape
<1>5. SuffixesDistinct'
  BY DEF IInv, SuffixesDistinct
<1> QED BY <1>3, <1>4, <1>5 DEF IInv

(* Handing on the false of a command keeps the invariant.                  *)
LEMMA UnwindKeeps ==
  ASSUME IInv, Unwind
  PROVE  IInv'
<1>1. PICK C, V, lo, hi : Nested(C, V, lo, hi)
  BY DEF IInv
<1>2. PICK n : n = Len(frames) - 1
  OBVIOUS
<1>3. /\ status = "failing" /\ UNCHANGED <<cmds, sequence, log>> /\ frames' = Front(frames)
      /\ status' = IF Len(frames) = 1 THEN "failed" ELSE "failing"
  BY DEF Unwind
<1>4. /\ Len(frames) \in Nat \ {0} /\ Stack(C, V, frames, lo, hi)
      /\ frames \in Seq(FrameIn(C))
  BY <1>1, <1>3, TopFrame DEF IInv
<1>5. n \in Nat /\ n + 1 = Len(frames)
  BY <1>2, <1>4
<1>6. /\ frames' \in Seq(FrameIn(C)) /\ Len(frames') = n
      /\ \A k \in 1..n : frames'[k] = frames[k]
  BY <1>3, <1>4, <1>5, FrontTop
<1>7. CASE n = 0
  <2>1. frames' = <<>> /\ status' = "failed"
    BY <1>3, <1>5, <1>6, <1>7, EmptySeq
  <2> QED BY <2>1, <1>3, EndKeeps
<1>8. CASE n # 0
  <2>1. status' = status /\ n \in 1..Len(frames) /\ n \in 1..n /\ \A k \in 1..n - 1 : k \in 1..n
    BY <1>3, <1>5, <1>8
  <2>2. frames[n] \in FrameIn(C) /\ Level(V, frames, lo, hi, n)
    BY <1>4, <2>1, ElementOfSeq DEF Stack
  <2>3. TopChanged(C, frames, frames', n)
    BY <1>6, <2>1, <2>2 DEF TopChanged, Level
  <2>4. Stack(C, V, frames', lo, hi)
    BY <1>4, <2>3, StackChanged
  <2>5. frames' # <<>>
    BY <1>5, <1>6, <1>8, EmptySeq
  <2> QED BY <1>1, <1>3, <2>1, <2>4, <2>5, FramesKeep
<1> QED BY <1>7, <1>8

(* Every step keeps the invariant.                                         *)
LEMMA StepInv == IInv /\ [Next]_vars => IInv'
<1> SUFFICES ASSUME IInv, [Next]_vars PROVE IInv'
  OBVIOUS
<1>1. PICK C, V, lo, hi : Nested(C, V, lo, hi)
  BY DEF IInv
<1>2. CASE ParseNext
  BY <1>2, ParseKeeps DEF ParseNext
<1>3. CASE Run
  <2>1. PICK W : W = V \cup {Text}
    OBVIOUS
  <2>2. PICK low : low = [k \in Nat |-> 0]
    OBVIOUS
  <2>3. PICK high : high = [k \in Nat |-> Len(cmds) + 1]
    OBVIOUS
  <2> QED BY <1>1, <1>3, <2>1, <2>2, <2>3, RunKeeps
<1>4. CASE RunCommand
  BY <1>4, RunCommandKeeps
<1>5. CASE RunLabel
  BY <1>5, RunLabelKeeps
<1>6. CASE RunLoop
  <2>1. PICK lo2 : lo2 = [lo EXCEPT ![Len(frames) + 1] = LastPassed(top, lo[Len(frames)])]
    OBVIOUS
  <2>2. PICK hi2 : hi2 = [hi EXCEPT ![Len(frames) + 1] = Current(top)]
    OBVIOUS
  <2> QED BY <1>1, <1>6, <2>1, <2>2, RunLoopKeeps
<1>7. CASE Again
  BY <1>1, <1>7, AgainKeeps
<1>8. CASE LoopDone
  BY <1>1, <1>8, LoopDoneKeeps
<1>9. CASE RunDone
  BY <1>9, EndKeeps DEF RunDone
<1>10. CASE Unwind
  BY <1>10, UnwindKeeps
<1>11. CASE UNCHANGED vars
  <2>1. /\ cmds' = cmds /\ sequence' = sequence /\ status' = status /\ frames' = frames
        /\ log' = log
    BY <1>11 DEF vars
  <2>2. Shape' /\ SuffixesDistinct'
    BY <2>1 DEF IInv, Shape, SuffixesDistinct
  <2>3. Nested(C, V, lo, hi)'
    BY <2>1, <1>1 DEF Nested, Text
  <2> QED BY <2>2, <2>3 DEF IInv
<1> QED BY <1>2, <1>3, <1>4, <1>5, <1>6, <1>7, <1>8, <1>9, <1>10, <1>11 DEF Next, RunNext

(* The commands of a well nested vector are in the order of the text.      *)
LEMMA VectorInOrder ==
  ASSUME NEW C, NEW V, NEW v, WellNested(C, V, v)
  PROVE  InOrder(v.seq)
<1>1. v.seq \in Seq(C)
  BY DEF WellNested, VectorIn
<1>2. DOMAIN v.seq = 1..Len(v.seq) /\ Len(v.seq) \in Nat
  BY <1>1, LenProperties
<1>3. SUFFICES ASSUME NEW i \in 1..Len(v.seq), NEW j \in 1..Len(v.seq), i < j
               PROVE  v.seq[i].id < v.seq[j].id
  BY <1>2 DEF InOrder
<1>4. i \in 1..j - 1
  BY <1>3
<1> QED BY <1>4 DEF WellNested

(* The invariant contains the types.                                       *)
LEMMA Typed == IInv => TypeOK
<1> SUFFICES ASSUME IInv PROVE TypeOK
  OBVIOUS
<1>1. PICK C, V, lo, hi : Nested(C, V, lo, hi)
  BY DEF IInv
<1>2. Closed(C, V) /\ WellNested(C, V, Text) /\ Stack(C, V, frames, lo, hi)
  BY <1>1 DEF Nested
<1>3. InOrder(sequence)
  BY <1>2, VectorInOrder DEF Text
<1>4. ASSUME NEW k \in DOMAIN frames
      PROVE  /\ frames[k].it \in 1..Len(frames[k].seq) + 1
             /\ frames[k].timesleft \in Nat
             /\ frames[k].timesleft = 0 \/ frames[k].timesleft < frames[k].loops
             /\ InOrder(frames[k].seq)
  <2>1. frames \in Seq(FrameIn(C))
    BY <1>2 DEF Stack
  <2>2. k \in 1..Len(frames)
    BY <2>1, LenProperties
  <2>3. frames[k] \in FrameIn(C) /\ Level(V, frames, lo, hi, k)
    BY <1>2, <2>1, <2>2, ElementOfSeq DEF Stack
  <2>4. WellNested(C, V, VectorOf(frames[k], lo[k], hi[k]))
    BY <1>2, <2>3 DEF Closed, Level
  <2>5. InOrder(frames[k].seq)
    BY <2>4, VectorInOrder DEF VectorOf
  <2> QED BY <2>3, <2>5 DEF FrameIn, Level
<1> QED BY <1>3, <1>4 DEF IInv, Shape, TypeOK

(* The interpreter keeps its vectors nested and its log in order, for      *)
(* every text and every outcome of its commands.                           *)
THEOREM Invariance == Spec => []IInv
BY InitInv, StepInv, PTL DEF Spec

(* For every set of labels and counts and for texts of any length, the     *)
(* iterator of every activation stays within its vector or one behind it,  *)
(* the count of a loop stays below the one that was read, and the vectors  *)
(* of the nested loops keep the order of the text (Command::Parse,         *)
(* Command::Run, Loop).                                                    *)
THEOREM TypeCorrect == Spec => []TypeOK
BY Invariance, Typed, PTL

(* However deep the loops of a script are nested and whatever their        *)
(* counts, no command is run twice under one suffix: two iterations of a   *)
(* Record with the option i never name the same file (Loop::RunCommand,    *)
(* Record::RunCommand).                                                    *)
THEOREM NoFileTwice == Spec => []SuffixesDistinct
<1>1. IInv => SuffixesDistinct
  BY DEF IInv
<1> QED BY <1>1, Invariance, PTL

=============================================================================
