------------------------------ MODULE ServicesProofs ------------------------------
(***************************************************************************)
(* Proofs about the services side by side.  A behaviour is one of one part, so *)
(* a property of a part is proved for the part alone, from an invariant of its  *)
(* own, and carried over: the other parts leave its variables as they are.        *)
(* Fetch, Telemetry and Intake have theorems of their own, which hold of them      *)
(* as instances here.                                                              *)
(*                                                                             *)
(* What is computed by recursion over notes and lines is reasoned about from two   *)
(* facts: a set of natural numbers has a least element, and a function that is       *)
(* defined step by step exists.                                                      *)
(***************************************************************************)
EXTENDS Services, FiniteSetTheorems, SequenceTheorems, WellFoundedInduction, TLAPS

---------------------------------------------------------------------------------
(* Induction and recursion on the natural numbers *)

\* A set of natural numbers that is not empty has a least element.
LEMMA LeastNat ==
    ASSUME NEW T \in SUBSET Nat, T # {}
    PROVE  \E m \in T : \A k \in T : m <= k
<1> DEFINE R == OpToRel(<, Nat)
<1>1. IsWellFoundedOn(R, Nat)
  BY NatLessThanWellFounded
<1>2. \A x, y \in Nat : y < x => <<y, x>> \in R
  BY DEF OpToRel
<1> HIDE DEF R
<1>3. \E x \in T : \A y \in T : ~(<<y, x>> \in R)
  BY <1>1, WFMin
<1>4. PICK x \in T : \A y \in T : ~(<<y, x>> \in R)
  BY <1>3
<1>5. \A k \in T : x <= k
  <2> SUFFICES ASSUME NEW k \in T PROVE x <= k
    OBVIOUS
  <2>1. x \in Nat /\ k \in Nat
    OBVIOUS
  <2>2. ~(k < x)
    BY <1>2, <1>4, <2>1
  <2> QED
    BY <2>1, <2>2
<1> QED
  BY <1>5

\* A set of natural numbers that is bounded, and not empty, has a greatest element.
LEMMA GreatestNat ==
    ASSUME NEW T \in SUBSET Nat, NEW n \in Nat, \A k \in T : k <= n, T # {}
    PROVE  \E m \in T : \A k \in T : k <= m
<1> DEFINE U == {n - k : k \in T}
<1>1. U \in SUBSET Nat /\ U # {}
  <2>1. \A k \in T : n - k \in Nat
    <3> SUFFICES ASSUME NEW k \in T PROVE n - k \in Nat
      OBVIOUS
    <3>1. k \in Nat /\ k <= n
      OBVIOUS
    <3> QED
      BY <3>1
  <2> QED
    BY <2>1
<1>2. PICK u \in U : \A k \in U : u <= k
  <2> HIDE DEF U
  <2> QED
    BY <1>1, LeastNat
<1>3. PICK m \in T : u = n - m
  BY <1>2
<1>4. \A k \in T : n - k \in U
  OBVIOUS
<1> QED
  <2> SUFFICES ASSUME NEW k \in T PROVE k <= m
    BY <1>3
  <2>1. u <= n - k /\ k \in Nat /\ m \in Nat
    BY <1>2, <1>4
  <2> QED
    BY <1>3, <2>1

\* f begins with a, and goes on by the steps S.
Recursive(f, A, a, S) ==
    f \in [Nat -> A] /\ f[0] = a /\ \A n \in Nat : f[n + 1] = S[n][f[n]]

\* A function on the natural numbers may be defined by recursion: one there is.
LEMMA Recursion ==
    ASSUME NEW A, NEW a \in A, NEW S \in [Nat -> [A -> A]]
    PROVE  \E f : Recursive(f, A, a, S)
<1> DEFINE Upto(n, g) == /\ g \in [0..n -> A] /\ g[0] = a
                         /\ \A k \in 0..n : k + 1 \in 0..n => g[k + 1] = S[k][g[k]]
           Bad   == {n \in Nat : ~\E g : Upto(n, g)}
           Split == {n \in Nat : \E g, h : Upto(n, g) /\ Upto(n, h) /\ g[n] # h[n]}
<1>0. ASSUME NEW T \in SUBSET Nat, T # {} PROVE \E m \in T : m = 0 \/ (m - 1 \in Nat /\ m - 1 \notin T)
  <2>1. PICK m \in T : \A k \in T : m <= k
    BY <1>0, LeastNat
  <2> QED
    BY <2>1
<1>1. Bad = {}
  <2> SUFFICES ASSUME Bad # {} PROVE FALSE
    OBVIOUS
  <2>1. Bad \in SUBSET Nat
    OBVIOUS
  <2> HIDE DEF Bad
  <2>2. PICK m \in Bad : m = 0 \/ (m - 1 \in Nat /\ m - 1 \notin Bad)
    BY <1>0, <2>1
  <2> USE DEF Bad
  <2>3. Upto(0, [k \in 0..0 |-> a])
    OBVIOUS
  <2>4. m \in Nat /\ m # 0 /\ m - 1 \in Nat /\ m - 1 \notin Bad
    BY <2>1, <2>2, <2>3
  <2>5. PICK g : Upto(m - 1, g)
    BY <2>4
  <2> DEFINE h == [k \in 0..m |-> IF k = m THEN S[m - 1][g[m - 1]] ELSE g[k]]
  <2>6. g[m - 1] \in A /\ S[m - 1][g[m - 1]] \in A
    BY <2>4, <2>5
  <2>7. \A k \in 0..m : k # m => k \in 0..(m - 1)
    BY <2>4
  <2>8. h \in [0..m -> A] /\ h[0] = a
    BY <2>4, <2>5, <2>6, <2>7
  <2>9. ASSUME NEW k \in 0..m, k + 1 \in 0..m PROVE h[k + 1] = S[k][h[k]]
    <3>1. k # m /\ h[k] = g[k] /\ k \in 0..(m - 1) /\ k \in Nat
      BY <2>4, <2>9
    <3>2. CASE k + 1 = m
      <4>1. k = m - 1 /\ h[k + 1] = S[m - 1][g[m - 1]]
        BY <2>4, <3>1, <3>2
      <4> QED
        BY <3>1, <4>1
    <3>3. CASE k + 1 # m
      <4>1. h[k + 1] = g[k + 1] /\ k + 1 \in 0..(m - 1)
        BY <2>4, <2>9, <3>1, <3>3
      <4> QED
        BY <2>5, <3>1, <4>1
    <3> QED
      BY <3>2, <3>3
  <2>10. Upto(m, h)
    BY <2>8, <2>9
  <2> QED
    BY <2>4, <2>10
<1>2. Split = {}
  <2> SUFFICES ASSUME Split # {} PROVE FALSE
    OBVIOUS
  <2>1. Split \in SUBSET Nat
    OBVIOUS
  <2> HIDE DEF Split
  <2>2. PICK m \in Split : m = 0 \/ (m - 1 \in Nat /\ m - 1 \notin Split)
    BY <1>0, <2>1
  <2>3. m \in Nat
    BY <2>1
  <2>4. PICK g, h : Upto(m, g) /\ Upto(m, h) /\ g[m] # h[m]
    BY DEF Split
  <2>5. m # 0
    BY <2>4
  <2> DEFINE gg == [k \in 0..(m - 1) |-> g[k]]
             hh == [k \in 0..(m - 1) |-> h[k]]
  <2>6. m - 1 \in Nat /\ m - 1 \notin Split
    BY <2>2, <2>5
  <2>7. \A k \in 0..(m - 1) : k \in 0..m /\ k + 1 \in 0..m
    BY <2>3
  <2>8. Upto(m - 1, gg)
    BY <2>4, <2>6, <2>7
  <2>9. Upto(m - 1, hh)
    BY <2>4, <2>6, <2>7
  <2> HIDE DEF Upto
  <2>10. gg[m - 1] = hh[m - 1]
    BY <2>6, <2>8, <2>9 DEF Split
  <2>11. gg[m - 1] = g[m - 1] /\ hh[m - 1] = h[m - 1]
    BY <2>6
  <2> USE DEF Upto
  <2>12. g[m] = S[m - 1][g[m - 1]] /\ h[m] = S[m - 1][h[m - 1]]
    <3>1. m - 1 \in 0..m /\ (m - 1) + 1 = m /\ m \in 0..m
      BY <2>3, <2>6
    <3> QED
      BY <2>4, <3>1
  <2> QED
    BY <2>4, <2>10, <2>11, <2>12
<1> DEFINE F(n) == CHOOSE g : Upto(n, g)
           f == [n \in Nat |-> F(n)[n]]
<1>3. \A n \in Nat : Upto(n, F(n))
  <2> SUFFICES ASSUME NEW n \in Nat PROVE Upto(n, F(n))
    OBVIOUS
  <2>1. \E g : Upto(n, g)
    BY <1>1
  <2> HIDE DEF Upto
  <2> QED
    BY <2>1
<1> HIDE DEF F
<1>4. ASSUME NEW n \in Nat PROVE F(n + 1)[n] = F(n)[n] /\ F(n + 1)[n + 1] = S[n][F(n + 1)[n]]
  <2> DEFINE g == [k \in 0..n |-> F(n + 1)[k]]
  <2>1. Upto(n + 1, F(n + 1)) /\ Upto(n, F(n))
    BY <1>3
  <2>2. \A k \in 0..n : k \in 0..(n + 1) /\ k + 1 \in 0..(n + 1)
    OBVIOUS
  <2>3. Upto(n, g)
    BY <2>1, <2>2
  <2>4. n \in 0..n /\ F(n + 1)[n + 1] = S[n][F(n + 1)[n]]
    BY <2>1, <2>2
  <2>5. g[n] = F(n + 1)[n]
    BY <2>4
  <2> HIDE DEF Upto, g
  <2>6. g[n] = F(n)[n]
    BY <1>2, <2>1, <2>3 DEF Split
  <2> QED
    BY <2>4, <2>5, <2>6
<1>5. f \in [Nat -> A] /\ f[0] = a
  BY <1>3
<1>6. ASSUME NEW n \in Nat PROVE f[n + 1] = S[n][f[n]]
  <2>1. f[n + 1] = F(n + 1)[n + 1] /\ f[n] = F(n)[n]
    OBVIOUS
  <2> QED
    BY <1>4, <2>1
<1> QED
  BY <1>5, <1>6 DEF Recursive

\* What holds of the first number of an interval, and of the next whenever it holds
\* of one, holds of all.
LEMMA Upwards ==
    ASSUME NEW a \in Int, NEW b \in Int, NEW T, a <= b => a \in T,
           \A i \in a..b : (i \in T /\ i + 1 \in a..b) => i + 1 \in T
    PROVE  \A i \in a..b : i \in T
<1> DEFINE Bad == {k \in Nat : a + k \in a..b /\ a + k \notin T}
<1>1. Bad = {}
  <2> SUFFICES ASSUME Bad # {} PROVE FALSE
    OBVIOUS
  <2>1. Bad \in SUBSET Nat
    OBVIOUS
  <2> HIDE DEF Bad
  <2>2. PICK m \in Bad : \A k \in Bad : m <= k
    BY <2>1, LeastNat
  <2> USE DEF Bad
  <2>3. m \in Nat /\ a + m \in a..b /\ a + m \notin T
    BY <2>2
  <2>4. m # 0
    BY <2>3
  <2>5. m - 1 \in Nat /\ m - 1 \notin Bad /\ a + (m - 1) \in a..b /\ (a + (m - 1)) + 1 = a + m
    BY <2>2, <2>3, <2>4
  <2>6. a + (m - 1) \in T
    BY <2>5
  <2> QED
    BY <2>3, <2>5, <2>6
<1>2. ASSUME NEW i \in a..b PROVE i \in T
  <2>1. i - a \in Nat /\ a + (i - a) = i
    OBVIOUS
  <2> QED
    BY <1>1, <2>1
<1> QED
  BY <1>2

\* f begins at a with x, and goes on up to b by the steps S.
Unfolds(f, a, b, A, x, S) ==
    f \in [a..b -> A] /\ \A i \in a..b : f[i] = IF i = a THEN x ELSE S[i][f[i - 1]]

\* The same on an interval.
LEMMA RecursionUpTo ==
    ASSUME NEW a \in Int, NEW b \in Int, NEW A, NEW x \in A, NEW S \in [a..b -> [A -> A]]
    PROVE  \E f : Unfolds(f, a, b, A, x, S)
<1> DEFINE R == [k \in Nat |-> [q \in A |-> IF a + k + 1 \in a..b THEN S[a + k + 1][q] ELSE q]]
<1>1. R \in [Nat -> [A -> A]]
  <2>1. ASSUME NEW k \in Nat, NEW q \in A PROVE (IF a + k + 1 \in a..b THEN S[a + k + 1][q] ELSE q) \in A
    OBVIOUS
  <2> QED
    BY <2>1
<1>2. \A k \in Nat, q \in A : R[k][q] = IF a + k + 1 \in a..b THEN S[a + k + 1][q] ELSE q
  OBVIOUS
<1> HIDE DEF R
<1>3. PICK g : Recursive(g, A, x, R)
  BY <1>1, Recursion
<1>4. g \in [Nat -> A] /\ g[0] = x /\ \A k \in Nat : g[k + 1] = R[k][g[k]]
  BY <1>3 DEF Recursive
<1> DEFINE f == [i \in a..b |-> g[i - a]]
<1>5. \A i \in a..b : i - a \in Nat
  OBVIOUS
<1>6. f \in [a..b -> A]
  BY <1>4, <1>5
<1>7. ASSUME NEW i \in a..b PROVE f[i] = IF i = a THEN x ELSE S[i][f[i - 1]]
  <2>1. CASE i = a
    BY <1>4, <2>1
  <2>2. CASE i # a
    <3> DEFINE k == i - a - 1
    <3>1. k \in Nat /\ k + 1 = i - a /\ a + k + 1 = i /\ i - 1 \in a..b /\ (i - 1) - a = k
      BY <2>2
    <3>2. f[i] = g[i - a] /\ f[i - 1] = g[k]
      BY <3>1
    <3> HIDE DEF k, f
    <3>3. g[k + 1] = R[k][g[k]] /\ g[k] \in A
      BY <1>4, <3>1
    <3>4. R[k][g[k]] = S[i][g[k]]
      BY <1>2, <3>1, <3>3
    <3> QED
      BY <2>2, <3>1, <3>2, <3>3, <3>4
  <2> QED
    BY <2>1, <2>2
<1> HIDE DEF f
<1> QED
  BY <1>6, <1>7 DEF Unfolds

---------------------------------------------------------------------------------
(* Numbers that never descend *)

\* Of a sequence that never descends the steps up to a number are its first ones.
LEMMA NeverDescends ==
    ASSUME NEW n \in Nat, NEW f \in [1..n -> Nat], \A k \in 1..n : k + 1 \in 1..n => f[k] <= f[k + 1]
    PROVE  \A j, k \in 1..n : j <= k => f[j] <= f[k]
<1> SUFFICES ASSUME NEW j \in 1..n PROVE \A k \in j..n : f[j] <= f[k]
  OBVIOUS
<1> DEFINE T == {k \in j..n : f[j] <= f[k]}
<1>1. j <= n => j \in T
  OBVIOUS
<1>2. ASSUME NEW k \in j..n, k \in T, k + 1 \in j..n PROVE k + 1 \in T
  <2>0. k \in 1..n /\ k + 1 \in 1..n
    BY <1>2
  <2>1. f[k] \in Nat /\ f[k + 1] \in Nat /\ f[j] \in Nat
    BY <2>0
  <2> QED
    BY <1>2, <2>0, <2>1
<1> HIDE DEF T
<1>3. \A k \in j..n : k \in T
  <2>1. j \in Int /\ n \in Int
    OBVIOUS
  <2>2. \A k \in j..n : (k \in T /\ k + 1 \in j..n) => k + 1 \in T
    BY <1>2
  <2> QED
    BY <1>1, <2>1, <2>2, Upwards
<1> QED
  BY <1>3 DEF T

\* Every number from the first step on is between one step and the next, and only there.
LEMMA BetweenSteps ==
    ASSUME NEW n \in Nat, n # 0, NEW f \in [1..n -> Nat], \A k \in 1..n : k + 1 \in 1..n => f[k] <= f[k + 1],
           NEW x \in Nat, f[1] <= x
    PROVE  \E k \in 1..n : \A j \in 1..n : (f[j] <= x /\ (j + 1 \in 1..n => x < f[j + 1])) <=> j = k
<1> DEFINE In(j) == f[j] <= x /\ (j + 1 \in 1..n => x < f[j + 1])
<1>0. \A j, k \in 1..n : j <= k => f[j] <= f[k]
  BY NeverDescends
<1>1. \E k \in 1..n : In(k)
  <2> SUFFICES ASSUME \A k \in 1..n : ~In(k) PROVE FALSE
    OBVIOUS
  <2> DEFINE T == {k \in 1..n : f[k] <= x}
  <2>1. 1 \in T
    OBVIOUS
  <2>2. \A k \in 1..n : (k \in T /\ k + 1 \in 1..n) => k + 1 \in T
    OBVIOUS
  <2>3. n \in 1..n /\ 1 \in Int /\ n \in Int /\ ~(n + 1 \in 1..n)
    OBVIOUS
  <2> HIDE DEF T
  <2>4. \A k \in 1..n : k \in T
    BY <2>1, <2>2, <2>3, Upwards
  <2>5. In(n)
    BY <2>3, <2>4 DEF T
  <2> QED
    BY <2>3, <2>5
<1>2. PICK k \in 1..n : In(k)
  BY <1>1
<1>3. ASSUME NEW i \in 1..n, NEW j \in 1..n, In(i), In(j), i < j PROVE FALSE
  <2>1. i + 1 \in 1..n /\ i + 1 <= j
    BY <1>3
  <2>2. f[i + 1] <= f[j]
    BY <1>0, <2>1
  <2>3. f[i + 1] \in Nat /\ f[j] \in Nat /\ x < f[i + 1] /\ f[j] <= x
    BY <1>3, <2>1
  <2> QED
    BY <2>2, <2>3
<1> HIDE DEF In
<1>4. \A j \in 1..n : In(j) => j = k
  BY <1>2, <1>3
<1>5. \A j \in 1..n : In(j) <=> j = k
  BY <1>2, <1>4
<1> QED
  BY <1>5 DEF In

---------------------------------------------------------------------------------
(* SlideDetection: the notes of the scan *)

NoteSet == [kind : {"start", "end", "ambiguous", "near", "transition"}, at : Nat,
            layout : Layouts, label : Slides!Labels \cup {None}]

Bounds(n) == n.kind \in Slides!Boundaries

Ascending(s)   == \A i, j \in DOMAIN s : i < j => s[i].at <= s[j].at
Alternating(s) ==
    \A i, j \in DOMAIN s :
        (i < j /\ Bounds(s[i]) /\ Bounds(s[j]) /\ \A k \in DOMAIN s : (i < k /\ k < j) => ~Bounds(s[k])) =>
            (s[i].kind = "start") = (s[j].kind = "end")

\* Notes in good order up to a time, the last boundary of them of kind last.
Noted(s, last, t) ==
    /\ s \in Seq(NoteSet) /\ Ascending(s) /\ Alternating(s)
    /\ \A i \in DOMAIN s : s[i].at <= t
    /\ \A i \in DOMAIN s : (Bounds(s[i]) /\ \A k \in DOMAIN s : i < k => ~Bounds(s[k])) =>
                               s[i].kind = last

\* What appending a note does to the places of a sequence.
LEMMA NoteAppended ==
    ASSUME NEW s \in Seq(NoteSet), NEW n \in NoteSet
    PROVE  /\ Append(s, n) \in Seq(NoteSet) /\ DOMAIN s = 1..Len(s) /\ Len(s) \in Nat
           /\ DOMAIN Append(s, n) = 1..(Len(s) + 1)
           /\ \A i \in DOMAIN s : Append(s, n)[i] = s[i] /\ s[i] \in NoteSet
           /\ Append(s, n)[Len(s) + 1] = n
BY AppendProperties

\* The times stay in order when the new note is no earlier than all of them.
LEMMA AscendingAppended ==
    ASSUME NEW s \in Seq(NoteSet), NEW n \in NoteSet, Ascending(s), \A i \in DOMAIN s : s[i].at <= n.at
    PROVE  Ascending(Append(s, n)) /\ \A i \in DOMAIN Append(s, n) : Append(s, n)[i].at <= n.at
<1> DEFINE a == Append(s, n)
<1>1. /\ DOMAIN s = 1..Len(s) /\ Len(s) \in Nat /\ DOMAIN a = 1..(Len(s) + 1)
      /\ \A i \in DOMAIN s : a[i] = s[i]
      /\ a[Len(s) + 1] = n
  BY NoteAppended
<1>2. n.at \in Nat
  BY DEF NoteSet
<1> HIDE DEF a
<1>3. \A i \in DOMAIN a : i \in DOMAIN s \/ i = Len(s) + 1
  BY <1>1
<1>4. \A i \in DOMAIN a : a[i].at <= n.at
  BY <1>1, <1>2, <1>3
<1>5. ASSUME NEW i \in DOMAIN a, NEW j \in DOMAIN a, i < j PROVE a[i].at <= a[j].at
  <2>1. i \in DOMAIN s
    BY <1>1, <1>5
  <2>2. CASE j \in DOMAIN s
    BY <1>1, <1>5, <2>1, <2>2 DEF Ascending
  <2>3. CASE j = Len(s) + 1
    BY <1>1, <1>4, <2>3
  <2> QED
    BY <1>3, <2>2, <2>3
<1> QED
  BY <1>4, <1>5 DEF Ascending, a

\* A transition inside a segment keeps the order.
LEMMA NoteInside ==
    ASSUME NEW s, NEW last \in Slides!Boundaries, NEW t \in Nat, Noted(s, last, t),
           NEW n \in NoteSet, ~Bounds(n), t <= n.at
    PROVE  Noted(Append(s, n), last, n.at)
<1> DEFINE a == Append(s, n)
<1>0. s \in Seq(NoteSet)
  BY DEF Noted
<1>1. /\ a \in Seq(NoteSet) /\ DOMAIN s = 1..Len(s) /\ Len(s) \in Nat /\ DOMAIN a = 1..(Len(s) + 1)
      /\ \A i \in DOMAIN s : a[i] = s[i] /\ s[i] \in NoteSet
      /\ a[Len(s) + 1] = n
  BY <1>0, NoteAppended
<1>2. \A i \in DOMAIN s : s[i].at <= n.at
  BY <1>1 DEF Noted, NoteSet
<1>3. Ascending(a) /\ \A i \in DOMAIN a : a[i].at <= n.at
  BY <1>0, <1>2, AscendingAppended DEF Noted
<1> HIDE DEF a
<1>4. \A i \in DOMAIN a : i \in DOMAIN s \/ i = Len(s) + 1
  BY <1>1
<1>5. \A i \in DOMAIN a : Bounds(a[i]) => i \in DOMAIN s /\ Bounds(s[i]) /\ a[i] = s[i]
  BY <1>1, <1>4
<1>6. \A k \in DOMAIN s : k \in DOMAIN a /\ a[k] = s[k]
  BY <1>1
<1>7. Alternating(a)
  <2> SUFFICES ASSUME NEW i \in DOMAIN a, NEW j \in DOMAIN a, i < j, Bounds(a[i]), Bounds(a[j]),
                      \A k \in DOMAIN a : (i < k /\ k < j) => ~Bounds(a[k])
               PROVE  (a[i].kind = "start") = (a[j].kind = "end")
    BY DEF Alternating
  <2>1. \A k \in DOMAIN s : (i < k /\ k < j) => ~Bounds(s[k])
    BY <1>6
  <2> QED
    BY <1>5, <2>1 DEF Noted, Alternating
<1>8. ASSUME NEW i \in DOMAIN a, Bounds(a[i]), \A k \in DOMAIN a : i < k => ~Bounds(a[k])
      PROVE  a[i].kind = last
  <2>1. \A k \in DOMAIN s : i < k => ~Bounds(s[k])
    BY <1>6, <1>8
  <2> QED
    BY <1>5, <1>8, <2>1 DEF Noted
<1> QED
  BY <1>1, <1>3, <1>7, <1>8 DEF a, Noted

\* A boundary opens or closes a segment, at the time it is dated back to.
LEMMA NoteBoundary ==
    ASSUME NEW s, NEW last \in Slides!Boundaries, NEW t \in Nat, Noted(s, last, t),
           NEW n \in NoteSet, n.kind \in Slides!Boundaries \ {last}, t <= n.at
    PROVE  Noted(Append(s, n), n.kind, n.at)
<1> DEFINE a == Append(s, n)
<1>0. s \in Seq(NoteSet)
  BY DEF Noted
<1>1. /\ a \in Seq(NoteSet) /\ DOMAIN s = 1..Len(s) /\ Len(s) \in Nat /\ DOMAIN a = 1..(Len(s) + 1)
      /\ \A i \in DOMAIN s : a[i] = s[i] /\ s[i] \in NoteSet
      /\ a[Len(s) + 1] = n
  BY <1>0, NoteAppended
<1>2. \A i \in DOMAIN s : s[i].at <= n.at
  BY <1>1 DEF Noted, NoteSet
<1>3. Ascending(a) /\ \A i \in DOMAIN a : a[i].at <= n.at
  BY <1>0, <1>2, AscendingAppended DEF Noted
<1> HIDE DEF a
<1>4. \A i \in DOMAIN a : i \in DOMAIN s \/ i = Len(s) + 1
  BY <1>1
<1>5. Bounds(n)
  BY DEF Bounds, Slides!Boundaries
<1>6. \A k \in DOMAIN s : k \in DOMAIN a /\ a[k] = s[k]
  BY <1>1
<1>7. Alternating(a)
  <2> SUFFICES ASSUME NEW i \in DOMAIN a, NEW j \in DOMAIN a, i < j, Bounds(a[i]), Bounds(a[j]),
                      \A k \in DOMAIN a : (i < k /\ k < j) => ~Bounds(a[k])
               PROVE  (a[i].kind = "start") = (a[j].kind = "end")
    BY DEF Alternating
  <2>1. i \in DOMAIN s /\ a[i] = s[i] /\ Bounds(s[i])
    BY <1>1, <1>6
  <2>2. CASE j \in DOMAIN s
    <3>1. \A k \in DOMAIN s : (i < k /\ k < j) => ~Bounds(s[k])
      BY <1>6
    <3> QED
      BY <1>6, <2>1, <2>2, <3>1 DEF Noted, Alternating
  <2>3. CASE j = Len(s) + 1
    <3>1. \A k \in DOMAIN s : i < k => ~Bounds(s[k])
      BY <1>1, <1>6, <2>3
    <3>2. s[i].kind = last
      BY <2>1, <3>1 DEF Noted
    <3> QED
      BY <1>1, <2>1, <2>3, <3>2 DEF Slides!Boundaries
  <2> QED
    BY <1>4, <2>2, <2>3
<1>8. ASSUME NEW i \in DOMAIN a, Bounds(a[i]), \A k \in DOMAIN a : i < k => ~Bounds(a[k])
      PROVE  a[i].kind = n.kind
  <2>1. i = Len(s) + 1
    BY <1>1, <1>4, <1>5, <1>8
  <2> QED
    BY <1>1, <2>1
<1> QED
  BY <1>1, <1>3, <1>7, <1>8 DEF a, Noted

\* Time may pass.
LEMMA NotedLater ==
    ASSUME NEW s, NEW last \in Slides!Boundaries, NEW t \in Nat, Noted(s, last, t), NEW u \in Nat, t <= u
    PROVE  Noted(s, last, u)
<1>1. \A i \in DOMAIN s : s[i] \in NoteSet
  BY DEF Noted
<1>2. \A i \in DOMAIN s : s[i].at \in Nat
  BY <1>1 DEF NoteSet
<1> QED
  BY <1>2 DEF Noted

\* A label changes neither the kind nor the time of a note.
LEMMA NotedLabelled ==
    ASSUME NEW s, NEW last \in Slides!Boundaries, NEW t \in Nat, Noted(s, last, t), NEW r,
           r \in Seq(NoteSet), DOMAIN r = DOMAIN s,
           \A i \in DOMAIN s : r[i].kind = s[i].kind /\ r[i].at = s[i].at
    PROVE  Noted(r, last, t)
<1>1. \A i \in DOMAIN s : Bounds(r[i]) <=> Bounds(s[i])
  BY DEF Bounds
<1>2. Ascending(r)
  BY DEF Noted, Ascending
<1>3. Alternating(r)
  BY <1>1 DEF Noted, Alternating
<1> QED
  BY <1>1, <1>2, <1>3 DEF Noted

\* The last boundary noted while a layout is active.
Side(l) == IF Slides!Shown(l) THEN "start" ELSE "end"

\* What the scan has noted is in good order up to now, and up to the time a
\* suspected layout is dated back to.
Scanned ==
    /\ frame \in Nat /\ active \in Layouts \cup {NoSlide, None}
    /\ active = None => notes = <<>> /\ pending = None
    /\ Noted(notes, Side(active), Slides!Now)
    /\ pending # None =>
         since \in Nat /\ since <= Slides!Now /\ Noted(notes, Side(active), since)

\* A note of the scan, made at t.
LEMMA NewNote ==
    ASSUME NEW l \in Layouts, NEW kind \in {"start", "end", "ambiguous", "near", "transition"}, NEW t \in Nat
    PROVE  /\ Slides!Note(kind, t, l) \in NoteSet /\ Slides!Note(kind, t, l).at = t
           /\ Slides!Note(kind, t, l).kind = kind
BY DEF Slides!Note, NoteSet

\* One sample takes a second.
LEMMA NowPasses ==
    ASSUME frame \in Nat
    PROVE  /\ Slides!Now \in Nat
           /\ frame' = frame + 1 => Slides!Now' \in Nat /\ Slides!Now <= Slides!Now'
BY DEF Slides!Now, Slides!Second

\* A sample of another layout: a boundary dated back is still the latest note.
LEMMA OtherNoted ==
    ASSUME Scanned, NEW l \in Layouts \cup {NoSlide}, Slides!OtherLayout(l)
    PROVE  Scanned'
<1> DEFINE open == Side(active)
           on   == Slides!Onset(l)
           ends == notes \o (IF Slides!Shown(active) THEN <<Slides!Note("end", on, active)>> ELSE <<>>)
           all  == ends \o (IF Slides!Shown(l) THEN <<Slides!Note("start", on, l)>> ELSE <<>>)
<1>0. l # None /\ active # None /\ frame' = frame + 1
  BY ServicesAssumption DEF Slides!OtherLayout, Slides!Sample
<1>1. Slides!Now \in Nat /\ Slides!Now' \in Nat /\ Slides!Now <= Slides!Now' /\ frame' \in Nat
  BY <1>0, NowPasses DEF Scanned
<1>2. on \in Nat /\ on <= Slides!Now /\ Noted(notes, open, on)
  BY <1>0, <1>1 DEF Scanned, Slides!Onset
<1>3. open \in Slides!Boundaries /\ Side(l) \in Slides!Boundaries
  BY DEF Side, Slides!Boundaries
<1> HIDE DEF on
<1>4. Noted(ends, "end", on)
  <2>1. CASE Slides!Shown(active)
    <3>1. active \in Layouts
      BY <2>1 DEF Slides!Shown
    <3> DEFINE n == Slides!Note("end", on, active)
    <3>2. n \in NoteSet /\ n.kind = "end" /\ n.at = on
      BY <1>2, <3>1, NewNote
    <3>3. notes \in Seq(NoteSet)
      BY <1>2 DEF Noted
    <3> HIDE DEF n
    <3>4. ends = Append(notes, n)
      BY <2>1, <3>2, <3>3 DEF n
    <3>5. Noted(notes, "start", on)
      BY <1>2, <2>1 DEF Side
    <3>6. Noted(Append(notes, n), n.kind, n.at)
      BY <1>2, <3>2, <3>5, NoteBoundary DEF Slides!Boundaries
    <3> QED
      BY <3>2, <3>4, <3>6
  <2>2. CASE ~Slides!Shown(active)
    <3>1. notes \in Seq(NoteSet)
      BY <1>2 DEF Noted
    <3>2. ends = notes
      BY <2>2, <3>1
    <3> QED
      BY <1>2, <2>2, <3>2 DEF Side
  <2> QED
    BY <2>1, <2>2
<1>5. Noted(all, Side(l), on)
  <2> HIDE DEF ends
  <2>1. CASE Slides!Shown(l)
    <3>1. l \in Layouts
      BY <2>1 DEF Slides!Shown
    <3> DEFINE n == Slides!Note("start", on, l)
    <3>2. n \in NoteSet /\ n.kind = "start" /\ n.at = on
      BY <1>2, <3>1, NewNote
    <3>3. ends \in Seq(NoteSet)
      BY <1>4 DEF Noted
    <3> HIDE DEF n
    <3>4. all = Append(ends, n)
      BY <2>1, <3>2, <3>3 DEF n
    <3>5. Noted(Append(ends, n), n.kind, n.at)
      BY <1>2, <1>4, <3>2, NoteBoundary DEF Slides!Boundaries
    <3> QED
      BY <2>1, <3>2, <3>4, <3>5 DEF Side
  <2>2. CASE ~Slides!Shown(l)
    <3>1. ends \in Seq(NoteSet)
      BY <1>4 DEF Noted
    <3>2. all = ends
      BY <2>2, <3>1
    <3> QED
      BY <1>4, <2>2, <3>2 DEF Side
  <2> QED
    BY <2>1, <2>2
<1>6. on <= Slides!Now'
  BY <1>1, <1>2
<1>7. CASE Slides!Seen(l) >= Debounce
  <2>1. active' = l /\ notes' = all /\ pending' = None
    BY <1>7 DEF Slides!OtherLayout, on
  <2>2. Side(active)' = Side(l)
    BY <2>1 DEF Side, Slides!Shown
  <2> HIDE DEF all
  <2>3. Noted(notes', Side(active)', Slides!Now')
    BY <1>1, <1>2, <1>3, <1>5, <1>6, <2>1, <2>2, NotedLater
  <2> QED
    BY <1>0, <1>1, <2>1, <2>3 DEF Scanned
<1>8. CASE ~(Slides!Seen(l) >= Debounce)
  <2>1. active' = active /\ notes' = notes /\ pending' = l /\ since' = on
    BY <1>8 DEF Slides!OtherLayout, on
  <2>2. Side(active)' = open
    BY <2>1 DEF Side, Slides!Shown
  <2>3. Noted(notes', Side(active)', Slides!Now')
    BY <1>1, <1>2, <1>3, <1>6, <2>1, <2>2, NotedLater
  <2>4. since' \in Nat /\ since' <= Slides!Now' /\ Noted(notes', Side(active)', since')
    BY <1>2, <1>6, <2>1, <2>2
  <2> QED
    BY <1>0, <1>1, <2>1, <2>3, <2>4 DEF Scanned
<1> QED
  BY <1>7, <1>8

\* The first sample opens a segment if it shows a slide.
LEMMA FirstNoted ==
    ASSUME Scanned, NEW l \in Layouts \cup {NoSlide}, Slides!FirstSample(l)
    PROVE  Scanned'
<1>0. /\ active = None /\ notes = <<>> /\ pending' = None /\ active' = l /\ l # None /\ frame' = frame + 1
      /\ ~Slides!Shown(active)
  BY ServicesAssumption DEF Scanned, Slides!FirstSample, Slides!Sample, Slides!Shown
<1>1. Slides!Now \in Nat /\ Slides!Now' \in Nat /\ Slides!Now <= Slides!Now' /\ frame' \in Nat
  BY <1>0, NowPasses DEF Scanned
<1>2. Noted(notes, "end", Slides!Now)
  BY <1>0 DEF Scanned, Side
<1>3. Noted(notes', Side(l), Slides!Now)
  <2>1. CASE Slides!Shown(l)
    <3> DEFINE n == Slides!Note("start", Slides!Now, l)
    <3>1. n \in NoteSet /\ n.kind = "start" /\ n.at = Slides!Now
      BY <1>1, <2>1, NewNote DEF Slides!Shown
    <3>2. notes' = <<n>>
      BY <2>1 DEF Slides!FirstSample
    <3> HIDE DEF n
    <3>3. <<n>> = Append(notes, n)
      BY <1>0
    <3>4. Noted(Append(notes, n), n.kind, n.at)
      BY <1>1, <1>2, <3>1, NoteBoundary DEF Slides!Boundaries
    <3> QED
      BY <2>1, <3>1, <3>2, <3>3, <3>4 DEF Side
  <2>2. CASE ~Slides!Shown(l)
    BY <1>0, <1>2, <2>2 DEF Slides!FirstSample, Side
  <2> QED
    BY <2>1, <2>2
<1>4. Side(active)' = Side(l) /\ Side(l) \in Slides!Boundaries
  BY <1>0 DEF Side, Slides!Shown, Slides!Boundaries
<1>5. Noted(notes', Side(active)', Slides!Now')
  BY <1>1, <1>3, <1>4, NotedLater
<1> QED
  BY <1>0, <1>1, <1>5 DEF Scanned

\* A sample of the same layout notes what has changed at its own time.
LEMMA SameNoted ==
    ASSUME Scanned, NEW l \in Layouts \cup {NoSlide}, NEW look \in Slides!Looks, Slides!SameLayout(l, look)
    PROVE  Scanned'
<1>0. active = l /\ l # None /\ pending' = None /\ active' = active /\ frame' = frame + 1
  BY ServicesAssumption DEF Slides!SameLayout, Slides!Sample
<1>1. Slides!Now \in Nat /\ Slides!Now' \in Nat /\ Slides!Now <= Slides!Now' /\ frame' \in Nat
  BY <1>0, NowPasses DEF Scanned
<1>2. Noted(notes, Side(l), Slides!Now) /\ Side(l) \in Slides!Boundaries
  BY <1>0 DEF Scanned, Side, Slides!Boundaries
<1>3. Noted(notes', Side(l), Slides!Now)
  <2>1. CASE Slides!Shown(l) /\ look # "same"
    <3> DEFINE n == Slides!Note(look, Slides!Now, l)
    <3>1. n \in NoteSet /\ n.kind = look /\ n.at = Slides!Now
      BY <1>1, <2>1, NewNote DEF Slides!Shown, Slides!Looks
    <3>2. notes' = Append(notes, n)
      BY <2>1 DEF Slides!SameLayout
    <3> HIDE DEF n
    <3>3. ~Bounds(n)
      BY <3>1 DEF Bounds, Slides!Boundaries, Slides!Looks
    <3>4. Noted(Append(notes, n), Side(l), n.at)
      BY <1>1, <1>2, <3>1, <3>3, NoteInside
    <3> QED
      BY <3>1, <3>2, <3>4
  <2>2. CASE ~(Slides!Shown(l) /\ look # "same")
    BY <1>2, <2>2 DEF Slides!SameLayout
  <2> QED
    BY <2>1, <2>2
<1>4. Side(active)' = Side(l)
  BY <1>0 DEF Side, Slides!Shown
<1>5. Noted(notes', Side(active)', Slides!Now')
  BY <1>1, <1>2, <1>3, <1>4, NotedLater
<1> QED
  BY <1>0, <1>1, <1>5 DEF Scanned

---------------------------------------------------------------------------------
(* SlideDetection: the labels *)

\* What the classification leaves of the notes, whatever it answers: the labels of
\* some of them, none of which was asked about in vain.
Labelled ==
    phase \notin {"scan", "cancelled"} =>
        /\ DOMAIN asked = DOMAIN notes
        /\ \A i \in DOMAIN notes : asked[i] # "no" => notes[i].kind = "ambiguous"
        /\ classifier # "none" =>
             /\ \A i \in DOMAIN notes :
                  /\ notes[i].kind = "near" => notes[i].label = "incremental"
                  /\ (notes[i].kind = "ambiguous" /\ asked[i] = "answered") => notes[i].label \in Slides!Labels
             /\ phase \in {"group", "capture", "persist", "stored", "completed", "failed"} =>
                  \A i \in Slides!ToClassify : asked[i] = "answered"

\* Notes given labels are in the order they were.
LEMMA LabelsKeepOrder ==
    ASSUME Scanned, UNCHANGED Slides!scanning, DOMAIN notes' = DOMAIN notes,
           \A i \in DOMAIN notes : notes'[i] = notes[i]
              \/ \E x \in Slides!Labels : notes'[i] = [notes[i] EXCEPT !.label = x],
           notes' = [i \in DOMAIN notes |-> notes'[i]]
    PROVE  Scanned'
<1>1. /\ UNCHANGED <<frame, active, pending, since>> /\ Slides!Now' = Slides!Now /\ Side(active)' = Side(active)
      /\ Side(active) \in Slides!Boundaries /\ Slides!Now \in Nat
  BY NowPasses DEF Slides!scanning, Slides!Now, Side, Slides!Shown, Slides!Boundaries, Scanned
<1>2. notes \in Seq(NoteSet) /\ DOMAIN notes = 1..Len(notes) /\ Len(notes) \in Nat
  BY DEF Scanned, Noted
<1>3. ASSUME NEW i \in DOMAIN notes
      PROVE  notes'[i] \in NoteSet /\ notes'[i].kind = notes[i].kind /\ notes'[i].at = notes[i].at
  <2>1. notes[i] \in NoteSet
    BY <1>2
  <2>2. CASE notes'[i] = notes[i]
    BY <2>1, <2>2
  <2>3. ASSUME NEW x \in Slides!Labels, notes'[i] = [notes[i] EXCEPT !.label = x]
        PROVE  notes'[i] \in NoteSet /\ notes'[i].kind = notes[i].kind /\ notes'[i].at = notes[i].at
    BY <2>1, <2>3 DEF NoteSet
  <2> QED
    BY <2>2, <2>3
<1>4. notes' \in Seq(NoteSet)
  <2>1. notes' \in [1..Len(notes) -> NoteSet]
    BY <1>2, <1>3
  <2> QED
    BY <1>2, <2>1, SeqDef
<1>5. \A t \in Nat : Noted(notes, Side(active), t) => Noted(notes', Side(active), t)
  BY <1>1, <1>3, <1>4, NotedLabelled
<1>6. active = None => notes' = <<>>
  BY <1>2, <1>4 DEF Scanned
<1> QED
  BY <1>1, <1>5, <1>6 DEF Scanned

SlideInv == Scanned /\ Labelled

\* At the end of the scan the evident builds are labelled, nothing has been answered.
LEMMA EvidentLabelled ==
    ASSUME SlideInv, Slides!ScanEnds
    PROVE  SlideInv'
<1>1. /\ UNCHANGED <<classifier, Slides!scanning>> /\ phase' # "scan" /\ phase = "scan"
      /\ notes' = IF classifier = "none" THEN notes ELSE Slides!FastPath
      /\ phase' = IF classifier = "none" THEN "group" ELSE "classify"
      /\ asked' = [i \in DOMAIN notes |->
                    IF classifier = "sequential" /\ i \in Slides!ToClassify THEN "again" ELSE "no"]
  BY DEF Slides!ScanEnds
<1>2. notes \in Seq(NoteSet) /\ \A i \in DOMAIN notes : notes[i] \in NoteSet
  BY DEF SlideInv, Scanned, Noted
<1>3. CASE classifier = "none"
  <2>1. Scanned'
    BY <1>1, <1>3 DEF SlideInv, Scanned, Slides!scanning, Slides!Now, Side, Slides!Shown
  <2>2. \A i \in DOMAIN notes' : asked'[i] = "no"
    BY <1>1, <1>3
  <2> QED
    BY <1>1, <1>3, <2>1, <2>2 DEF SlideInv, Labelled
<1>4. CASE classifier # "none"
  <2>1. notes' = [i \in DOMAIN notes |->
                    IF notes[i].kind = "near" THEN [notes[i] EXCEPT !.label = "incremental"] ELSE notes[i]]
    BY <1>1, <1>4 DEF Slides!FastPath
  <2>2. DOMAIN notes' = DOMAIN notes /\ notes' = [i \in DOMAIN notes |-> notes'[i]]
    BY <2>1
  <2>3. \A i \in DOMAIN notes : notes'[i] = notes[i]
              \/ \E x \in Slides!Labels : notes'[i] = [notes[i] EXCEPT !.label = x]
    BY <2>1 DEF Slides!Labels
  <2>4. Scanned'
    BY <1>1, <2>2, <2>3, LabelsKeepOrder DEF SlideInv
  <2>5. \A i \in DOMAIN notes : notes'[i].kind = notes[i].kind /\ (notes[i].kind = "near" => notes'[i].label = "incremental")
    BY <1>2, <2>1 DEF NoteSet
  <2>6. /\ DOMAIN asked' = DOMAIN notes
        /\ \A i \in DOMAIN notes : asked'[i] # "answered"
        /\ \A i \in DOMAIN notes : asked'[i] # "no" => notes[i].kind = "ambiguous"
    BY <1>1 DEF Slides!ToClassify
  <2>7. phase' = "classify"
    BY <1>1, <1>4
  <2> QED
    BY <2>2, <2>4, <2>5, <2>6, <2>7 DEF SlideInv, Labelled
<1> QED
  BY <1>3, <1>4

\* A set of notes labelled, and asked about accordingly.
LEMMA SomeLabelled ==
    ASSUME SlideInv, NEW S, NEW label \in [S -> Slides!Labels], S \subseteq Slides!ToClassify,
           Slides!Label(S, label), phase = "classify", UNCHANGED <<phase, classifier, Slides!scanning>>,
           DOMAIN asked' = DOMAIN asked,
           \A i \in DOMAIN asked : /\ (asked'[i] = "answered" /\ asked[i] # "answered") => i \in S
                                   /\ asked'[i] # "no" => i \in Slides!ToClassify
    PROVE  SlideInv'
<1>1. notes' = [i \in DOMAIN notes |-> IF i \in S THEN [notes[i] EXCEPT !.label = label[i]] ELSE notes[i]]
  BY DEF Slides!Label
<1>2. notes \in Seq(NoteSet) /\ \A i \in DOMAIN notes : notes[i] \in NoteSet
  BY DEF SlideInv, Scanned, Noted
<1>3. DOMAIN notes' = DOMAIN notes /\ notes' = [i \in DOMAIN notes |-> notes'[i]]
  BY <1>1
<1>4. \A i \in DOMAIN notes : notes'[i] = notes[i]
              \/ \E x \in Slides!Labels : notes'[i] = [notes[i] EXCEPT !.label = x]
  BY <1>1
<1>5. Scanned'
  BY <1>3, <1>4, LabelsKeepOrder DEF SlideInv
<1>6. \A i \in S : i \in DOMAIN notes /\ notes[i].kind = "ambiguous"
  BY DEF Slides!ToClassify
<1>7. \A i \in DOMAIN notes : /\ notes'[i].kind = notes[i].kind
                              /\ i \notin S => notes'[i].label = notes[i].label
                              /\ i \in S => notes'[i].label \in Slides!Labels
  BY <1>1, <1>2 DEF NoteSet
<1>8. Labelled'
  <2>1. DOMAIN asked = DOMAIN notes /\ DOMAIN asked' = DOMAIN notes'
    BY <1>3 DEF SlideInv, Labelled
  <2>4. \A i \in DOMAIN notes' : asked'[i] # "no" => notes'[i].kind = "ambiguous"
    BY <1>3, <1>7, <2>1 DEF Slides!ToClassify
  <2> SUFFICES ASSUME classifier # "none" PROVE
        \A i \in DOMAIN notes' :
             /\ notes'[i].kind = "near" => notes'[i].label = "incremental"
             /\ (notes'[i].kind = "ambiguous" /\ asked'[i] = "answered") => notes'[i].label \in Slides!Labels
    BY <2>1, <2>4 DEF Labelled
  <2>2. ASSUME NEW i \in DOMAIN notes, notes'[i].kind = "near" PROVE notes'[i].label = "incremental"
    BY <1>6, <1>7, <2>2 DEF SlideInv, Labelled
  <2>3. ASSUME NEW i \in DOMAIN notes, notes'[i].kind = "ambiguous", asked'[i] = "answered"
        PROVE  notes'[i].label \in Slides!Labels
    BY <1>7, <2>1, <2>3 DEF SlideInv, Labelled
  <2> QED
    BY <1>3, <2>1, <2>2, <2>3
<1> QED
  BY <1>5, <1>8 DEF SlideInv

\* The step leaves the notes as they are.
LEMMA NotesKept ==
    ASSUME SlideInv, UNCHANGED <<classifier, Slides!scanning, notes>>, phase \notin {"scan", "cancelled"},
           DOMAIN asked' = DOMAIN asked,
           \A i \in DOMAIN asked : /\ asked'[i] = "answered" <=> asked[i] = "answered"
                                   /\ (asked'[i] # "no" /\ asked[i] = "no") => i \in Slides!ToClassify,
           phase' \in {"group", "capture", "persist", "stored", "completed", "failed"} =>
             \/ phase \in {"group", "capture", "persist", "stored", "completed", "failed"}
             \/ \A i \in Slides!ToClassify : asked[i] = "answered"
    PROVE  SlideInv'
<1>1. Scanned'
  BY DEF SlideInv, Scanned, Slides!scanning, Slides!Now, Side, Slides!Shown
<1>2. Slides!ToClassify' = Slides!ToClassify /\ Slides!ToClassify \subseteq DOMAIN notes
  BY DEF Slides!ToClassify
<1> QED
  BY <1>1, <1>2 DEF SlideInv, Labelled, Slides!ToClassify

\* Every step keeps the notes in order and what has been answered labelled.
LEMMA SlideInvKept == SlideInv /\ [Slides!Next]_(Slides!vars) => SlideInv'
<1> SUFFICES ASSUME SlideInv, [Slides!Next]_(Slides!vars) PROVE SlideInv'
  OBVIOUS
<1>1. ASSUME UNCHANGED <<phase, classifier, Slides!scanning, notes, asked>> PROVE SlideInv'
  <2>1. Scanned'
    BY <1>1 DEF SlideInv, Scanned, Slides!scanning, Slides!Now, Side, Slides!Shown
  <2> QED
    BY <1>1, <2>1 DEF SlideInv, Labelled, Slides!ToClassify
<1>2. CASE UNCHANGED Slides!vars
  BY <1>1, <1>2 DEF Slides!vars
<1>3. CASE Slides!Scan
  <2>1. Scanned'
    BY <1>3, FirstNoted, OtherNoted, SameNoted DEF Slides!Scan, SlideInv
  <2>2. phase' = phase /\ phase = "scan"
    BY <1>3 DEF Slides!Scan, Slides!FirstSample, Slides!OtherLayout, Slides!SameLayout, Slides!Sample
  <2> QED
    BY <2>1, <2>2 DEF SlideInv, Labelled
<1>4. CASE Slides!ScanEnds
  BY <1>4, EvidentLabelled
<1>5. ASSUME NEW b \in 0..Samples, Slides!AskBatch(b) PROVE SlideInv'
  <2>1. /\ phase = "classify" /\ UNCHANGED <<phase, classifier, Slides!scanning, notes>>
        /\ asked' = [i \in DOMAIN asked |-> IF i \in Slides!Batch(b) THEN "batch" ELSE asked[i]]
        /\ \A i \in Slides!Batch(b) : asked[i] = "no"
    BY <1>5 DEF Slides!AskBatch, Slides!Begun
  <2>2. /\ DOMAIN asked' = DOMAIN asked
        /\ \A i \in DOMAIN asked : /\ asked'[i] = "answered" <=> asked[i] = "answered"
                                   /\ (asked'[i] # "no" /\ asked[i] = "no") => i \in Slides!ToClassify
    BY <2>1 DEF Slides!Batch
  <2> QED
    BY <2>1, <2>2, NotesKept
<1>6. ASSUME NEW b \in 0..Samples, Slides!AnswerBatch(b) PROVE SlideInv'
  <2>0. PICK S \in SUBSET Slides!Batch(b) :
          /\ \E label \in [S -> Slides!Labels] : Slides!Label(S, label)
          /\ asked' = [i \in DOMAIN asked |->
                        IF i \in S THEN "answered" ELSE IF i \in Slides!Batch(b) THEN "again" ELSE asked[i]]
    BY <1>6 DEF Slides!AnswerBatch
  <2>1. PICK label \in [S -> Slides!Labels] : Slides!Label(S, label)
    BY <2>0
  <2>2. phase = "classify" /\ UNCHANGED <<phase, classifier, Slides!scanning>>
    BY <1>6 DEF Slides!AnswerBatch
  <2>3. S \subseteq Slides!ToClassify
    BY DEF Slides!Batch
  <2>5. \A i \in DOMAIN asked : asked[i] # "no" => i \in Slides!ToClassify
    BY <2>2 DEF SlideInv, Labelled, Slides!ToClassify
  <2>4. /\ DOMAIN asked' = DOMAIN asked
        /\ \A i \in DOMAIN asked : /\ (asked'[i] = "answered" /\ asked[i] # "answered") => i \in S
                                   /\ asked'[i] # "no" => i \in Slides!ToClassify
    BY <2>0, <2>3, <2>5 DEF Slides!Batch
  <2> QED
    BY <2>1, <2>2, <2>3, <2>4, SomeLabelled
<1>7. ASSUME NEW i \in DOMAIN notes, Slides!AskAgain(i) PROVE SlideInv'
  <2>1. PICK x \in Slides!Labels : Slides!Label({i}, [j \in {i} |-> x])
    BY <1>7 DEF Slides!AskAgain
  <2>2. phase = "classify" /\ UNCHANGED <<phase, classifier, Slides!scanning>> /\ asked[i] = "again"
        /\ asked' = [asked EXCEPT ![i] = "answered"]
    BY <1>7 DEF Slides!AskAgain
  <2>3. [j \in {i} |-> x] \in [{i} -> Slides!Labels]
    OBVIOUS
  <2>5. \A j \in DOMAIN asked : asked[j] # "no" => j \in Slides!ToClassify
    BY <2>2 DEF SlideInv, Labelled, Slides!ToClassify
  <2>6. i \in DOMAIN asked
    BY <2>2 DEF SlideInv, Labelled
  <2>4. /\ DOMAIN asked' = DOMAIN asked
        /\ \A j \in DOMAIN asked : /\ (asked'[j] = "answered" /\ asked[j] # "answered") => j \in {i}
                                   /\ asked'[j] # "no" => j \in Slides!ToClassify
    BY <2>2, <2>5
  <2> QED
    BY <2>1, <2>2, <2>3, <2>4, <2>5, <2>6, SomeLabelled
<1>8. CASE Slides!Classified
  BY <1>8, NotesKept DEF Slides!Classified
<1>9. CASE Slides!Group \/ Slides!Capture \/ Slides!Persist \/ Slides!Finish \/ Slides!Redeliver
  BY <1>9, NotesKept DEF Slides!Group, Slides!Capture, Slides!Persist, Slides!Finish, Slides!Redeliver
<1>10. CASE Slides!Cancel
  BY <1>1, <1>10 DEF Slides!Cancel
<1>11. CASE Slides!Cancelled
  <2>1. phase' = "cancelled" /\ UNCHANGED <<classifier, Slides!scanning, notes, asked>>
    BY <1>11 DEF Slides!Cancelled
  <2>2. Scanned'
    BY <2>1 DEF SlideInv, Scanned, Slides!scanning, Slides!Now, Side, Slides!Shown
  <2> QED
    BY <2>1, <2>2 DEF SlideInv, Labelled
<1> QED
  BY <1>2, <1>3, <1>4, <1>5, <1>6, <1>7, <1>8, <1>9, <1>10, <1>11 DEF Slides!Next, Slides!Classify

\* Notes in good order are so by the next boundary too.
LEMMA NotedInOrder ==
    ASSUME NEW last, NEW t, Noted(notes, last, t)
    PROVE  Slides!InOrder
<1> SUFFICES ASSUME NEW i \in DOMAIN notes, NEW j \in DOMAIN notes, i < j
             PROVE  /\ notes[i].at <= notes[j].at
                    /\ notes[i].kind \in Slides!Boundaries /\ j = Slides!NextBoundary(i) =>
                         (notes[i].kind = "start") = (notes[j].kind = "end")
  BY DEF Slides!InOrder
<1>1. notes[i].at <= notes[j].at
  BY DEF Noted, Ascending
<1>2. ASSUME notes[i].kind \in Slides!Boundaries, j = Slides!NextBoundary(i)
      PROVE  (notes[i].kind = "start") = (notes[j].kind = "end")
  <2> DEFINE later == {k \in DOMAIN notes : k > i /\ notes[k].kind \in Slides!Boundaries}
  <2>1. DOMAIN notes = 1..Len(notes) /\ Len(notes) \in Nat
    BY DEF Noted
  <2>2. later # {}
    BY <1>2, <2>1 DEF Slides!NextBoundary
  <2>3. later \in SUBSET Nat
    BY <2>1
  <2>4. \E k \in later : \A m \in later : k <= m
    BY <2>2, <2>3, LeastNat
  <2>5. j \in later /\ \A k \in later : j <= k
    BY <1>2, <2>2, <2>4 DEF Slides!NextBoundary
  <2>6. \A k \in DOMAIN notes : (i < k /\ k < j) => ~Bounds(notes[k])
    BY <2>1, <2>5 DEF Bounds
  <2> QED
    BY <1>2, <2>5, <2>6 DEF Noted, Alternating, Bounds
<1> QED
  BY <1>1, <1>2

\* The invariant is about both properties of the notes.
LEMMA SlidesHold == SlideInv => Slides!InOrder /\ Slides!AllLabelled
<1>1. SlideInv => Slides!InOrder
  BY NotedInOrder DEF SlideInv, Scanned
<1>2. SlideInv => Slides!AllLabelled
  BY DEF SlideInv, Labelled, Slides!AllLabelled, Slides!Ambiguous, Slides!ToClassify, Slides!Labels
<1> QED
  BY <1>1, <1>2

\* It holds of the part of the slides.
LEMMA SlideInvHolds == Spec => [](part = "slides" => SlideInv)
<1>1. Init /\ part = "slides" => SlideInv
  <2> SUFFICES ASSUME Slides!Init PROVE SlideInv
    BY DEF Init
  <2>1. frame = 0 /\ active = None /\ pending = None /\ notes = <<>> /\ phase = "scan"
    BY DEF Slides!Init
  <2>2. Noted(notes, Side(active), Slides!Now)
    BY <2>1 DEF Noted, Ascending, Alternating
  <2> QED
    BY <2>1, <2>2 DEF SlideInv, Scanned, Labelled
<1>2. part = "slides" /\ [Next]_vars => (part = "slides")' /\ [Slides!Next]_(Slides!vars)
  BY DEF Next, vars, slideVars, Slides!vars, Slides!scanning
<1>3. ~(part = "slides") /\ [Next]_vars => ~(part = "slides")'
  BY DEF Next, vars
<1> QED
  BY <1>1, <1>2, <1>3, SlideInvKept, PTL DEF Spec

\* However late a boundary is confirmed, the notes are in the order of their times, and
\* boundaries alternate.
THEOREM NotesInOrder == Spec => []InOrder
BY SlideInvHolds, SlidesHold, PTL DEF InOrder

\* Whatever the answers leave out, no ambiguous note is unlabelled when the grouping begins.
THEOREM EveryNoteLabelled == Spec => []AllLabelled
BY SlideInvHolds, SlidesHold, PTL DEF AllLabelled

---------------------------------------------------------------------------------
(* SlideDetection: the slides *)

\* The notes as the grouping finds them: in the order of their times, and no two
\* transitions at the same.
Timed ==
    /\ notes \in Seq(NoteSet) /\ Ascending(notes) /\ duration \in Nat
    /\ \A i, j \in DOMAIN notes : (i < j /\ ~Bounds(notes[i]) /\ ~Bounds(notes[j])) => notes[i].at < notes[j].at

\* The notes by their places.
LEMMA NotePlaces ==
    ASSUME Timed
    PROVE  /\ Len(notes) \in Nat /\ DOMAIN notes = 1..Len(notes)
           /\ \A i \in DOMAIN notes : notes[i].at \in Nat /\ Slides!Clamp(notes[i].at) \in Nat
                 /\ Slides!Clamp(notes[i].at) <= notes[i].at /\ Slides!Clamp(notes[i].at) <= duration
           /\ \A i, j \in DOMAIN notes : i <= j => notes[i].at <= notes[j].at
<1>1. Len(notes) \in Nat /\ DOMAIN notes = 1..Len(notes) /\ \A i \in DOMAIN notes : notes[i] \in NoteSet
  BY DEF Timed
<1>2. \A i \in DOMAIN notes : notes[i].at \in Nat
  BY <1>1 DEF NoteSet
<1>3. \A i \in DOMAIN notes : Slides!Clamp(notes[i].at) \in Nat
         /\ Slides!Clamp(notes[i].at) <= notes[i].at /\ Slides!Clamp(notes[i].at) <= duration
  BY <1>2 DEF Timed, Slides!Clamp
<1>4. \A i, j \in DOMAIN notes : i <= j => notes[i].at <= notes[j].at
  <2> SUFFICES ASSUME NEW i \in DOMAIN notes, NEW j \in DOMAIN notes, i <= j PROVE notes[i].at <= notes[j].at
    OBVIOUS
  <2>1. CASE i = j
    BY <1>2, <2>1
  <2>2. CASE i < j
    BY <2>2 DEF Timed, Ascending
  <2> QED
    BY <1>1, <2>1, <2>2
<1> QED
  BY <1>1, <1>2, <1>3, <1>4

\* The boundary after a note is the first there is, or the end of the notes.
LEMMA NextBoundaryIs ==
    ASSUME Timed, NEW i \in DOMAIN notes
    PROVE  /\ Slides!NextBoundary(i) \in (i + 1)..(Len(notes) + 1)
           /\ Slides!NextBoundary(i) <= Len(notes) => Slides!NextBoundary(i) \in DOMAIN notes
           /\ \A j \in DOMAIN notes : (i < j /\ Bounds(notes[j])) => Slides!NextBoundary(i) <= j
           /\ \A j \in Slides!Within(i) : j \in DOMAIN notes /\ ~Bounds(notes[j])
<1> DEFINE later == {j \in DOMAIN notes : j > i /\ notes[j].kind \in Slides!Boundaries}
<1>1. Len(notes) \in Nat /\ DOMAIN notes = 1..Len(notes)
  BY NotePlaces
<1>2. later \in SUBSET Nat
  BY <1>1
<1>3. \A j \in DOMAIN notes : (i < j /\ Bounds(notes[j])) <=> j \in later
  BY <1>1 DEF Bounds
<1>4. CASE later = {}
  <2>1. Slides!NextBoundary(i) = Len(notes) + 1
    BY <1>4 DEF Slides!NextBoundary
  <2>2. \A j \in Slides!Within(i) : j \in DOMAIN notes /\ ~Bounds(notes[j])
    BY <1>3, <1>4 DEF Slides!Within
  <2> HIDE DEF later
  <2> QED
    BY <1>1, <1>3, <1>4, <2>1, <2>2
<1>5. CASE later # {}
  <2>1. \E j \in later : \A k \in later : j <= k
    BY <1>2, <1>5, LeastNat
  <2>2. Slides!NextBoundary(i) \in later /\ \A k \in later : Slides!NextBoundary(i) <= k
    BY <1>5, <2>1 DEF Slides!NextBoundary
  <2>3. Slides!NextBoundary(i) \in DOMAIN notes /\ Slides!NextBoundary(i) > i
    BY <2>2
  <2> HIDE DEF later
  <2>4. \A j \in Slides!Within(i) : j \in DOMAIN notes /\ ~Bounds(notes[j])
    BY <1>1, <1>3, <2>2, <2>3 DEF Slides!Within
  <2> QED
    BY <1>1, <1>3, <2>2, <2>3, <2>4
<1> QED
  BY <1>4, <1>5

\* When the slide in progress has started: at the segment's start or at a note of it.
LEMMA StartsBounded ==
    ASSUME Timed, MinDuration \in Int, NEW i \in DOMAIN notes
    PROVE  /\ Slides!Starts(i) \in SUBSET Nat /\ IsFiniteSet(Slides!Starts(i))
           /\ Slides!Clamp(notes[i].at) \in Slides!Starts(i)
           /\ \A u \in Slides!Starts(i) :
                /\ Slides!Clamp(notes[i].at) <= u
                /\ Slides!NextBoundary(i) <= Len(notes) => u <= notes[Slides!NextBoundary(i)].at
<1> DEFINE b == Slides!NextBoundary(i) - 1
           x == Slides!Clamp(notes[i].at)
           Def(f) == f = [j \in i..(Slides!NextBoundary(i) - 1) |->
                            IF j = i THEN Slides!Clamp(notes[i].at)
                            ELSE IF Slides!Incremental(j) \/ notes[j].at - f[j - 1] < MinDuration THEN f[j - 1]
                            ELSE notes[j].at]
           last == CHOOSE f : Def(f)
<1>1. /\ Len(notes) \in Nat /\ DOMAIN notes = 1..Len(notes) /\ x \in Nat /\ i \in Int /\ b \in Int /\ i <= b
      /\ i..b \subseteq DOMAIN notes
      /\ \A j \in i..b : notes[j].at \in Nat
      /\ x <= notes[i].at
  BY NotePlaces, NextBoundaryIs
<1>2. \A j, k \in i..b : j <= k => notes[j].at <= notes[k].at
  BY <1>1, NotePlaces
<1> DEFINE S == [j \in i..b |-> [q \in Nat |->
                   IF Slides!Incremental(j) \/ notes[j].at - q < MinDuration THEN q ELSE notes[j].at]]
<1>3. S \in [i..b -> [Nat -> Nat]] /\ \A j \in i..b, q \in Nat :
         S[j][q] = IF Slides!Incremental(j) \/ notes[j].at - q < MinDuration THEN q ELSE notes[j].at
  <2>1. ASSUME NEW j \in i..b, NEW q \in Nat
        PROVE  (IF Slides!Incremental(j) \/ notes[j].at - q < MinDuration THEN q ELSE notes[j].at) \in Nat
    BY <1>1
  <2> HIDE DEF b
  <2> QED
    BY <2>1
<1> HIDE DEF S, b, x
<1>4. PICK g : Unfolds(g, i, b, Nat, x, S)
  BY <1>1, <1>3, RecursionUpTo
<1>5. g \in [i..b -> Nat] /\ \A j \in i..b : g[j] = IF j = i THEN x ELSE S[j][g[j - 1]]
  BY <1>4 DEF Unfolds
<1>6. \A j \in i..b : j # i => j - 1 \in i..b
  BY <1>1
<1>7. \A j \in i..b : g[j] = IF j = i THEN x
                            ELSE IF Slides!Incremental(j) \/ notes[j].at - g[j - 1] < MinDuration THEN g[j - 1]
                            ELSE notes[j].at
  BY <1>3, <1>5, <1>6
<1>8. Def(g)
  BY <1>5, <1>7 DEF b, x
<1>9. Slides!LastStart(i) = last
  BY DEF Slides!LastStart
<1> HIDE DEF Def
<1>10. Def(last)
  BY <1>8
<1> HIDE DEF last
<1>11. /\ DOMAIN last = i..b
       /\ \A j \in i..b : last[j] = IF j = i THEN x
                            ELSE IF Slides!Incremental(j) \/ notes[j].at - last[j - 1] < MinDuration THEN last[j - 1]
                            ELSE notes[j].at
  BY <1>10 DEF Def, b, x
<1>12. \A j \in i..b : last[j] \in Nat /\ x <= last[j] /\ last[j] <= notes[j].at
  <2> DEFINE T == {j \in i..b : last[j] \in Nat /\ x <= last[j] /\ last[j] <= notes[j].at}
  <2>1. i \in T
    BY <1>1, <1>11
  <2>2. ASSUME NEW j \in i..b, j \in T, j + 1 \in i..b PROVE j + 1 \in T
    <3>1. (j + 1) - 1 = j /\ j + 1 # i /\ notes[j].at <= notes[j + 1].at /\ notes[j].at \in Nat /\ notes[j + 1].at \in Nat
      BY <1>1, <1>2, <2>2
    <3>2. last[j + 1] = last[j] \/ last[j + 1] = notes[j + 1].at
      BY <1>11, <2>2, <3>1
    <3>3. last[j] \in Nat /\ x <= last[j] /\ last[j] <= notes[j].at
      BY <2>2
    <3> QED
      BY <1>1, <2>2, <3>1, <3>2, <3>3
  <2> HIDE DEF T
  <2>3. \A j \in i..b : j \in T
    BY <1>1, <2>1, <2>2, Upwards
  <2> QED
    BY <2>3 DEF T
<1>13. {i} \cup Slides!Within(i) = i..b
  <2>1. Slides!NextBoundary(i) \in Int /\ i < Slides!NextBoundary(i) /\ b = Slides!NextBoundary(i) - 1
        /\ \A j \in i..b : j \in 1..Len(notes)
    BY <1>1, NextBoundaryIs DEF b
  <2>2. Slides!Within(i) = {j \in 1..Len(notes) : i < j /\ j < Slides!NextBoundary(i)}
    BY <1>1 DEF Slides!Within
  <2>3. ASSUME NEW j \in i..b PROVE j \in {i} \cup Slides!Within(i)
    <3>1. j \in Int /\ i <= j /\ j < Slides!NextBoundary(i)
      BY <1>1, <2>1
    <3> QED
      BY <1>1, <2>1, <2>2, <3>1
  <2>4. ASSUME NEW j \in {i} \cup Slides!Within(i) PROVE j \in i..b
    BY <1>1, <2>1, <2>2
  <2> QED
    BY <2>3, <2>4
<1>14. Slides!Starts(i) = {last[j] : j \in i..b}
  BY <1>9, <1>13 DEF Slides!Starts
<1>15. IsFiniteSet({last[j] : j \in i..b})
  <2> DEFINE h == [j \in i..b |-> last[j]]
  <2>1. h \in Surjection(i..b, {last[j] : j \in i..b})
    BY DEF Surjection
  <2>2. IsFiniteSet(i..b)
    BY <1>1, FS_Interval
  <2> QED
    BY <2>1, <2>2, FS_Surjection
<1>16. \A j \in i..b : Slides!NextBoundary(i) <= Len(notes) => notes[j].at <= notes[Slides!NextBoundary(i)].at
  BY <1>1, NotePlaces, NextBoundaryIs DEF b
<1>17. x \in {last[j] : j \in i..b}
  BY <1>1, <1>11
<1>18. Slides!NextBoundary(i) <= Len(notes) => notes[Slides!NextBoundary(i)].at \in Nat
  BY NextBoundaryIs, NotePlaces
<1> QED
  BY <1>1, <1>12, <1>14, <1>15, <1>16, <1>17, <1>18 DEF x

\* Where a segment ends; a later one begins no earlier than it ends, nor than any of
\* its slides starts.
LEMMA SegmentIs ==
    ASSUME Timed, MinDuration \in Int, NEW i \in Slides!Segments
    PROVE  /\ i \in DOMAIN notes /\ Slides!SegmentEnd(i) \in Nat /\ Slides!SegmentEnd(i) <= duration
           /\ Slides!Clamp(notes[i].at) < Slides!SegmentEnd(i)
           /\ \A u \in Slides!Starts(i) : u <= Slides!SegmentEnd(i) \/ Slides!SegmentEnd(i) = duration
           /\ \A j \in Slides!Segments : i < j =>
                /\ Slides!SegmentEnd(i) <= Slides!Clamp(notes[j].at)
                /\ \A u \in Slides!Starts(i) : u <= Slides!Clamp(notes[j].at)
<1> DEFINE n == Slides!NextBoundary(i)
<1>1. /\ i \in DOMAIN notes /\ Slides!Clamp(notes[i].at) < Slides!SegmentEnd(i) /\ duration \in Nat
      /\ Len(notes) \in Nat /\ n \in Int /\ DOMAIN notes = 1..Len(notes)
  BY NextBoundaryIs, NotePlaces DEF Slides!Segments, Timed
<1>2. Slides!SegmentEnd(i) = IF n > Len(notes) THEN duration ELSE Slides!Clamp(notes[n].at)
  BY DEF Slides!SegmentEnd
<1>3. n <= Len(notes) => n \in DOMAIN notes
  BY <1>1, NextBoundaryIs
<1>4. \A j \in DOMAIN notes : notes[j].at \in Nat /\ Slides!Clamp(notes[j].at) \in Nat
         /\ Slides!Clamp(notes[j].at) = IF notes[j].at < duration THEN notes[j].at ELSE duration
  BY NotePlaces DEF Slides!Clamp
<1>5. /\ Slides!Starts(i) \in SUBSET Nat
      /\ \A u \in Slides!Starts(i) : n <= Len(notes) => u <= notes[n].at
  BY <1>1, StartsBounded
<1>6. \A j \in Slides!Segments : j \in DOMAIN notes /\ Bounds(notes[j]) /\ notes[j].at < duration
  <2> SUFFICES ASSUME NEW j \in Slides!Segments PROVE j \in DOMAIN notes /\ Bounds(notes[j]) /\ notes[j].at < duration
    OBVIOUS
  <2>1. j \in DOMAIN notes /\ Bounds(notes[j]) /\ Slides!Clamp(notes[j].at) < Slides!SegmentEnd(j)
    BY DEF Slides!Segments, Bounds, Slides!Boundaries
  <2>2. Slides!NextBoundary(j) \in Int /\ (Slides!NextBoundary(j) <= Len(notes) => Slides!NextBoundary(j) \in DOMAIN notes)
    BY <2>1, NextBoundaryIs
  <2>3. Slides!SegmentEnd(j) \in Nat /\ Slides!SegmentEnd(j) <= duration
    BY <1>1, <1>4, <2>2 DEF Slides!SegmentEnd
  <2> QED
    BY <1>1, <1>4, <2>1, <2>3
<1>7. \A j \in Slides!Segments : i < j => n <= j /\ n \in DOMAIN notes /\ notes[n].at <= notes[j].at
  <2> SUFFICES ASSUME NEW j \in Slides!Segments, i < j PROVE n <= j /\ n \in DOMAIN notes /\ notes[n].at <= notes[j].at
    OBVIOUS
  <2>1. n <= j
    BY <1>1, <1>6, NextBoundaryIs
  <2>2. n \in DOMAIN notes
    BY <1>1, <1>3, <1>6, <2>1
  <2> QED
    BY <1>6, <2>1, <2>2, NotePlaces
<1> HIDE DEF n
<1>8. Slides!SegmentEnd(i) \in Nat /\ Slides!SegmentEnd(i) <= duration
  BY <1>1, <1>2, <1>3, <1>4
<1>9. \A u \in Slides!Starts(i) : u <= Slides!SegmentEnd(i) \/ Slides!SegmentEnd(i) = duration
  BY <1>1, <1>2, <1>3, <1>4, <1>5
<1>10. ASSUME NEW j \in Slides!Segments, i < j
       PROVE  /\ Slides!SegmentEnd(i) <= Slides!Clamp(notes[j].at)
              /\ \A u \in Slides!Starts(i) : u <= Slides!Clamp(notes[j].at)
  <2>1. n \in DOMAIN notes /\ n <= Len(notes) /\ notes[n].at <= notes[j].at /\ j \in DOMAIN notes /\ notes[j].at < duration
    BY <1>1, <1>6, <1>7, <1>10
  <2>2. Slides!SegmentEnd(i) = notes[n].at /\ Slides!Clamp(notes[j].at) = notes[j].at
    BY <1>1, <1>2, <1>4, <2>1
  <2>3. notes[n].at \in Nat /\ notes[j].at \in Nat
    BY <1>4, <2>1
  <2> QED
    BY <1>5, <2>1, <2>2, <2>3
<1> QED
  BY <1>1, <1>8, <1>9, <1>10

\* A slide ends where the next one starts, the last one with its segment.
LEMMA EndIs ==
    ASSUME Timed, MinDuration \in Int, NEW i \in Slides!Segments, NEW t \in Slides!Starts(i)
    PROVE  /\ t \in Nat /\ Slides!EndOf(i, t) \in Nat
           /\ \A u \in Slides!Starts(i) : t < u => Slides!EndOf(i, t) <= u
           /\ \/ Slides!EndOf(i, t) = Slides!SegmentEnd(i) /\ \A u \in Slides!Starts(i) : u <= t
              \/ Slides!EndOf(i, t) \in Slides!Starts(i) /\ t < Slides!EndOf(i, t)
<1> DEFINE later == {u \in Slides!Starts(i) : u > t}
<1>1. i \in DOMAIN notes /\ Slides!SegmentEnd(i) \in Nat
  BY SegmentIs
<1>2. Slides!Starts(i) \in SUBSET Nat
  BY <1>1, StartsBounded
<1>3. CASE later = {}
  <2>1. Slides!EndOf(i, t) = Slides!SegmentEnd(i)
    BY <1>3 DEF Slides!EndOf
  <2> QED
    BY <1>1, <1>2, <1>3, <2>1
<1>4. CASE later # {}
  <2>1. later \in SUBSET Nat
    BY <1>2
  <2>2. \E u \in later : \A v \in later : u <= v
    BY <1>4, <2>1, LeastNat
  <2>3. Slides!EndOf(i, t) \in later /\ \A v \in later : Slides!EndOf(i, t) <= v
    BY <1>4, <2>2 DEF Slides!EndOf
  <2> QED
    BY <1>2, <2>3
<1> QED
  BY <1>3, <1>4

\* What a whole slide is.
LEMMA WholeIs ==
    ASSUME NEW s
    PROVE  s \in Slides!Whole <=>
             \E i \in Slides!Segments : \E t \in Slides!Starts(i) :
                t < Slides!EndOf(i, t) /\ s = Slides!Slide(t, Slides!EndOf(i, t), FALSE, None, notes[i].layout)
<1> DEFINE W(i) == {Slides!Slide(t, Slides!EndOf(i, t), FALSE, None, notes[i].layout) :
                      t \in {u \in Slides!Starts(i) : u < Slides!EndOf(i, u)}}
<1>1. Slides!Whole = UNION {W(i) : i \in Slides!Segments}
  BY DEF Slides!Whole
<1>2. ASSUME NEW i
      PROVE  s \in W(i) <=> \E t \in Slides!Starts(i) :
                t < Slides!EndOf(i, t) /\ s = Slides!Slide(t, Slides!EndOf(i, t), FALSE, None, notes[i].layout)
  OBVIOUS
<1> HIDE DEF W
<1>3. s \in Slides!Whole <=> \E i \in Slides!Segments : s \in W(i)
  BY <1>1
<1> QED
  BY <1>2, <1>3

\* Slides follow one another.
LEMMA SlidesApart ==
    ASSUME Timed, MinDuration \in Int, NEW s \in Slides!Whole
    PROVE  /\ ~s.build /\ s.from \in Nat /\ s.to \in Nat /\ s.from < s.to
           /\ \A u \in Slides!Whole : u # s => s.to <= u.from \/ u.to <= s.from
<1>1. ASSUME NEW p \in Slides!Whole
      PROVE  \E i \in Slides!Segments : \E t \in Slides!Starts(i) :
                /\ p.from = t /\ p.to = Slides!EndOf(i, t) /\ t < Slides!EndOf(i, t) /\ p.build = FALSE
                /\ t \in Nat /\ Slides!EndOf(i, t) \in Nat
                /\ p = Slides!Slide(t, Slides!EndOf(i, t), FALSE, None, notes[i].layout)
  <2>1. PICK i \in Slides!Segments : \E t \in Slides!Starts(i) :
                t < Slides!EndOf(i, t) /\ p = Slides!Slide(t, Slides!EndOf(i, t), FALSE, None, notes[i].layout)
    BY WholeIs
  <2>2. PICK t \in Slides!Starts(i) :
                t < Slides!EndOf(i, t) /\ p = Slides!Slide(t, Slides!EndOf(i, t), FALSE, None, notes[i].layout)
    BY <2>1
  <2>3. p.from = t /\ p.to = Slides!EndOf(i, t) /\ p.build = FALSE
    BY <2>2 DEF Slides!Slide
  <2> QED
    BY <2>2, <2>3, EndIs
<1>2. ASSUME NEW i \in Slides!Segments, NEW j \in Slides!Segments, i < j,
             NEW t \in Slides!Starts(i), NEW u \in Slides!Starts(j)
      PROVE  Slides!EndOf(i, t) <= u
  <2>1. i \in DOMAIN notes /\ j \in DOMAIN notes /\ Slides!Clamp(notes[j].at) \in Nat
    BY SegmentIs, NotePlaces
  <2>2. Slides!EndOf(i, t) <= Slides!Clamp(notes[j].at)
    BY <1>2, SegmentIs, EndIs
  <2>3. Slides!Clamp(notes[j].at) <= u /\ u \in Nat /\ Slides!EndOf(i, t) \in Nat
    BY <2>1, StartsBounded, EndIs
  <2> QED
    BY <2>1, <2>2, <2>3
<1>3. ASSUME NEW u \in Slides!Whole, u # s PROVE s.to <= u.from \/ u.to <= s.from
  <2>1. PICK i \in Slides!Segments : \E t \in Slides!Starts(i) :
                /\ s.from = t /\ s.to = Slides!EndOf(i, t) /\ t \in Nat
                /\ s = Slides!Slide(t, Slides!EndOf(i, t), FALSE, None, notes[i].layout)
    BY <1>1
  <2>2. PICK j \in Slides!Segments : \E t \in Slides!Starts(j) :
                /\ u.from = t /\ u.to = Slides!EndOf(j, t) /\ t \in Nat
                /\ u = Slides!Slide(t, Slides!EndOf(j, t), FALSE, None, notes[j].layout)
    BY <1>1
  <2>3. /\ s.from \in Slides!Starts(i) /\ s.to = Slides!EndOf(i, s.from) /\ s.from \in Nat
        /\ u.from \in Slides!Starts(j) /\ u.to = Slides!EndOf(j, u.from) /\ u.from \in Nat
    BY <2>1, <2>2
  <2>4. i \in Nat /\ j \in Nat
    BY SegmentIs, NotePlaces
  <2>5. CASE i = j
    <3>1. s.from # u.from
      BY <1>3, <2>1, <2>2, <2>5
    <3> QED
      BY <2>3, <2>5, <3>1, EndIs
  <2>6. CASE i < j
    BY <1>2, <2>3, <2>6
  <2>7. CASE j < i
    BY <1>2, <2>3, <2>7
  <2> QED
    BY <2>4, <2>5, <2>6, <2>7
<1>4. ~s.build /\ s.from \in Nat /\ s.to \in Nat /\ s.from < s.to
  BY <1>1
<1> QED
  BY <1>3, <1>4

\* A moment of the video is in a segment when a slide shows it.
LEMMA SlidesCover ==
    ASSUME Timed, MinDuration \in Int, NEW t \in 0..(duration - 1)
    PROVE  (\E i \in Slides!Segments : Slides!Clamp(notes[i].at) <= t /\ t < Slides!SegmentEnd(i))
             <=> (\E s \in Slides!Whole : s.from <= t /\ t < s.to)
<1>0. t \in Nat /\ t < duration /\ duration \in Nat
  BY DEF Timed
<1>1. ASSUME NEW i \in Slides!Segments, Slides!Clamp(notes[i].at) <= t, t < Slides!SegmentEnd(i)
      PROVE  \E s \in Slides!Whole : s.from <= t /\ t < s.to
  <2> DEFINE T == {d \in Nat : t - d \in Slides!Starts(i)}
  <2>1. Slides!Starts(i) \in SUBSET Nat /\ Slides!Clamp(notes[i].at) \in Slides!Starts(i) /\ i \in DOMAIN notes
    BY SegmentIs, StartsBounded
  <2>2. t - Slides!Clamp(notes[i].at) \in T
    BY <1>0, <1>1, <2>1
  <2>3. T \in SUBSET Nat /\ T # {}
    BY <2>2
  <2>4. \E d \in T : \A e \in T : d <= e
    BY <2>3, LeastNat
  <2>5. PICK d \in T : \A e \in T : d <= e
    BY <2>4
  <2> DEFINE u == t - d
             e == Slides!EndOf(i, u)
  <2>6. u \in Slides!Starts(i) /\ u \in Nat /\ u <= t /\ d \in Nat
    BY <1>0, <2>1, <2>5
  <2>7. \A v \in Slides!Starts(i) : v <= t => v <= u
    <3> SUFFICES ASSUME NEW v \in Slides!Starts(i), v <= t PROVE v <= u
      OBVIOUS
    <3>1. v \in Nat /\ t - v \in Nat /\ t - (t - v) = v
      BY <1>0, <2>1
    <3>2. t - v \in T
      BY <3>1
    <3>3. d <= t - v
      BY <2>5, <3>2
    <3> QED
      BY <1>0, <2>6, <3>1, <3>3
  <2> HIDE DEF u, T
  <2>8. e \in Nat /\ t < e
    BY <1>0, <1>1, <2>1, <2>6, <2>7, EndIs
  <2>9. Slides!Slide(u, e, FALSE, None, notes[i].layout) \in Slides!Whole
    <3>1. u < Slides!EndOf(i, u)
      BY <1>0, <2>6, <2>8
    <3> QED
      BY <2>6, <3>1, WholeIs
  <2>10. /\ Slides!Slide(u, e, FALSE, None, notes[i].layout).from = u
         /\ Slides!Slide(u, e, FALSE, None, notes[i].layout).to = e
    BY DEF Slides!Slide
  <2> QED
    BY <2>6, <2>8, <2>9, <2>10
<1>2. ASSUME NEW s \in Slides!Whole, s.from <= t, t < s.to
      PROVE  \E i \in Slides!Segments : Slides!Clamp(notes[i].at) <= t /\ t < Slides!SegmentEnd(i)
  <2>1. PICK i \in Slides!Segments : \E u \in Slides!Starts(i) :
                u < Slides!EndOf(i, u) /\ s = Slides!Slide(u, Slides!EndOf(i, u), FALSE, None, notes[i].layout)
    BY WholeIs
  <2>2. PICK u \in Slides!Starts(i) : s = Slides!Slide(u, Slides!EndOf(i, u), FALSE, None, notes[i].layout)
    BY <2>1
  <2> DEFINE e == Slides!EndOf(i, u)
  <2>3. s.from = u /\ s.to = e
    BY <2>2 DEF Slides!Slide
  <2>4. /\ i \in DOMAIN notes /\ Slides!Clamp(notes[i].at) \in Nat /\ Slides!SegmentEnd(i) \in Nat
        /\ Slides!SegmentEnd(i) <= duration
        /\ \A v \in Slides!Starts(i) : v <= Slides!SegmentEnd(i) \/ Slides!SegmentEnd(i) = duration
    BY SegmentIs, NotePlaces
  <2>5. Slides!Clamp(notes[i].at) <= u /\ u \in Nat /\ Slides!Starts(i) \in SUBSET Nat
    BY <2>4, StartsBounded
  <2>6. e \in Nat /\ (e = Slides!SegmentEnd(i) \/ e \in Slides!Starts(i))
    BY EndIs
  <2>7. t < Slides!SegmentEnd(i)
    BY <1>0, <1>2, <2>3, <2>4, <2>6
  <2> QED
    BY <1>0, <1>2, <2>3, <2>4, <2>5, <2>7
<1> QED
  BY <1>1, <1>2

\* What a build is: a note of a segment labelled incremental, in a whole slide.
LEMMA BuildIs ==
    ASSUME Timed, NEW s \in Slides!Builds
    PROVE  \E j \in DOMAIN notes, p \in Slides!Whole :
              /\ ~Bounds(notes[j]) /\ p.from <= notes[j].at /\ notes[j].at < p.to
              /\ s = Slides!Slide(notes[j].at, p.to, TRUE, p.from, notes[j].layout)
<1> DEFINE Inner == {k \in UNION {Slides!Within(i) : i \in Slides!Segments} : Slides!Incremental(k)}
           C(j) == {Slides!Slide(notes[j].at, p.to, TRUE, p.from, notes[j].layout) :
                      p \in {q \in Slides!Whole : q.from <= notes[j].at /\ notes[j].at < q.to}}
<1>1. Slides!Builds = UNION {C(j) : j \in Inner}
  BY DEF Slides!Builds
<1>2. ASSUME NEW j \in Inner PROVE j \in DOMAIN notes /\ ~Bounds(notes[j])
  <2>1. PICK i \in Slides!Segments : j \in Slides!Within(i)
    OBVIOUS
  <2>2. i \in DOMAIN notes
    BY DEF Slides!Segments
  <2> QED
    BY <2>1, <2>2, NextBoundaryIs
<1>3. ASSUME NEW j, s \in C(j)
      PROVE  \E p \in Slides!Whole : /\ p.from <= notes[j].at /\ notes[j].at < p.to
                                     /\ s = Slides!Slide(notes[j].at, p.to, TRUE, p.from, notes[j].layout)
  BY <1>3
<1> HIDE DEF Inner, C
<1>4. PICK j \in Inner : s \in C(j)
  BY <1>1
<1> QED
  BY <1>2, <1>3, <1>4

\* There are only so many slides.
LEMMA SlidesFinite ==
    ASSUME Timed, MinDuration \in Int
    PROVE  IsFiniteSet(Slides!Whole) /\ IsFiniteSet(Slides!Builds)
<1>1. IsFiniteSet(DOMAIN notes)
  <2>1. DOMAIN notes = 1..Len(notes) /\ Len(notes) \in Nat
    BY NotePlaces
  <2> QED
    BY <2>1, FS_Interval
<1>2. IsFiniteSet(Slides!Whole)
  <2> DEFINE W(i) == {Slides!Slide(t, Slides!EndOf(i, t), FALSE, None, notes[i].layout) :
                      t \in {u \in Slides!Starts(i) : u < Slides!EndOf(i, u)}}
  <2>1. Slides!Whole = UNION {W(i) : i \in Slides!Segments}
    BY DEF Slides!Whole
  <2>2. IsFiniteSet(Slides!Segments)
    BY <1>1, FS_Subset DEF Slides!Segments
  <2>3. ASSUME NEW i \in Slides!Segments PROVE IsFiniteSet(W(i))
    <3> DEFINE D == {u \in Slides!Starts(i) : u < Slides!EndOf(i, u)}
               f == [t \in D |-> Slides!Slide(t, Slides!EndOf(i, t), FALSE, None, notes[i].layout)]
    <3>1. IsFiniteSet(D)
      <4>1. IsFiniteSet(Slides!Starts(i))
        BY StartsBounded DEF Slides!Segments
      <4> QED
        BY <4>1, FS_Subset
    <3>2. f \in Surjection(D, W(i))
      BY DEF Surjection
    <3> QED
      BY <3>1, <3>2, FS_Surjection
  <2> HIDE DEF W
  <2>4. IsFiniteSet({W(i) : i \in Slides!Segments})
    <3> DEFINE f == [i \in Slides!Segments |-> W(i)]
    <3>1. f \in Surjection(Slides!Segments, {W(i) : i \in Slides!Segments})
      BY DEF Surjection
    <3> QED
      BY <2>2, <3>1, FS_Surjection
  <2>5. \A T \in {W(i) : i \in Slides!Segments} : IsFiniteSet(T)
    BY <2>3
  <2> QED
    BY <2>1, <2>4, <2>5, FS_UNION
<1>3. IsFiniteSet(Slides!Builds)
  <2> DEFINE Inner == {k \in UNION {Slides!Within(i) : i \in Slides!Segments} : Slides!Incremental(k)}
             C(j) == {Slides!Slide(notes[j].at, p.to, TRUE, p.from, notes[j].layout) :
                      p \in {q \in Slides!Whole : q.from <= notes[j].at /\ notes[j].at < q.to}}
  <2>1. Slides!Builds = UNION {C(j) : j \in Inner}
    BY DEF Slides!Builds
  <2>2. IsFiniteSet(Inner)
    <3>1. Inner \in SUBSET DOMAIN notes
      BY DEF Slides!Within
    <3> QED
      BY <1>1, <3>1, FS_Subset
  <2>3. ASSUME NEW j \in Inner PROVE IsFiniteSet(C(j))
    <3> DEFINE D == {q \in Slides!Whole : q.from <= notes[j].at /\ notes[j].at < q.to}
               f == [p \in D |-> Slides!Slide(notes[j].at, p.to, TRUE, p.from, notes[j].layout)]
    <3>1. IsFiniteSet(D)
      BY <1>2, FS_Subset
    <3>2. f \in Surjection(D, C(j))
      BY DEF Surjection
    <3> QED
      BY <3>1, <3>2, FS_Surjection
  <2> HIDE DEF C, Inner
  <2>4. IsFiniteSet({C(j) : j \in Inner})
    <3> DEFINE f == [j \in Inner |-> C(j)]
    <3>1. f \in Surjection(Inner, {C(j) : j \in Inner})
      BY DEF Surjection
    <3> QED
      BY <2>2, <3>1, FS_Surjection
  <2>5. \A T \in {C(j) : j \in Inner} : IsFiniteSet(T)
    BY <2>3
  <2> QED
    BY <2>1, <2>4, <2>5, FS_UNION
<1> QED
  BY <1>2, <1>3

\* A set without a member of a finite set that holds it counts less.
LEMMA CountsLess ==
    ASSUME NEW S, IsFiniteSet(S), NEW T \in SUBSET S, NEW x \in S, x \notin T
    PROVE  /\ Cardinality(T) < Cardinality(S) /\ Cardinality(T) \in Nat /\ Cardinality(S) \in Nat
<1>1. /\ IsFiniteSet(T) /\ Cardinality(T) <= Cardinality(S)
      /\ Cardinality(S) = Cardinality(T) => S = T
  BY FS_Subset
<1>2. Cardinality(T) \in Nat /\ Cardinality(S) \in Nat
  BY <1>1, FS_CardinalityType
<1>3. S # T
  OBVIOUS
<1> QED
  BY <1>1, <1>2, <1>3

\* The instance counts as the module does.
LEMMA SlidesCount == ASSUME NEW S PROVE Slides!Cardinality(S) = Cardinality(S)
BY DEF Slides!Cardinality, Cardinality

\* No two slides have one number.
LEMMA NumbersDiffer ==
    ASSUME Timed, MinDuration \in Int, slides = Slides!Whole \cup Slides!Builds,
           NEW s \in slides, NEW u \in slides, s # u
    PROVE  Slides!Number(s) # Slides!Number(u)
<1> DEFINE Wholes == {p \in slides : ~p.build}
           Earlier(p) == {q \in slides : ~q.build /\ q.from < p.from}
           Before(p) == {q \in slides : q.build /\ q.from < p.from}
<1>1. /\ \A p \in Slides!Whole : ~p.build /\ p.from \in Nat /\ p.to \in Nat /\ p.from < p.to
      /\ \A p, q \in Slides!Whole : p # q => p.to <= q.from \/ q.to <= p.from
  BY SlidesApart
<1>2. \A p \in Slides!Builds : p.build /\ p.from \in Nat
  BY BuildIs, NotePlaces DEF Slides!Slide
<1>3. /\ \A p \in slides : p.from \in Nat /\ (p \in Slides!Whole <=> ~p.build) /\ (p \in Slides!Builds <=> p.build)
      /\ Wholes = Slides!Whole
  BY <1>1, <1>2
<1>4. \A p, q \in Slides!Whole : p # q => p.from # q.from
  BY <1>1
<1>5. \A p, q \in Slides!Builds : p # q => p.from # q.from
  <2> SUFFICES ASSUME NEW p \in Slides!Builds, NEW q \in Slides!Builds, p.from = q.from PROVE p = q
    OBVIOUS
  <2>1. PICK j \in DOMAIN notes, pp \in Slides!Whole :
              /\ ~Bounds(notes[j]) /\ pp.from <= notes[j].at /\ notes[j].at < pp.to
              /\ p = Slides!Slide(notes[j].at, pp.to, TRUE, pp.from, notes[j].layout)
    BY BuildIs
  <2>2. PICK k \in DOMAIN notes, qq \in Slides!Whole :
              /\ ~Bounds(notes[k]) /\ qq.from <= notes[k].at /\ notes[k].at < qq.to
              /\ q = Slides!Slide(notes[k].at, qq.to, TRUE, qq.from, notes[k].layout)
    BY BuildIs
  <2>3. notes[j].at = notes[k].at /\ notes[j].at \in Nat /\ j \in Nat /\ k \in Nat
    BY <2>1, <2>2, NotePlaces DEF Slides!Slide
  <2>4. j = k
    BY <2>1, <2>2, <2>3 DEF Timed
  <2>5. pp = qq
    BY <1>1, <2>1, <2>2, <2>3
  <2> QED
    BY <2>1, <2>2, <2>4, <2>5
<1>6. IsFiniteSet(slides)
  BY SlidesFinite, FS_Union
<1>7. ASSUME NEW p \in slides
      PROVE  /\ Slides!Number(p) = 1 + (IF p.build THEN Cardinality(Wholes) + Cardinality(Before(p))
                                        ELSE Cardinality(Earlier(p)))
             /\ IsFiniteSet(Wholes) /\ IsFiniteSet(Before(p)) /\ IsFiniteSet(Earlier(p))
             /\ Cardinality(Wholes) \in Nat /\ Cardinality(Before(p)) \in Nat /\ Cardinality(Earlier(p)) \in Nat
  <2>1. IsFiniteSet(Wholes) /\ IsFiniteSet(Before(p)) /\ IsFiniteSet(Earlier(p))
    BY <1>6, FS_Subset
  <2>2. Cardinality(Wholes) \in Nat /\ Cardinality(Before(p)) \in Nat /\ Cardinality(Earlier(p)) \in Nat
    BY <2>1, FS_CardinalityType
  <2> QED
    BY <2>1, <2>2, SlidesCount DEF Slides!Number
<1>8. ASSUME NEW p \in slides, NEW q \in slides, p.build <=> q.build, p.from < q.from
      PROVE  Slides!Number(p) # Slides!Number(q)
  <2>1. CASE p.build
    <3>1. Before(p) \in SUBSET Before(q) /\ p \in Before(q) /\ p \notin Before(p)
      BY <1>3, <1>8, <2>1
    <3> HIDE DEF Before, Wholes, Earlier
    <3>2. Cardinality(Before(p)) < Cardinality(Before(q))
      BY <1>7, <3>1, CountsLess
    <3> QED
      BY <1>7, <1>8, <2>1, <3>2
  <2>2. CASE ~p.build
    <3>1. Earlier(p) \in SUBSET Earlier(q) /\ p \in Earlier(q) /\ p \notin Earlier(p)
      BY <1>3, <1>8, <2>2
    <3> HIDE DEF Before, Wholes, Earlier
    <3>2. Cardinality(Earlier(p)) < Cardinality(Earlier(q))
      BY <1>7, <3>1, CountsLess
    <3> QED
      BY <1>7, <1>8, <2>2, <3>2
  <2> QED
    BY <2>1, <2>2
<1>9. ASSUME NEW p \in slides, NEW q \in slides, ~p.build, q.build
      PROVE  Slides!Number(p) # Slides!Number(q)
  <2>1. Earlier(p) \in SUBSET Wholes /\ p \in Wholes /\ p \notin Earlier(p)
    BY <1>3, <1>9
  <2> HIDE DEF Before, Wholes, Earlier
  <2>2. Cardinality(Earlier(p)) < Cardinality(Wholes)
    BY <1>7, <2>1, CountsLess
  <2> QED
    BY <1>7, <1>9, <2>2
<1> HIDE DEF Wholes, Earlier, Before
<1>10. s.from \in Nat /\ u.from \in Nat
  BY <1>3
<1>11. CASE s.build <=> u.build
  <2>1. s.from # u.from
    BY <1>3, <1>4, <1>5, <1>11
  <2>2. CASE s.from < u.from
    BY <1>8, <1>11, <2>2
  <2>3. CASE u.from < s.from
    BY <1>8, <1>11, <2>3
  <2> QED
    BY <1>10, <2>1, <2>2, <2>3
<1>12. CASE ~(s.build <=> u.build)
  BY <1>9, <1>12
<1> QED
  BY <1>11, <1>12

\* Grouped slides divide the time of the segments.
LEMMA SlidesDivide ==
    ASSUME Timed, slides = Slides!Whole \cup Slides!Builds
    PROVE  Slides!SlidesPartition
<1>0. MinDuration \in Int
  BY VideoAssumption
<1>a. /\ \A p \in Slides!Whole : ~p.build /\ p.from \in Nat /\ p.to \in Nat /\ p.from < p.to
      /\ \A p, q \in Slides!Whole : p # q => p.to <= q.from \/ q.to <= p.from
  BY <1>0, SlidesApart
<1>b. ASSUME NEW s \in Slides!Builds
      PROVE  /\ s.build /\ s.from \in Nat /\ s.to \in Nat
             /\ \E p \in Slides!Whole : ~p.build /\ p.from = s.parent /\ p.from <= s.from /\ s.to = p.to
  <2>1. PICK j \in DOMAIN notes, p \in Slides!Whole :
              /\ ~Bounds(notes[j]) /\ p.from <= notes[j].at /\ notes[j].at < p.to
              /\ s = Slides!Slide(notes[j].at, p.to, TRUE, p.from, notes[j].layout)
    BY BuildIs
  <2>2. s.build /\ s.from = notes[j].at /\ s.to = p.to /\ s.parent = p.from
    BY <2>1 DEF Slides!Slide
  <2> QED
    BY <1>a, <2>1, <2>2, NotePlaces
<1>1. ASSUME NEW t \in 0..(duration - 1)
      PROVE  Slides!Cardinality({s \in slides : ~s.build /\ s.from <= t /\ t < s.to})
               = IF \E i \in Slides!Segments : Slides!Clamp(notes[i].at) <= t /\ t < Slides!SegmentEnd(i) THEN 1 ELSE 0
  <2> DEFINE At == {s \in slides : ~s.build /\ s.from <= t /\ t < s.to}
  <2>1. At = {s \in Slides!Whole : s.from <= t /\ t < s.to}
    BY <1>a, <1>b
  <2>2. (\E i \in Slides!Segments : Slides!Clamp(notes[i].at) <= t /\ t < Slides!SegmentEnd(i)) <=> At # {}
    BY <1>0, <2>1, SlidesCover
  <2>3. ASSUME NEW s \in At PROVE At = {s}
    <3>1. \A u \in At : u = s
      BY <1>a, <2>1
    <3> QED
      BY <3>1
  <2> HIDE DEF At
  <2>4. At # {} => Cardinality(At) = 1
    BY <2>3, FS_Singleton
  <2>5. At = {} => Cardinality(At) = 0
    BY FS_EmptySet
  <2> QED
    BY <2>2, <2>4, <2>5, SlidesCount DEF At
<1>2. \A s \in slides : s.build =>
        \E p \in slides : ~p.build /\ p.from = s.parent /\ p.from <= s.from /\ s.to = p.to
  BY <1>a, <1>b
<1>3. \A s, u \in slides : Slides!Number(s) = Slides!Number(u) => s = u
  BY <1>0, NumbersDiffer
<1>4. \A seg \in Speech : \A t \in seg.from..(seg.to - 1) : \A s \in slides :
        s.from <= t /\ t < s.to => seg \in Slides!Told(s)
  <2> SUFFICES ASSUME NEW seg \in Speech, NEW t \in seg.from..(seg.to - 1), NEW s \in slides, s.from <= t, t < s.to
               PROVE  seg \in Slides!Told(s)
    OBVIOUS
  <2>1. seg.from \in Int /\ seg.to \in Int
    BY VideoAssumption
  <2>2. s.from \in Nat /\ s.to \in Nat
    BY <1>a, <1>b
  <2>3. seg.to > s.from /\ seg.from < s.to
    BY <2>1, <2>2
  <2> QED
    BY <2>3 DEF Slides!Told
<1> QED
  BY <1>1, <1>2, <1>3, <1>4 DEF Slides!SlidesPartition

---------------------------------------------------------------------------------
\* No two transitions are noted at one sample, and none before it is read.
Sampled(s, t) ==
    \A i \in DOMAIN s : ~Bounds(s[i]) =>
        s[i].at < t /\ \A j \in DOMAIN s : (i < j /\ ~Bounds(s[j])) => s[i].at < s[j].at

\* A boundary may be noted at any time, a transition at the sample being read.
LEMMA SampledAppended ==
    ASSUME NEW s \in Seq(NoteSet), NEW t \in Nat, NEW u \in Nat, Sampled(s, t), t <= u,
           NEW n \in NoteSet, ~Bounds(n) => t <= n.at /\ n.at < u
    PROVE  Append(s, n) \in Seq(NoteSet) /\ Sampled(Append(s, n), u)
<1> DEFINE a == Append(s, n)
<1>1. /\ a \in Seq(NoteSet) /\ DOMAIN s = 1..Len(s) /\ Len(s) \in Nat /\ DOMAIN a = 1..(Len(s) + 1)
      /\ \A i \in DOMAIN s : a[i] = s[i] /\ s[i] \in NoteSet
      /\ a[Len(s) + 1] = n
  BY NoteAppended
<1>2. \A i \in DOMAIN s : s[i].at \in Nat
  BY <1>1 DEF NoteSet
<1>3. n.at \in Nat
  BY DEF NoteSet
<1> HIDE DEF a
<1>4. \A i \in DOMAIN a : i \in DOMAIN s \/ i = Len(s) + 1
  BY <1>1
<1>5. ASSUME NEW i \in DOMAIN a, ~Bounds(a[i])
      PROVE  a[i].at < u /\ \A j \in DOMAIN a : (i < j /\ ~Bounds(a[j])) => a[i].at < a[j].at
  <2>1. CASE i = Len(s) + 1
    <3>1. \A j \in DOMAIN a : ~(i < j)
      BY <1>1, <2>1
    <3> QED
      BY <1>1, <1>5, <2>1, <3>1
  <2>2. CASE i \in DOMAIN s
    <3>1. a[i] = s[i] /\ a[i].at \in Nat /\ a[i].at < t
      BY <1>1, <1>2, <1>5, <2>2 DEF Sampled
    <3>2. ASSUME NEW j \in DOMAIN a, i < j, ~Bounds(a[j]) PROVE a[i].at < a[j].at
      <4>1. CASE j \in DOMAIN s
        BY <1>1, <1>5, <2>2, <3>1, <3>2, <4>1 DEF Sampled
      <4>2. CASE j = Len(s) + 1
        BY <1>1, <1>3, <3>1, <3>2, <4>2
      <4> QED
        BY <1>4, <4>1, <4>2
    <3> QED
      BY <3>1, <3>2
  <2> QED
    BY <1>4, <2>1, <2>2
<1> QED
  BY <1>1, <1>5 DEF a, Sampled

\* The scan keeps it so.
LEMMA ScanSampled ==
    ASSUME Scanned, Sampled(notes, Slides!Now), Slides!Scan
    PROVE  Sampled(notes', Slides!Now')
<1>1. PICK l \in Layouts \cup {NoSlide} :
         Slides!FirstSample(l) \/ Slides!OtherLayout(l) \/ \E look \in Slides!Looks : Slides!SameLayout(l, look)
  BY DEF Slides!Scan
<1>2. frame' = frame + 1 /\ l # None
  BY <1>1, ServicesAssumption DEF Slides!FirstSample, Slides!OtherLayout, Slides!SameLayout, Slides!Sample
<1>3. Slides!Now \in Nat /\ Slides!Now' \in Nat /\ Slides!Now < Slides!Now'
  BY <1>2 DEF Scanned, Slides!Now, Slides!Second
<1>4. notes \in Seq(NoteSet) /\ Sampled(notes, Slides!Now')
  <2>1. notes \in Seq(NoteSet) /\ \A i \in DOMAIN notes : notes[i] \in NoteSet
    BY DEF Scanned, Noted
  <2>2. \A i \in DOMAIN notes : notes[i].at \in Nat
    BY <2>1 DEF NoteSet
  <2> QED
    BY <1>3, <2>1, <2>2 DEF Sampled
<1> PICK now \in Nat : now = Slides!Now'
  BY <1>3
<1>5. ASSUME NEW s \in Seq(NoteSet), Sampled(s, now), NEW n \in NoteSet, Bounds(n)
      PROVE  Append(s, n) \in Seq(NoteSet) /\ Sampled(Append(s, n), now)
  BY <1>5, SampledAppended
<1>6. CASE Slides!FirstSample(l)
  <2>1. CASE Slides!Shown(l)
    <3> DEFINE n == Slides!Note("start", Slides!Now, l)
    <3>1. n \in NoteSet /\ n.kind = "start"
      BY <1>3, <2>1, NewNote DEF Slides!Shown
    <3>2. notes' = <<n>> /\ notes = <<>>
      BY <1>6, <2>1 DEF Slides!FirstSample, Scanned
    <3> HIDE DEF n
    <3>3. <<n>> = Append(notes, n)
      BY <3>2
    <3> QED
      BY <1>4, <1>5, <3>1, <3>2, <3>3 DEF Bounds, Slides!Boundaries
  <2>2. CASE ~Slides!Shown(l)
    BY <1>4, <1>6, <2>2 DEF Slides!FirstSample
  <2> QED
    BY <2>1, <2>2
<1>7. CASE Slides!OtherLayout(l)
  <2> DEFINE on   == Slides!Onset(l)
             ends == notes \o (IF Slides!Shown(active) THEN <<Slides!Note("end", on, active)>> ELSE <<>>)
             all  == ends \o (IF Slides!Shown(l) THEN <<Slides!Note("start", on, l)>> ELSE <<>>)
  <2>1. on \in Nat
    BY <1>2, <1>3 DEF Scanned, Slides!Onset
  <2> HIDE DEF on
  <2>2. ends \in Seq(NoteSet) /\ Sampled(ends, now)
    <3>1. CASE Slides!Shown(active)
      <4> DEFINE n == Slides!Note("end", on, active)
      <4>1. n \in NoteSet /\ n.kind = "end"
        BY <2>1, <3>1, NewNote DEF Slides!Shown
      <4> HIDE DEF n
      <4>2. ends = Append(notes, n)
        BY <1>4, <3>1, <4>1 DEF n
      <4> QED
        BY <1>4, <1>5, <4>1, <4>2 DEF Bounds, Slides!Boundaries
    <3>2. CASE ~Slides!Shown(active)
      <4>1. ends = notes
        BY <1>4, <3>2
      <4> QED
        BY <1>4, <4>1
    <3> QED
      BY <3>1, <3>2
  <2>3. Sampled(all, now)
    <3> HIDE DEF ends
    <3>1. CASE Slides!Shown(l)
      <4> DEFINE n == Slides!Note("start", on, l)
      <4>1. n \in NoteSet /\ n.kind = "start"
        BY <2>1, <3>1, NewNote DEF Slides!Shown
      <4> HIDE DEF n
      <4>2. all = Append(ends, n)
        BY <2>2, <3>1, <4>1 DEF n
      <4> QED
        BY <1>5, <2>2, <4>1, <4>2 DEF Bounds, Slides!Boundaries
    <3>2. CASE ~Slides!Shown(l)
      <4>1. all = ends
        BY <2>2, <3>2
      <4> QED
        BY <2>2, <4>1
    <3> QED
      BY <3>1, <3>2
  <2>4. notes' = all \/ notes' = notes
    BY <1>7 DEF Slides!OtherLayout, on
  <2> QED
    BY <1>4, <2>3, <2>4
<1>8. ASSUME NEW look \in Slides!Looks, Slides!SameLayout(l, look) PROVE Sampled(notes', Slides!Now')
  <2>1. CASE Slides!Shown(l) /\ look # "same"
    <3> DEFINE n == Slides!Note(look, Slides!Now, l)
    <3>1. n \in NoteSet /\ n.at = Slides!Now
      BY <1>3, <2>1, NewNote DEF Slides!Shown, Slides!Looks
    <3>2. notes' = Append(notes, n)
      BY <1>8, <2>1 DEF Slides!SameLayout
    <3> HIDE DEF n
    <3>3. Sampled(Append(notes, n), now)
      BY <1>3, <1>4, <3>1, SampledAppended
    <3> QED
      BY <3>2, <3>3
  <2>2. CASE ~(Slides!Shown(l) /\ look # "same")
    BY <1>4, <1>8, <2>2 DEF Slides!SameLayout
  <2> QED
    BY <2>1, <2>2
<1> QED
  BY <1>1, <1>6, <1>7, <1>8

\* What is added when the slides divide the time: the notes can be told by their times,
\* and the slides are those the notes have been grouped into.
Grouped ==
    (phase \in {"capture", "persist", "stored", "completed"} /\ notes # <<>>) =>
        slides = Slides!Whole \cup Slides!Builds

GroupInv == SlideInv /\ duration \in Nat /\ Sampled(notes, Slides!Now) /\ Grouped

\* After the scan a note changes by its label alone.
LEMMA OnlyLabels ==
    ASSUME SlideInv, [Slides!Next]_(Slides!vars), ~Slides!Scan
    PROVE  /\ DOMAIN notes' = DOMAIN notes /\ Slides!Now' = Slides!Now /\ duration' = duration
           /\ \A i \in DOMAIN notes : notes'[i].kind = notes[i].kind /\ notes'[i].at = notes[i].at
<1>1. \A i \in DOMAIN notes : notes[i] \in NoteSet
  BY DEF SlideInv, Scanned, Noted
<1>2. Slides!Now' = Slides!Now /\ duration' = duration
  BY DEF Slides!Next, Slides!vars, Slides!scanning, Slides!Now, Slides!ScanEnds, Slides!Classify, Slides!AskBatch,
     Slides!AnswerBatch, Slides!AskAgain, Slides!Classified, Slides!Group, Slides!Capture, Slides!Persist,
     Slides!Finish, Slides!Redeliver, Slides!Cancel, Slides!Cancelled
<1>3. ASSUME NEW S, NEW label, Slides!Label(S, label)
      PROVE  /\ DOMAIN notes' = DOMAIN notes
             /\ \A i \in DOMAIN notes : notes'[i].kind = notes[i].kind /\ notes'[i].at = notes[i].at
  BY <1>1, <1>3 DEF Slides!Label, NoteSet
<1>4. ASSUME notes' = Slides!FastPath
      PROVE  /\ DOMAIN notes' = DOMAIN notes
             /\ \A i \in DOMAIN notes : notes'[i].kind = notes[i].kind /\ notes'[i].at = notes[i].at
  BY <1>1, <1>4 DEF Slides!FastPath, NoteSet
<1>5. notes' = notes \/ notes' = Slides!FastPath \/ \E S, label : Slides!Label(S, label)
  BY DEF Slides!Next, Slides!vars, Slides!ScanEnds, Slides!Classify, Slides!AskBatch,
     Slides!AnswerBatch, Slides!AskAgain, Slides!Classified, Slides!Group, Slides!Capture, Slides!Persist,
     Slides!Finish, Slides!Redeliver, Slides!Cancel, Slides!Cancelled
<1> QED
  BY <1>2, <1>3, <1>4, <1>5

\* The slides of the same notes are the same.
LEMMA SameSlides ==
    ASSUME UNCHANGED <<notes, duration>>
    PROVE  Slides!Whole' = Slides!Whole /\ Slides!Builds' = Slides!Builds
<1>1. Slides!Whole' = Slides!Whole
  BY SMTT(60) DEF Slides!Whole, Slides!Segments, Slides!Starts, Slides!EndOf, Slides!SegmentEnd, Slides!Clamp,
     Slides!NextBoundary, Slides!LastStart, Slides!Within, Slides!Incremental, Slides!Slide
<1>2. \A i : Slides!Within(i)' = Slides!Within(i)
  BY DEF Slides!Within, Slides!NextBoundary
<1>3. Slides!Segments' = Slides!Segments
  BY DEF Slides!Segments, Slides!Clamp, Slides!SegmentEnd, Slides!NextBoundary
<1>4. Slides!Builds' = Slides!Builds
  BY <1>1, <1>2, <1>3 DEF Slides!Builds, Slides!Incremental, Slides!Slide
<1> QED
  BY <1>1, <1>4

\* A step keeps the slides those of the notes.
LEMMA GroupInvKept == GroupInv /\ [Slides!Next]_(Slides!vars) => GroupInv'
<1> SUFFICES ASSUME GroupInv, [Slides!Next]_(Slides!vars) PROVE GroupInv'
  OBVIOUS
<1>1. SlideInv'
  BY SlideInvKept DEF GroupInv
<1>2. Sampled(notes, Slides!Now)' /\ duration' \in Nat
  <2>1. CASE Slides!Scan
    <3>1. Sampled(notes', Slides!Now')
      BY <2>1, ScanSampled DEF GroupInv, SlideInv
    <3>2. duration' = duration
      BY <2>1 DEF Slides!Scan, Slides!FirstSample, Slides!OtherLayout, Slides!SameLayout, Slides!Sample
    <3> QED
      BY <3>1, <3>2 DEF GroupInv
  <2>2. CASE ~Slides!Scan
    <3>1. /\ DOMAIN notes' = DOMAIN notes /\ Slides!Now' = Slides!Now /\ duration' = duration
          /\ \A i \in DOMAIN notes : notes'[i].kind = notes[i].kind /\ notes'[i].at = notes[i].at
      BY <2>2, OnlyLabels DEF GroupInv
    <3> QED
      BY <3>1 DEF GroupInv, Sampled, Bounds
  <2> QED
    BY <2>1, <2>2
<1>3. Grouped'
  <2>1. CASE Slides!Group
    <3>1. UNCHANGED <<notes, duration>>
      BY <2>1 DEF Slides!Group
    <3>2. notes # <<>> => slides' = Slides!Whole \cup Slides!Builds
      BY <2>1 DEF Slides!Group
    <3> QED
      BY <3>1, <3>2, SameSlides DEF Grouped
  <2>2. CASE UNCHANGED <<notes, duration, slides>> /\
             (phase' \in {"capture", "persist", "stored", "completed"} =>
                phase \in {"capture", "persist", "stored", "completed"})
    BY <2>2, SameSlides DEF Grouped, GroupInv
  <2>3. CASE phase' \notin {"capture", "persist", "stored", "completed"}
    BY <2>3 DEF Grouped
  <2>4. Slides!Group \/ phase' \notin {"capture", "persist", "stored", "completed"}
        \/ (UNCHANGED <<notes, duration, slides>> /\
             (phase' \in {"capture", "persist", "stored", "completed"} =>
                phase \in {"capture", "persist", "stored", "completed"}))
    <3>1. CASE Slides!Scan \/ Slides!ScanEnds \/ Slides!Classify
      BY <3>1 DEF Slides!Scan, Slides!FirstSample, Slides!OtherLayout, Slides!SameLayout, Slides!Sample,
         Slides!ScanEnds, Slides!Classify, Slides!AskBatch, Slides!AnswerBatch, Slides!AskAgain, Slides!Classified
    <3>2. CASE Slides!Capture \/ Slides!Persist \/ Slides!Finish \/ Slides!Redeliver \/ Slides!Cancel
               \/ Slides!Cancelled \/ UNCHANGED Slides!vars
      BY <3>2 DEF Slides!Capture, Slides!Persist, Slides!Finish, Slides!Redeliver, Slides!Cancel,
         Slides!Cancelled, Slides!vars
    <3> QED
      BY <3>1, <3>2 DEF Slides!Next
  <2> QED
    BY <2>1, <2>2, <2>3, <2>4
<1> QED
  BY <1>1, <1>2, <1>3 DEF GroupInv

\* The invariant is about what the grouping needs.
LEMMA GroupHolds == GroupInv => Slides!SlidesPartition
<1> SUFFICES ASSUME GroupInv, phase \in {"capture", "persist", "stored", "completed"}, notes # <<>>
             PROVE  Slides!SlidesPartition
  BY DEF Slides!SlidesPartition
<1>1. slides = Slides!Whole \cup Slides!Builds
  BY DEF GroupInv, Grouped
<1>2. Timed
  BY DEF GroupInv, SlideInv, Scanned, Noted, Sampled, Timed
<1> QED
  BY <1>1, <1>2, SlidesDivide

\* Every moment of a segment is shown by one slide, whose number is its own, and what
\* is said while it is shown is told with it.
THEOREM TimeDivided == Spec => []SlidesPartition
<1>1. Init /\ part = "slides" => GroupInv
  <2> SUFFICES ASSUME Slides!Init PROVE GroupInv
    BY DEF Init
  <2>1. frame = 0 /\ active = None /\ pending = None /\ notes = <<>> /\ phase = "scan" /\ duration \in Nat
    BY VideoAssumption DEF Slides!Init
  <2>2. Noted(notes, Side(active), Slides!Now)
    BY <2>1 DEF Noted, Ascending, Alternating
  <2> QED
    BY <2>1, <2>2 DEF GroupInv, SlideInv, Scanned, Labelled, Sampled, Grouped
<1>2. part = "slides" /\ [Next]_vars => (part = "slides")' /\ [Slides!Next]_(Slides!vars)
  BY DEF Next, vars, slideVars, Slides!vars, Slides!scanning
<1>3. ~(part = "slides") /\ [Next]_vars => ~(part = "slides")'
  BY DEF Next, vars
<1> QED
  BY <1>1, <1>2, <1>3, GroupInvKept, GroupHolds, PTL DEF Spec, SlidesPartition

---------------------------------------------------------------------------------
(* SummaryText: the sections of an analysis *)

\* g joins the members of s, up to each.
Joins(g, X, s) ==
    /\ g \in [1..Len(s) -> Seq(X)]
    /\ \A i \in 1..Len(s) : g[i] = IF i = 1 THEN s[i] ELSE g[i - 1] \o s[i]

\* FlattenSeq joins them all.
LEMMA FlattenUnfolds ==
    ASSUME NEW X, NEW s \in Seq(Seq(X)), Len(s) # 0
    PROVE  \E g : Joins(g, X, s) /\ Summary!FlattenSeq(s) = g[Len(s)]
<1> DEFINE n == Len(s)
           Def(f) == f = [i \in 1..n |-> IF i = 1 THEN s[i] ELSE f[i - 1] \o s[i]]
           flatten == CHOOSE f : Def(f)
<1>1. Len(s) \in Nat /\ DOMAIN s = 1..n /\ \A i \in 1..n : s[i] \in Seq(X)
  OBVIOUS
<1>2. n # 0
  OBVIOUS
<1> DEFINE A == Seq(X)
           S == [k \in Nat |-> [q \in A |-> IF k + 2 \in 1..n THEN q \o s[k + 2] ELSE q]]
<1>3. s[1] \in A /\ n \in Nat
  BY <1>1, <1>2
<1>4. ASSUME NEW k \in Nat, NEW q \in A PROVE (IF k + 2 \in 1..n THEN q \o s[k + 2] ELSE q) \in A
  BY <1>1, ConcatProperties
<1>5. S \in [Nat -> [A -> A]]
  BY <1>4
<1>6. \A k \in Nat, q \in A : S[k][q] = IF k + 2 \in 1..n THEN q \o s[k + 2] ELSE q
  OBVIOUS
<1> HIDE DEF S, A
<1>7. PICK g : Recursive(g, A, s[1], S)
  BY <1>3, <1>5, Recursion
<1>8. g \in [Nat -> A] /\ g[0] = s[1] /\ \A k \in Nat : g[k + 1] = S[k][g[k]]
  BY <1>7 DEF Recursive
<1> DEFINE h == [i \in 1..n |-> g[i - 1]]
<1>9. ASSUME NEW i \in 1..n PROVE h[i] = IF i = 1 THEN s[i] ELSE h[i - 1] \o s[i]
  <2>1. CASE i = 1
    BY <1>3, <1>8, <2>1
  <2>2. CASE i # 1
    <3>1. i - 2 \in Nat /\ (i - 2) + 1 = i - 1 /\ (i - 2) + 2 = i /\ i - 1 \in 1..n /\ (i - 1) - 1 = i - 2
      BY <1>3, <2>2
    <3>2. g[i - 1] = g[i - 2] \o s[i]
      <4>1. g[(i - 2) + 1] = S[i - 2][g[i - 2]] /\ g[i - 2] \in A
        BY <1>8, <3>1
      <4>2. S[i - 2][g[i - 2]] = g[i - 2] \o s[(i - 2) + 2]
        BY <1>6, <3>1, <4>1
      <4> QED
        BY <3>1, <4>1, <4>2
    <3> QED
      BY <2>2, <3>1, <3>2
  <2> QED
    BY <2>1, <2>2
<1>10. Def(h)
  BY <1>9
<1> HIDE DEF n, h, Def
<1>11. Def(flatten)
  BY <1>10
<1> USE DEF Def
<1>12. \A i \in 1..n : flatten[i] = IF i = 1 THEN s[i] ELSE flatten[i - 1] \o s[i]
  BY <1>11
<1> HIDE DEF Def, flatten
<1>13. \A i \in 1..n : flatten[i] \in Seq(X)
  <2> DEFINE T == {i \in 1..n : flatten[i] \in Seq(X)}
  <2>1. 1 <= n => 1 \in T
    BY <1>1, <1>3, <1>12 DEF n
  <2>2. ASSUME NEW i \in 1..n, i \in T, i + 1 \in 1..n PROVE i + 1 \in T
    <3>1. (i + 1) - 1 = i /\ i + 1 # 1
      BY <1>3, <2>2
    <3>2. flatten[i + 1] = flatten[i] \o s[i + 1] /\ s[i + 1] \in Seq(X) /\ flatten[i] \in Seq(X)
      BY <1>1, <1>12, <2>2, <3>1 DEF n
    <3> QED
      BY <2>2, <3>2, ConcatProperties
  <2> HIDE DEF T
  <2>3. \A i \in 1..n : i \in T
    <3>1. 1 \in Int /\ n \in Int
      BY <1>3
    <3>2. \A i \in 1..n : (i \in T /\ i + 1 \in 1..n) => i + 1 \in T
      BY <2>2
    <3> QED
      BY <2>1, <3>1, <3>2, Upwards
  <2> QED
    BY <2>3 DEF T
<1>14. Summary!FlattenSeq(s) = flatten[n]
  BY <1>2 DEF Summary!FlattenSeq, n, flatten, Def
<1>15. flatten = [i \in 1..n |-> IF i = 1 THEN s[i] ELSE flatten[i - 1] \o s[i]]
  BY <1>11 DEF Def
<1> HIDE DEF n
<1>16. flatten \in [1..n -> Seq(X)]
  <2> DEFINE b(i) == IF i = 1 THEN s[i] ELSE flatten[i - 1] \o s[i]
  <2>1. flatten = [i \in 1..n |-> b(i)] /\ \A i \in 1..n : flatten[i] = b(i)
    BY <1>12, <1>15
  <2> HIDE DEF b
  <2> QED
    BY <1>13, <2>1
<1>17. Joins(flatten, X, s)
  BY <1>12, <1>16 DEF Joins, n
<1> QED
  BY <1>14, <1>17 DEF n

\* Sequences of the same things, one after the other.
LEMMA Flattened ==
    ASSUME NEW X, NEW s \in Seq(Seq(X))
    PROVE  Summary!FlattenSeq(s) \in Seq(X)
<1>1. CASE Len(s) = 0
  BY <1>1 DEF Summary!FlattenSeq
<1>2. CASE Len(s) # 0
  <2>1. PICK g : Joins(g, X, s) /\ Summary!FlattenSeq(s) = g[Len(s)]
    BY <1>2, FlattenUnfolds
  <2>2. Len(s) \in 1..Len(s)
    BY <1>2
  <2> QED
    BY <2>1, <2>2 DEF Joins
<1> QED
  BY <1>1, <1>2

TextLines    == [kind : {"chapter", "line", "plain"}, at : Nat, ends : BOOLEAN]
PlanSection  == [from : Nat \cup {None}, to : Nat \cup {None}]

SummaryInv ==
    /\ lines \in Seq(TextLines) /\ snaps \in SnapshotSets
    /\ pass = "sections" => plan \in Analyses

\* Descriptions are lines like others.
LEMMA AnnotatedLines ==
    ASSUME SummaryInv, NEW S \in SUBSET snaps
    PROVE  Summary!Annotated(S) \in Seq(TextLines)
<1> DEFINE n(i) == Cardinality(Summary!VisionAfter(i, S))
           extra(i) == [k \in 1..n(i) |-> Summary!Line("plain", 0, FALSE)]
           s == [i \in DOMAIN lines |-> <<lines[i]>> \o extra(i)]
<1>1. DOMAIN lines = 1..Len(lines) /\ Len(lines) \in Nat /\ \A i \in DOMAIN lines : lines[i] \in TextLines
  BY DEF SummaryInv
<1>2. ASSUME NEW i \in DOMAIN lines PROVE <<lines[i]>> \o extra(i) \in Seq(TextLines)
  <2>1. IsFiniteSet(Summary!VisionAfter(i, S))
    <3>1. IsFiniteSet(snaps) /\ Summary!VisionAfter(i, S) \in SUBSET snaps
      BY TextAssumption DEF SummaryInv, Summary!VisionAfter
    <3> QED
      BY <3>1, FS_Subset
  <2>2. n(i) \in Nat
    BY <2>1, FS_CardinalityType
  <2>3. Summary!Line("plain", 0, FALSE) \in TextLines
    BY DEF Summary!Line, TextLines
  <2>4. extra(i) \in Seq(TextLines)
    <3>1. \A m \in Nat : [k \in 1..m |-> Summary!Line("plain", 0, FALSE)] \in Seq(TextLines)
      <4> SUFFICES ASSUME NEW m \in Nat
                   PROVE  [k \in 1..m |-> Summary!Line("plain", 0, FALSE)] \in Seq(TextLines)
        OBVIOUS
      <4> DEFINE e == [k \in 1..m |-> Summary!Line("plain", 0, FALSE)]
      <4>1. e \in [1..m -> TextLines]
        BY <2>3
      <4> HIDE DEF e
      <4>2. e \in Seq(TextLines)
        BY <4>1, SeqDef
      <4> USE DEF e
      <4> QED
        BY <4>2
    <3> HIDE DEF n
    <3> QED
      BY <2>2, <3>1
  <2>5. <<lines[i]>> \in Seq(TextLines)
    BY <1>1
  <2> HIDE DEF extra
  <2> QED
    BY <2>4, <2>5, ConcatProperties
<1>3. s \in Seq(Seq(TextLines))
  <2> HIDE DEF extra
  <2>1. s \in [1..Len(lines) -> Seq(TextLines)]
    BY <1>1, <1>2
  <2> HIDE DEF s
  <2> QED
    BY <1>1, <2>1, SeqDef
<1>4. Summary!Annotated(S) = Summary!FlattenSeq(s)
  <2>1. \A i : Summary!Cardinality(Summary!VisionAfter(i, S)) = n(i)
    BY DEF Summary!Cardinality, Cardinality
  <2> QED
    BY <2>1 DEF Summary!Annotated
<1> HIDE DEF s
<1> QED
  BY <1>3, <1>4, Flattened

\* The lines stay lines, the snapshots stay, and the sections are those of an analysis.
LEMMA SummaryInvKept == SummaryInv /\ [Summary!Next]_(Summary!vars) => SummaryInv'
<1> SUFFICES ASSUME SummaryInv, [Summary!Next]_(Summary!vars) PROVE SummaryInv'
  OBVIOUS
<1>1. ASSUME NEW S \in SUBSET snaps, Summary!Describe(S) PROVE SummaryInv'
  BY <1>1, AnnotatedLines DEF Summary!Describe, SummaryInv
<1>2. CASE Summary!Analyze
  BY <1>2 DEF Summary!Analyze, SummaryInv
<1>3. ASSUME UNCHANGED <<lines, snaps>>, pass' = "sections" => pass = "sections" /\ plan' = plan PROVE SummaryInv'
  BY <1>3 DEF SummaryInv
<1>4. CASE Summary!Cancel \/ Summary!Cancelled \/ Summary!AnalysisFails \/ Summary!SectionsFail \/ Summary!Copy
           \/ Summary!KeepLines \/ Summary!Assemble
  BY <1>3, <1>4 DEF Summary!Cancel, Summary!Cancelled, Summary!AnalysisFails, Summary!SectionsFail, Summary!Copy,
     Summary!KeepLines, Summary!Assemble, Summary!Written
<1>5. ASSUME NEW r \in Replies, Summary!Reply(r) \/ Summary!OnlyReasoning(r) PROVE SummaryInv'
  BY <1>3, <1>5 DEF Summary!Reply, Summary!OnlyReasoning, Summary!Written
<1>6. CASE UNCHANGED Summary!vars
  BY <1>3, <1>6 DEF Summary!vars
<1> QED
  BY <1>1, <1>2, <1>4, <1>5, <1>6 DEF Summary!Next

---------------------------------------------------------------------------------
\* The first line at a time is one of them, and the later the time the later the line.
LEMMA LineAtLeast ==
    ASSUME SummaryInv, NEW t \in Nat, Summary!LinesFrom(t) # {}, NEW d
    PROVE  /\ Summary!LineAt(t, d) \in Summary!LinesFrom(t) /\ Summary!LineAt(t, d) \in Nat
           /\ \A i \in Summary!LinesFrom(t) : Summary!LineAt(t, d) <= i
<1>1. Summary!LinesFrom(t) \in SUBSET Nat
  BY DEF Summary!LinesFrom, SummaryInv
<1>2. \E i \in Summary!LinesFrom(t) : \A j \in Summary!LinesFrom(t) : i <= j
  BY <1>1, LeastNat
<1>3. t # None
  BY ServicesAssumption
<1>4. Summary!LineAt(t, d) = CHOOSE i \in Summary!LinesFrom(t) : \A j \in Summary!LinesFrom(t) : i <= j
  BY <1>3 DEF Summary!LineAt
<1> QED
  BY <1>1, <1>2, <1>4

\* Sections in good order, each from a line on to the next one's, divide lines and snapshots.
LEMMA SectionsDivide == SummaryInv => Summary!SectionsPartition
<1> SUFFICES ASSUME SummaryInv, pass = "sections", Summary!Contiguous(plan)
             PROVE  /\ \A i \in {j \in DOMAIN lines : lines[j].kind # "chapter" /\ j >= Summary!LineAt(plan[1].from, 1)} :
                         Summary!Cardinality({k \in DOMAIN plan : i \in Summary!SectionLines(plan[k])}) = 1
                    /\ \A t \in {s \in snaps : s >= plan[1].from} :
                         Summary!Cardinality({k \in DOMAIN plan : t \in Summary!SectionSnaps(plan[k])}) = 1
  BY DEF Summary!SectionsPartition
<1> DEFINE n == Len(plan)
           from == [k \in 1..n |-> plan[k].from]
           first == [k \in 1..n |-> Summary!LineAt(plan[k].from, 1)]
<1>1. plan \in Seq(PlanSection) /\ plan # <<>>
  BY TextAssumption DEF SummaryInv, PlanSection
<1>a. n \in Nat /\ n # 0 /\ DOMAIN plan = 1..n
  BY <1>1
<1>b. \A k \in 1..n : plan[k] \in PlanSection
  BY <1>1
<1>2. n \in Nat /\ n # 0 /\ DOMAIN plan = 1..n /\ 1 \in 1..n /\ n \in 1..n
      /\ \A k \in 1..n : plan[k] \in [from : Nat \cup {None}, to : Nat \cup {None}]
  BY <1>a, <1>b DEF PlanSection
<1>3. /\ \A k \in 1..n : plan[k].from \in Nat /\ plan[k].from # None /\ Summary!LinesFrom(plan[k].from) # {}
      /\ \A k \in 1..n : k + 1 \in 1..n => plan[k].to = plan[k + 1].from /\ plan[k].from < plan[k].to
      /\ plan[n].to = None
  <2>1. \A k \in 1..n : k + 1 \in 1..n => k \in 1..(Len(plan) - 1)
    BY <1>2
  <2> QED
    BY <1>2, <2>1 DEF Summary!Contiguous
<1> HIDE DEF n
<1>4. \A k \in 1..n : ~(k + 1 \in 1..n) => k = n
  BY <1>a
<1>5. from \in [1..n -> Nat] /\ \A k \in 1..n : k + 1 \in 1..n => from[k] <= from[k + 1]
  BY <1>3
<1>6. \A k \in 1..n : first[k] \in Summary!LinesFrom(plan[k].from) /\ first[k] \in Nat
          /\ \A i \in Summary!LinesFrom(plan[k].from) : first[k] <= i
  BY <1>3, LineAtLeast
<1>7. \A k \in 1..n : k + 1 \in 1..n => first[k] <= first[k + 1]
  <2> SUFFICES ASSUME NEW k \in 1..n, k + 1 \in 1..n PROVE first[k] <= first[k + 1]
    OBVIOUS
  <2>1. plan[k].from < plan[k + 1].from /\ plan[k].from \in Nat /\ plan[k + 1].from \in Nat
    BY <1>3
  <2>2. \A i \in DOMAIN lines : lines[i] \in TextLines
    BY DEF SummaryInv
  <2>3. Summary!LinesFrom(plan[k + 1].from) \subseteq Summary!LinesFrom(plan[k].from)
    BY <2>1, <2>2 DEF Summary!LinesFrom, TextLines
  <2> QED
    BY <1>6, <2>3
<1>8. first \in [1..n -> Nat]
  BY <1>6
<1>9. ASSUME NEW i \in DOMAIN lines, lines[i].kind # "chapter", i >= Summary!LineAt(plan[1].from, 1)
      PROVE  \E k \in 1..n : {j \in DOMAIN plan : i \in Summary!SectionLines(plan[j])} = {k}
  <2>1. i \in Nat /\ i < Len(lines) + 1 /\ first[1] <= i
    BY <1>2, <1>6, <1>9 DEF SummaryInv
  <2> HIDE DEF first
  <2>2. PICK k \in 1..n : \A j \in 1..n : (first[j] <= i /\ (j + 1 \in 1..n => i < first[j + 1])) <=> j = k
    BY <1>2, <1>7, <1>8, <2>1, BetweenSteps
  <2> USE DEF first
  <2>3. ASSUME NEW j \in 1..n
        PROVE  i \in Summary!SectionLines(plan[j]) <=> (first[j] <= i /\ (j + 1 \in 1..n => i < first[j + 1]))
    <3>1. Summary!LineAt(plan[j].from, 1) = first[j] /\ first[j] \in Nat
      BY <1>6
    <3>2. CASE j + 1 \in 1..n
      <4>1. Summary!LineAt(plan[j].to, Len(lines) + 1) = first[j + 1] /\ first[j + 1] \in Nat
        <5>1. plan[j].to = plan[j + 1].from /\ plan[j].to \in Nat /\ Summary!LinesFrom(plan[j].to) # {}
          BY <1>3, <3>2
        <5> DEFINE other == Summary!LineAt(plan[j].to, Len(lines) + 1)
        <5>2. /\ other \in Summary!LinesFrom(plan[j].to) /\ other \in Nat
              /\ \A m \in Summary!LinesFrom(plan[j].to) : other <= m
          BY <5>1, LineAtLeast
        <5> HIDE DEF other
        <5>3. /\ first[j + 1] \in Summary!LinesFrom(plan[j].to) /\ first[j + 1] \in Nat
              /\ \A m \in Summary!LinesFrom(plan[j].to) : first[j + 1] <= m
          BY <1>6, <3>2, <5>1
        <5>4. other = first[j + 1]
          BY <5>2, <5>3
        <5> QED
          BY <5>3, <5>4 DEF other
      <4> QED
        BY <1>9, <2>1, <3>1, <3>2, <4>1 DEF Summary!SectionLines
    <3>3. CASE ~(j + 1 \in 1..n)
      <4>1. Summary!LineAt(plan[j].to, Len(lines) + 1) = Len(lines) + 1
        BY <1>3, <1>4, <3>3 DEF Summary!LineAt
      <4> QED
        BY <1>9, <2>1, <3>1, <3>3, <4>1 DEF Summary!SectionLines
    <3> QED
      BY <3>2, <3>3
  <2>4. \A j \in DOMAIN plan : i \in Summary!SectionLines(plan[j]) <=> j = k
    BY <1>2, <2>2, <2>3
  <2> QED
    BY <1>2, <2>4
<1>10. ASSUME NEW t \in snaps, t >= plan[1].from
       PROVE  \E k \in 1..n : {j \in DOMAIN plan : t \in Summary!SectionSnaps(plan[j])} = {k}
  <2>1. t \in Nat /\ from[1] <= t
    BY <1>2, <1>3, <1>10, TextAssumption DEF SummaryInv
  <2> HIDE DEF from
  <2>2. PICK k \in 1..n : \A j \in 1..n : (from[j] <= t /\ (j + 1 \in 1..n => t < from[j + 1])) <=> j = k
    BY <1>2, <1>5, <2>1, BetweenSteps
  <2> USE DEF from
  <2>3. ASSUME NEW j \in 1..n
        PROVE  t \in Summary!SectionSnaps(plan[j]) <=> (from[j] <= t /\ (j + 1 \in 1..n => t < from[j + 1]))
    <3>1. plan[j].from \in Nat /\ plan[j].from # None /\ from[j] = plan[j].from
      BY <1>3
    <3>2. CASE j + 1 \in 1..n
      <4>1. plan[j].to = from[j + 1] /\ from[j + 1] \in Nat /\ plan[j].to # None
        BY <1>3, <3>2
      <4> QED
        BY <2>1, <3>1, <3>2, <4>1 DEF Summary!SectionSnaps
    <3>3. CASE ~(j + 1 \in 1..n)
      BY <1>3, <1>4, <2>1, <3>1, <3>3 DEF Summary!SectionSnaps
    <3> QED
      BY <3>2, <3>3
  <2>4. \A j \in DOMAIN plan : t \in Summary!SectionSnaps(plan[j]) <=> j = k
    BY <1>2, <2>2, <2>3
  <2> QED
    BY <1>2, <2>4
<1>11. \A k : Summary!Cardinality({k}) = 1
  BY FS_Singleton DEF Summary!Cardinality, Cardinality
<1> HIDE DEF from, first
<1> QED
  BY <1>9, <1>10, <1>11

\* From an analysis in good order every line and snapshot gets into one section, whatever
\* the transcript and however many of its snapshots have been described.
THEOREM SectionsDivided == Spec => []SectionsPartition
<1>1. Init /\ part = "summary" => SummaryInv
  BY TextAssumption DEF Init, Summary!Init, SummaryInv, TextLines
<1>2. part = "summary" /\ [Next]_vars => (part = "summary")' /\ [Summary!Next]_(Summary!vars)
  BY DEF Next, vars, summaryVars, Summary!vars
<1>3. ~(part = "summary") /\ [Next]_vars => ~(part = "summary")'
  BY DEF Next, vars
<1> QED
  BY <1>1, <1>2, <1>3, SummaryInvKept, SectionsDivide, PTL DEF Spec, SectionsPartition

---------------------------------------------------------------------------------
(* SummaryText: what a model thinks *)

\* The tokens of a reply.
Words == {"open", "close", "marker", "boundary", "words"}

\* The first and the last place of a token, and 0 where there is none.
LEMMA Places ==
    ASSUME NEW r \in Seq(Words), NEW t
    PROVE  /\ Summary!FirstOf(t, r) \in 0..Len(r) /\ Summary!LastOf(t, r) \in 0..Len(r)
           /\ Summary!FirstOf(t, r) = 0 => \A k \in 1..Len(r) : r[k] # t
           /\ Summary!LastOf(t, r) = 0 => \A k \in 1..Len(r) : r[k] # t
           /\ Summary!FirstOf(t, r) # 0 => r[Summary!FirstOf(t, r)] = t
           /\ Summary!LastOf(t, r) # 0 => r[Summary!LastOf(t, r)] = t
           /\ \A k \in 1..Len(r) : r[k] = t =>
                Summary!FirstOf(t, r) <= k /\ Summary!FirstOf(t, r) # 0 /\ Summary!LastOf(t, r) >= k
<1> DEFINE I == {i \in 1..Len(r) : r[i] = t}
           first == CHOOSE x \in I : \A y \in I : x =< y
           end == CHOOSE x \in I : \A y \in I : x >= y
<1>1. Len(r) \in Nat
  OBVIOUS
<1>2. Summary!FirstOf(t, r) = IF I # {} THEN first ELSE 0
  BY DEF Summary!FirstOf, Summary!SelectInSeq, Summary!Min
<1>3. Summary!LastOf(t, r) = IF I # {} THEN end ELSE 0
  BY DEF Summary!LastOf, Summary!SelectLastInSeq, Summary!Max
<1>4. I \in SUBSET Nat /\ \A k \in I : k <= Len(r)
  BY <1>1
<1>5. I = {} => \A k \in 1..Len(r) : r[k] # t
  OBVIOUS
<1>6. ASSUME I # {} PROVE /\ \E m \in I : \A k \in I : m <= k
                          /\ \E m \in I : \A k \in I : m >= k
  <2> HIDE DEF I
  <2>1. \E m \in I : \A k \in I : m <= k
    BY <1>4, <1>6, LeastNat
  <2>2. PICK m \in I : \A k \in I : k <= m
    BY <1>1, <1>4, <1>6, GreatestNat
  <2>3. \A k \in I : m >= k
    <3> SUFFICES ASSUME NEW k \in I PROVE m >= k
      OBVIOUS
    <3>1. k \in Nat /\ m \in Nat
      BY <1>4
    <3> QED
      BY <2>2, <3>1
  <2> QED
    BY <2>1, <2>3
<1>7. I # {} => /\ first \in I /\ \A k \in I : first <= k
                /\ end \in I /\ \A k \in I : end >= k
  <2> HIDE DEF I
  <2> QED
    BY <1>6
<1>8. \A k \in 1..Len(r) : k \in I <=> r[k] = t
  OBVIOUS
<1>9. \A k \in I : k \in 1..Len(r)
  OBVIOUS
<1> HIDE DEF I, first, end
<1> QED
  BY <1>1, <1>2, <1>3, <1>5, <1>7, <1>8, <1>9

\* What is left of a reply is nowhere where the model is known to think.
LEMMA Stripped ==
    ASSUME NEW r \in Replies
    PROVE  Summary!Strip(r) \cap Summary!Thinking(r) = {}
<1> DEFINE open  == Summary!FirstOf("open", r)
           close == Summary!FirstOf("close", r)
           m     == Summary!FirstOf("marker", r)
           b     == Summary!LastOf("boundary", r)
<1>1. r \in Seq(Words) /\ Len(r) \in Nat /\ DOMAIN r = 1..Len(r)
  BY TextAssumption DEF Words
<1>2. open \in 0..Len(r) /\ close \in 0..Len(r) /\ m \in 0..Len(r) /\ b \in 0..Len(r)
  BY <1>1, Places
<1>3. \A i \in Summary!Strip(r) :
        /\ i \in DOMAIN r
        /\ IF open > 0 /\ close > open THEN i < open \/ i > close
           ELSE IF open > 0 THEN i < open
           ELSE m > 0 => b > m /\ i > b
  BY DEF Summary!Strip
<1>4. \A k \in 1..Len(r) : /\ r[k] = "open" => open <= k /\ open # 0
                           /\ r[k] = "marker" => m <= k /\ m # 0
                           /\ r[k] = "boundary" => b >= k
  BY <1>1, Places
<1>5. (open # 0 => r[open] = "open") /\ (close # 0 => r[close] = "close") /\ (b # 0 => r[b] = "boundary")
  BY <1>1, Places
<1> HIDE DEF open, close, m, b
<1>6. ASSUME NEW i \in Summary!Strip(r), NEW o \in DOMAIN r, o < i, r[o] = "open",
             \A k \in DOMAIN r : k < i => r[k] # "close"
      PROVE  FALSE
  <2>1. i \in 1..Len(r) /\ o \in 1..Len(r) /\ open <= o /\ open > 0 /\ open < i
    BY <1>1, <1>2, <1>3, <1>4, <1>6
  <2>2. close > open => close \in 1..Len(r) /\ close >= i
    BY <1>1, <1>2, <1>5, <1>6, <2>1
  <2> QED
    BY <1>2, <1>3, <2>1, <2>2
<1>7. ASSUME NEW i \in Summary!Strip(r), \A k \in DOMAIN r : r[k] # "open",
             NEW o \in DOMAIN r, o < i, r[o] = "marker",
             (\E k \in DOMAIN r : r[k] = "boundary") => \E k \in DOMAIN r : k > i /\ r[k] = "boundary"
      PROVE  FALSE
  <2>1. i \in 1..Len(r) /\ open = 0 /\ m > 0
    BY <1>1, <1>2, <1>3, <1>4, <1>5, <1>7
  <2>2. b > m /\ i > b /\ b \in 1..Len(r)
    BY <1>2, <1>3, <2>1
  <2>3. r[b] = "boundary"
    BY <1>5, <2>1, <2>2, <1>2
  <2>4. PICK k \in 1..Len(r) : k > i /\ r[k] = "boundary"
    BY <1>1, <1>7, <2>2, <2>3
  <2>5. b >= k
    BY <1>4, <2>4
  <2> QED
    BY <2>1, <2>2, <2>4, <2>5
<1>8. ASSUME NEW i \in Summary!Strip(r), i \in Summary!Thinking(r) PROVE FALSE
  <2>1. \/ /\ \E o \in DOMAIN r : o < i /\ r[o] = "open"
           /\ \A k \in DOMAIN r : k < i => r[k] # "close"
        \/ /\ \A k \in DOMAIN r : r[k] # "open"
           /\ \E o \in DOMAIN r : o < i /\ r[o] = "marker"
           /\ (\E k \in DOMAIN r : r[k] = "boundary") => \E k \in DOMAIN r : k > i /\ r[k] = "boundary"
    BY <1>8 DEF Summary!Thinking
  <2> QED
    BY <1>6, <1>7, <2>1
<1> QED
  BY <1>8

\* What has been written last shows nothing of that, and is not empty for it.
ThoughtsOut ==
    /\ latest.kept \cap Summary!Thinking(latest.reply) = {}
    /\ latest.reply # <<>> => latest.kept # {}

\* Each step of the passes keeps it so: a reply comes in as Strip leaves it.
LEMMA ThoughtsStayOut == ThoughtsOut /\ [Summary!Next]_(Summary!vars) => ThoughtsOut'
<1> SUFFICES ASSUME ThoughtsOut, [Summary!Next]_(Summary!vars) PROVE ThoughtsOut'
  OBVIOUS
<1>1. ASSUME NEW r, NEW kept, latest' = [reply |-> r, kept |-> kept],
             kept \cap Summary!Thinking(r) = {}, r # <<>> => kept # {}
      PROVE  ThoughtsOut'
  <2>1. latest'.reply = r /\ latest'.kept = kept
    BY <1>1
  <2> QED
    BY <1>1, <2>1 DEF ThoughtsOut, Summary!Thinking
<1>2. ASSUME UNCHANGED latest PROVE ThoughtsOut'
  BY <1>2 DEF ThoughtsOut, Summary!Thinking
<1>3. CASE Summary!Copy \/ Summary!KeepLines \/ Summary!SectionsFail
  <2>1. latest' = [reply |-> <<>>, kept |-> {}]
    BY <1>3 DEF Summary!Copy, Summary!KeepLines, Summary!SectionsFail, Summary!Written, Summary!Own
  <2> QED
    BY <1>1, <2>1
<1>4. ASSUME NEW r \in Replies, Summary!Reply(r) PROVE ThoughtsOut'
  BY <1>1, <1>4, Stripped DEF Summary!Reply, Summary!Written
<1>5. ASSUME NEW r \in Replies, Summary!OnlyReasoning(r) PROVE UNCHANGED latest
  BY <1>5 DEF Summary!OnlyReasoning
<1>6. ASSUME \/ \E S \in SUBSET snaps : Summary!Describe(S)
             \/ Summary!Cancel \/ Summary!Cancelled \/ Summary!Analyze \/ Summary!AnalysisFails \/ Summary!Assemble
             \/ UNCHANGED Summary!vars
      PROVE  UNCHANGED latest
  BY <1>6 DEF Summary!Describe, Summary!Cancel, Summary!Cancelled, Summary!Analyze, Summary!AnalysisFails, Summary!Assemble,
     Summary!vars
<1> QED
  BY <1>2, <1>3, <1>4, <1>5, <1>6 DEF Summary!Next

\* Whatever a model replies, nothing of its first block, or of what it announces as its
\* thinking in a reply without one, gets into a document, and no piece becomes empty.
THEOREM ThoughtsKeptOut == Spec => []NoReasoning
<1>1. Init /\ part = "summary" => ThoughtsOut
  BY DEF Init, Summary!Init, Summary!Own, ThoughtsOut
<1>2. part = "summary" /\ [Next]_vars => (part = "summary")' /\ [Summary!Next]_(Summary!vars)
  BY DEF Next, vars, summaryVars, Summary!vars
<1>3. ~(part = "summary") /\ [Next]_vars => ~(part = "summary")'
  BY DEF Next, vars
<1>4. ThoughtsOut /\ [Summary!Next]_(Summary!vars) => ThoughtsOut'
  BY ThoughtsStayOut
<1>5. ThoughtsOut => Summary!NoReasoning
  BY DEF ThoughtsOut, Summary!NoReasoning
<1> QED
  BY <1>1, <1>2, <1>3, <1>4, <1>5, PTL DEF Spec, NoReasoning

---------------------------------------------------------------------------------
(* SummaryText: the pieces of the fallback *)

PieceSet == [kind : {"image"}, at : Nat] \cup [kind : {"text"}, of : SUBSET Nat] \cup [kind : {"chapter"}, of : Nat]

Shows(p, j) == (p.kind = "text" /\ j \in p.of) \/ (p.kind = "chapter" /\ j = p.of)

\* Where line j is shown, where the image of t is, and where t waits.
Showing(o, j) == {k \in 1..Len(o) : Shows(o[k], j)}
Imaging(o, t) == {k \in 1..Len(o) : o[k] = Summary!Image(t)}
Waiting(m, t) == {k \in 1..Len(m) : m[k] = t}

Once(T) == \E k : T = {k}

Host(t) == Summary!HostLine(t)

\* A finite set of numbers is bounded.
LEMMA FiniteBounded ==
    ASSUME NEW S \in SUBSET Nat, IsFiniteSet(S)
    PROVE  \E b \in Nat : \A t \in S : t <= b
<1>1. PICK g \in Seq(S) : \A t \in S : \E k \in 1..Len(g) : g[k] = t
  BY DEF IsFiniteSet
<1>2. Len(g) \in Nat /\ \A k \in 1..Len(g) : g[k] \in Nat
  <2>1. Len(g) \in Nat
    BY <1>1
  <2>2. \A k \in 1..Len(g) : g[k] \in S
    BY <1>1
  <2> QED
    BY <2>1, <2>2
<1> DEFINE n == Len(g)
           T == {k \in 0..n : \E b \in Nat : \A i \in 1..k : g[i] <= b}
<1>3. 0 \in T /\ 0 \in Int /\ n \in Int
  BY <1>2
<1>4. ASSUME NEW k \in 0..n, k \in T, k + 1 \in 0..n PROVE k + 1 \in T
  <2>1. PICK b \in Nat : \A i \in 1..k : g[i] <= b
    BY <1>4
  <2> DEFINE d == IF b <= g[k + 1] THEN g[k + 1] ELSE b
  <2>2. k + 1 \in 1..n /\ g[k + 1] \in Nat
    BY <1>2, <1>4
  <2>3. d \in Nat /\ b <= d /\ g[k + 1] <= d
    BY <2>2
  <2> HIDE DEF d
  <2>4. ASSUME NEW i \in 1..(k + 1) PROVE g[i] <= d
    <3>1. i \in 1..k \/ i = k + 1
      BY <1>2
    <3>2. i \in 1..k => g[i] <= b /\ g[i] \in Nat
      BY <1>2, <1>4, <2>1
    <3> QED
      BY <2>3, <3>1, <3>2
  <2> QED
    BY <1>4, <2>3, <2>4
<1> HIDE DEF T, n
<1>5. \A k \in 0..n : k \in T
  BY <1>3, <1>4, Upwards
<1>6. n \in 0..n
  BY <1>2 DEF n
<1>7. PICK b \in Nat : \A i \in 1..n : g[i] <= b
  BY <1>5, <1>6 DEF T
<1> QED
  BY <1>1, <1>7 DEF n

\* The members of a finite set of numbers in order are each of them once.
LEMMA InOrderIs ==
    ASSUME NEW S \in SUBSET Nat, IsFiniteSet(S)
    PROVE  /\ Summary!InOrder(S) \in Seq(S)
           /\ \A t \in S : Once(Waiting(Summary!InOrder(S), t))
<1> DEFINE Rises(q) == \A i, k \in DOMAIN q : i < k => q[i] < q[k]
           Has(U) == \E q \in [1..Cardinality(U) -> U] : Rises(q)
<1>1. PICK b \in Nat : \A t \in S : t <= b
  BY FiniteBounded
<1> DEFINE T == {n \in 0..(b + 1) : \A U \in SUBSET (0..(n - 1)) : Has(U)}
<1>2. 0 \in T
  <2>7. 0 \in 0..(b + 1) /\ 0..(0 - 1) = {}
    BY <1>1
  <2> DEFINE U == {}
  <2>1. Cardinality(U) = 0
    BY FS_EmptySet
  <2> DEFINE q == [i \in {} |-> 0]
  <2>2. q \in [1..Cardinality(U) -> U] /\ DOMAIN q = {}
    BY <2>1
  <2> HIDE DEF q
  <2>3. Rises(q)
    BY <2>2
  <2>4. Has({})
    BY <2>2, <2>3
  <2> HIDE DEF Has
  <2>5. \A x \in SUBSET (0..(0 - 1)) : x = {}
    BY <2>7, Zenon
  <2>6. \A x \in SUBSET (0..(0 - 1)) : Has(x)
    BY <2>4, <2>5
  <2> QED
    BY <2>7, <2>6
<1>3. ASSUME NEW n \in 0..(b + 1), n \in T, n + 1 \in 0..(b + 1) PROVE n + 1 \in T
  <2> SUFFICES ASSUME NEW U \in SUBSET (0..((n + 1) - 1)) PROVE Has(U)
    BY <1>3
  <2> DEFINE V == U \ {n}
  <2>1. V \in SUBSET (0..(n - 1)) /\ n \in Nat
    BY <1>1
  <2>2. PICK p \in [1..Cardinality(V) -> V] : Rises(p)
    BY <1>3, <2>1
  <2>3. IsFiniteSet(U) /\ IsFiniteSet(V)
    <3>1. IsFiniteSet(0..((n + 1) - 1))
      BY <2>1, FS_Interval
    <3> QED
      BY <3>1, FS_Subset, FS_RemoveElement
  <2>4. CASE n \notin U
    <3>1. V = U
      BY <2>4
    <3> QED
      BY <2>2, <3>1
  <2>5. CASE n \in U
    <3> DEFINE c == Cardinality(V)
               q == [i \in 1..(c + 1) |-> IF i = c + 1 THEN n ELSE p[i]]
    <3>1. c \in Nat /\ Cardinality(U) = c + 1
      <4>1. c = Cardinality(U) - 1 /\ Cardinality(U) \in Nat /\ c \in Nat
        BY <2>3, <2>5, FS_RemoveElement, FS_CardinalityType
      <4> HIDE DEF c
      <4> QED
        BY <4>1
    <3>2. p \in [1..c -> V] /\ \A i, k \in 1..c : i < k => p[i] < p[k]
      BY <2>2
    <3> HIDE DEF c, V
    <3>3. \A i \in 1..(c + 1) : i = c + 1 \/ (i \in 1..c /\ i # c + 1)
      BY <3>1
    <3>4. \A i \in 1..c : p[i] \in U /\ p[i] \in Nat /\ p[i] < n
      <4> SUFFICES ASSUME NEW i \in 1..c PROVE p[i] \in U /\ p[i] \in Nat /\ p[i] < n
        OBVIOUS
      <4>1. p[i] \in V
        BY <3>2
      <4>2. p[i] \in 0..(n - 1) /\ p[i] \in U
        BY <2>1, <4>1 DEF V
      <4> QED
        BY <2>1, <4>2
    <3>5. q \in [1..(c + 1) -> U]
      BY <2>5, <3>3, <3>4
    <3>6. \A i \in 1..(c + 1) : q[i] = IF i = c + 1 THEN n ELSE p[i]
      OBVIOUS
    <3>7. DOMAIN q = 1..(c + 1)
      OBVIOUS
    <3> HIDE DEF q
    <3>8. ASSUME NEW i \in 1..(c + 1), NEW k \in 1..(c + 1), i < k PROVE q[i] < q[k]
      <4>1. i \in 1..c /\ i # c + 1
        BY <3>1, <3>8
      <4>2. CASE k = c + 1
        BY <3>4, <3>6, <4>1, <4>2
      <4>3. CASE k # c + 1
        <5>1. k \in 1..c
          BY <3>3, <4>3
        <5> QED
          BY <3>2, <3>6, <3>8, <4>1, <4>3, <5>1
      <4> QED
        BY <4>2, <4>3
    <3>9. Rises(q)
      BY <3>7, <3>8
    <3> HIDE DEF Rises
    <3> QED
      BY <3>1, <3>5, <3>9
  <2> QED
    BY <2>4, <2>5
<1>4. b + 1 \in T
  <2>1. 0 \in Int /\ b + 1 \in Int /\ 0 <= b + 1 /\ b + 1 \in 0..(b + 1)
    BY <1>1
  <2> HIDE DEF T
  <2>2. \A i \in 0..(b + 1) : i \in T
    BY <1>2, <1>3, <2>1, Upwards
  <2> QED
    BY <2>1, <2>2
<1>5. Has(S)
  <2>1. S \in SUBSET (0..((b + 1) - 1))
    BY <1>1
  <2> HIDE DEF Has
  <2> QED
    BY <1>4, <2>1
<1> DEFINE q == Summary!InOrder(S)
           c == Cardinality(S)
<1>6. q = CHOOSE x \in [1..c -> S] : Rises(x)
  BY DEF Summary!InOrder, Summary!Cardinality, Cardinality
<1>7. q \in [1..c -> S] /\ Rises(q) /\ c \in Nat
  BY <1>5, <1>6, FS_CardinalityType
<1> HIDE DEF q, c
<1>8. \A i, k \in 1..c : i < k => q[i] < q[k]
  BY <1>7
<1>9. ASSUME NEW i \in 1..c, NEW k \in 1..c, q[i] = q[k] PROVE i = k
  <2>1. q[i] \in Nat /\ q[k] \in Nat
    BY <1>7
  <2>2. ~(q[i] < q[k]) /\ ~(q[k] < q[i])
    BY <1>9, <2>1
  <2>3. ~(i < k) /\ ~(k < i)
    BY <1>8, <2>2
  <2> QED
    BY <1>7, <2>3
<1>10. \A t \in S : \E i \in 1..c : q[i] = t
  <2>1. q \in Injection(1..c, S)
    BY <1>7, <1>9 DEF Injection, IsInjective
  <2>2. Cardinality(1..c) = c
    BY <1>7, FS_Interval
  <2>3. q \in Surjection(1..c, S)
    BY <2>1, <2>2, FS_Injection DEF c
  <2> QED
    BY <2>3 DEF Surjection
<1>11. q \in Seq(S) /\ Len(q) = c
  BY <1>7
<1>12. ASSUME NEW t \in S PROVE Once(Waiting(q, t))
  <2>1. PICK i \in 1..c : q[i] = t
    BY <1>10
  <2>2. Waiting(q, t) = {i}
    BY <1>9, <1>11, <2>1 DEF Waiting
  <2> QED
    BY <2>2 DEF Once
<1> QED
  BY <1>11, <1>12 DEF q

\* What is behind what has been put out.
LEMMA ShowingMore ==
    ASSUME NEW o \in Seq(PieceSet), NEW p \in PieceSet, NEW j
    PROVE  Showing(Append(o, p), j) = IF Shows(p, j) THEN Showing(o, j) \cup {Len(o) + 1} ELSE Showing(o, j)
<1> DEFINE v == Append(o, p)
           n == Len(o)
<1>1. n \in Nat /\ Len(v) = n + 1 /\ v[n + 1] = p /\ \A k \in 1..n : v[k] = o[k]
  BY AppendProperties
<1>2. \A k : k \in 1..(n + 1) <=> k \in 1..n \/ k = n + 1
  BY <1>1
<1> HIDE DEF v, n
<1>3. Showing(v, j) = {k \in 1..(n + 1) : Shows(v[k], j)} /\ Showing(o, j) = {k \in 1..n : Shows(o[k], j)}
  BY <1>1 DEF Showing, n
<1>4. \A k : k \in Showing(v, j) <=> k \in Showing(o, j) \/ (k = n + 1 /\ Shows(p, j))
  BY <1>1, <1>2, <1>3
<1> QED
  BY <1>4 DEF v, n

\* And the images in it.
LEMMA ImagingMore ==
    ASSUME NEW o \in Seq(PieceSet), NEW p \in PieceSet, NEW t
    PROVE  Imaging(Append(o, p), t) = IF p = Summary!Image(t) THEN Imaging(o, t) \cup {Len(o) + 1} ELSE Imaging(o, t)
<1> DEFINE v == Append(o, p)
           n == Len(o)
<1>1. n \in Nat /\ Len(v) = n + 1 /\ v[n + 1] = p /\ \A k \in 1..n : v[k] = o[k]
  BY AppendProperties
<1>2. \A k : k \in 1..(n + 1) <=> k \in 1..n \/ k = n + 1
  BY <1>1
<1> HIDE DEF v, n
<1>3. Imaging(v, t) = {k \in 1..(n + 1) : v[k] = Summary!Image(t)} /\ Imaging(o, t) = {k \in 1..n : o[k] = Summary!Image(t)}
  BY <1>1 DEF Imaging, n
<1>4. \A k : k \in Imaging(v, t) <=> k \in Imaging(o, t) \/ (k = n + 1 /\ p = Summary!Image(t))
  BY <1>1, <1>2, <1>3
<1> QED
  BY <1>4 DEF v, n

\* Every line up to i is shown once or open; no later one is shown.
ShownOnce(o, S, i) ==
    /\ S \in SUBSET (1..i)
    /\ \A j \in 1..i : IF j \in S THEN Showing(o, j) = {} ELSE Once(Showing(o, j))
    /\ \A k \in 1..Len(o) : \A j : Shows(o[k], j) => j \in 1..i

\* Texts are in order, and before what is open.
Ascends(o, S) ==
    /\ \A k, l \in 1..Len(o) : (o[k].kind = "text" /\ o[l].kind = "text" /\ k < l) =>
         \A a \in o[k].of, b \in o[l].of : a < b
    /\ \A k \in 1..Len(o) : o[k].kind = "text" => \A a \in o[k].of, b \in S : a < b

\* Snapshots that follow a line up to h are shown once, or wait once; others do neither.
Imaged(o, m, h) ==
    /\ \A t \in snaps : Host(t) \in 1..h =>
         \/ Waiting(m, t) = {} /\ Once(Imaging(o, t))
         \/ Imaging(o, t) = {} /\ Once(Waiting(m, t))
    /\ \A k \in 1..Len(o) : o[k].kind = "image" => o[k].at \in snaps /\ Host(o[k].at) \in 1..h
    /\ \A k \in 1..Len(m) : m[k] \in snaps /\ Host(m[k]) \in 1..h

\* An image is before the text behind its line and not before a chapter up to it.
Around(o, S, m) ==
    /\ \A k, l \in 1..Len(o) : o[k].kind = "image" =>
         /\ (l > k /\ o[l].kind = "text") => \A a \in o[l].of : a > Host(o[k].at)
         /\ (l < k /\ o[l].kind = "chapter") => o[l].of <= Host(o[k].at)
    /\ \A k \in 1..Len(o) : o[k].kind = "image" => \A b \in S : b > Host(o[k].at)
    /\ \A k \in 1..Len(o) : o[k].kind = "chapter" => \A l \in 1..Len(m) : o[k].of <= Host(m[l])

Walked(o, S, m, i, h) ==
    /\ o \in Seq(PieceSet) /\ m \in Seq(Nat) /\ i \in Nat /\ h \in Nat /\ h <= i
    /\ ShownOnce(o, S, i) /\ Ascends(o, S) /\ Imaged(o, m, h) /\ Around(o, S, m)

\* The open text is written.
LEMMA TextWritten ==
    ASSUME NEW o, NEW S, NEW m, NEW i, NEW h, Walked(o, S, m, i, h)
    PROVE  Walked(Append(o, Summary!Text(S)), {}, m, i, h)
<1> DEFINE p == Summary!Text(S)
           v == Append(o, p)
           n == Len(o)
<1>1. /\ o \in Seq(PieceSet) /\ m \in Seq(Nat) /\ i \in Nat /\ h \in Nat /\ h <= i
      /\ ShownOnce(o, S, i) /\ Ascends(o, S) /\ Imaged(o, m, h) /\ Around(o, S, m)
  BY DEF Walked
<1>2. S \in SUBSET (1..i) /\ S \in SUBSET Nat
  BY <1>1 DEF ShownOnce
<1>3. p \in PieceSet /\ p.kind = "text" /\ p.of = S /\ (\A t : p # Summary!Image(t)) /\ \A j : Shows(p, j) <=> j \in S
  BY <1>2 DEF Summary!Text, Summary!Image, PieceSet, Shows
<1> HIDE DEF p
<1>4. v \in Seq(PieceSet) /\ n \in Nat /\ Len(v) = n + 1 /\ v[n + 1] = p /\ \A k \in 1..n : v[k] = o[k]
  BY <1>1, <1>3, AppendProperties
<1>5. \A j : Showing(v, j) = IF j \in S THEN Showing(o, j) \cup {n + 1} ELSE Showing(o, j)
  BY <1>1, <1>3, ShowingMore
<1>6. \A t : Imaging(v, t) = Imaging(o, t)
  BY <1>1, <1>3, ImagingMore
<1> HIDE DEF v
<1>7. \A k \in 1..(n + 1) : (k \in 1..n /\ v[k] = o[k] /\ k # n + 1) \/ (k = n + 1 /\ v[k] = p)
  BY <1>4
<1>8. ShownOnce(v, {}, i)
  <2>1. ASSUME NEW j \in 1..i PROVE Once(Showing(v, j))
    <3>1. CASE j \in S
      <4>1. Showing(o, j) = {}
        BY <1>1, <3>1 DEF ShownOnce
      <4> QED
        BY <1>5, <3>1, <4>1 DEF Once
    <3>2. CASE j \notin S
      BY <1>1, <1>5, <3>2 DEF ShownOnce
    <3> QED
      BY <3>1, <3>2
  <2>2. \A k \in 1..(n + 1) : \A j : Shows(v[k], j) => j \in 1..i
    BY <1>1, <1>2, <1>3, <1>7 DEF ShownOnce
  <2> QED
    BY <1>4, <2>1, <2>2 DEF ShownOnce
<1>9. Ascends(v, {})
  <2>1. ASSUME NEW k \in 1..(n + 1), NEW l \in 1..(n + 1), v[k].kind = "text", v[l].kind = "text", k < l
        PROVE  \A a \in v[k].of, b \in v[l].of : a < b
    <3>1. k \in 1..n
      BY <1>4, <2>1
    <3>2. CASE l \in 1..n
      BY <1>1, <1>4, <2>1, <3>1, <3>2 DEF Ascends
    <3>3. CASE l = n + 1
      BY <1>1, <1>3, <1>4, <2>1, <3>1, <3>3 DEF Ascends
    <3> QED
      BY <1>7, <3>2, <3>3
  <2> QED
    BY <1>4, <2>1 DEF Ascends
<1>10. Imaged(v, m, h)
  <2>1. \A k \in 1..(n + 1) : v[k].kind = "image" => v[k].at \in snaps /\ Host(v[k].at) \in 1..h
    BY <1>1, <1>3, <1>7 DEF Imaged
  <2>2. \A t \in snaps : Host(t) \in 1..h =>
          \/ Waiting(m, t) = {} /\ Once(Imaging(v, t))
          \/ Imaging(v, t) = {} /\ Once(Waiting(m, t))
    BY <1>1, <1>6 DEF Imaged
  <2>3. \A k \in 1..Len(m) : m[k] \in snaps /\ Host(m[k]) \in 1..h
    BY <1>1 DEF Imaged
  <2> QED
    BY <1>4, <2>1, <2>2, <2>3 DEF Imaged
<1>11. Around(v, {}, m)
  <2>1. ASSUME NEW k \in 1..(n + 1), NEW l \in 1..(n + 1), v[k].kind = "image", l > k, v[l].kind = "text"
        PROVE  \A a \in v[l].of : a > Host(v[k].at)
    <3>1. k \in 1..n /\ v[k] = o[k]
      BY <1>3, <1>7, <2>1
    <3>2. CASE l \in 1..n
      BY <1>1, <1>4, <2>1, <3>1, <3>2 DEF Around
    <3>3. CASE l = n + 1
      BY <1>1, <1>3, <1>4, <2>1, <3>1, <3>3 DEF Around
    <3> QED
      BY <1>7, <3>2, <3>3
  <2>2. ASSUME NEW k \in 1..(n + 1), NEW l \in 1..(n + 1), v[k].kind = "image", l < k, v[l].kind = "chapter"
        PROVE  v[l].of <= Host(v[k].at)
    <3>1. k \in 1..n /\ v[k] = o[k] /\ l \in 1..n /\ v[l] = o[l]
      BY <1>3, <1>7, <2>2
    <3> QED
      BY <1>1, <2>2, <3>1 DEF Around
  <2>3. ASSUME NEW k \in 1..(n + 1), v[k].kind = "chapter", NEW l \in 1..Len(m) PROVE v[k].of <= Host(m[l])
    <3>1. k \in 1..n /\ v[k] = o[k]
      BY <1>3, <1>7, <2>3
    <3> QED
      BY <1>1, <2>3, <3>1 DEF Around
  <2> QED
    BY <1>4, <2>1, <2>2, <2>3 DEF Around
<1> QED
  BY <1>1, <1>4, <1>8, <1>9, <1>10, <1>11 DEF Walked, v, p

ImagesOf(m) == [k \in DOMAIN m |-> Summary!Image(m[k])]

\* Images of different snapshots are different.
LEMMA ImageIs ==
    ASSUME NEW x, NEW y
    PROVE  /\ Summary!Image(x).kind = "image" /\ Summary!Image(x).at = x
           /\ Summary!Image(x) = Summary!Image(y) => x = y
<1>1. Summary!Image(x).at = x /\ Summary!Image(y).at = y /\ Summary!Image(x).kind = "image"
  BY DEF Summary!Image
<1> QED
  BY <1>1

\* The images that wait are written behind, when no text is open.
LEMMA ImagesWritten ==
    ASSUME NEW o, NEW m, NEW i, NEW h, Walked(o, {}, m, i, h)
    PROVE  Walked(o \o ImagesOf(m), {}, <<>>, i, h)
<1> DEFINE x == ImagesOf(m)
           v == o \o x
           n == Len(o)
           c == Len(m)
<1>1. /\ o \in Seq(PieceSet) /\ m \in Seq(Nat) /\ i \in Nat /\ h \in Nat /\ h <= i
      /\ ShownOnce(o, {}, i) /\ Ascends(o, {}) /\ Imaged(o, m, h) /\ Around(o, {}, m)
  BY DEF Walked
<1>2. c \in Nat /\ DOMAIN m = 1..c /\ \A k \in 1..c : m[k] \in Nat
  BY <1>1
<1>3. x = [k \in 1..c |-> Summary!Image(m[k])]
  BY <1>2 DEF ImagesOf
<1>4. \A k \in 1..c : Summary!Image(m[k]) \in PieceSet
  BY <1>2 DEF Summary!Image, PieceSet
<1> HIDE DEF c, x
<1>5. x \in Seq(PieceSet) /\ Len(x) = c /\ \A k \in 1..c : x[k] = Summary!Image(m[k])
  BY <1>2, <1>3, <1>4
<1>6. /\ v \in Seq(PieceSet) /\ n \in Nat /\ Len(v) = n + c
      /\ \A k \in 1..(n + c) : v[k] = IF k <= n THEN o[k] ELSE x[k - n]
  <2>1. /\ v \in Seq(PieceSet) /\ Len(v) = n + Len(x)
        /\ \A k \in 1..(n + Len(x)) : v[k] = IF k <= n THEN o[k] ELSE x[k - n]
    BY <1>1, <1>5, ConcatProperties
  <2>2. n \in Nat /\ Len(x) = c
    BY <1>1, <1>5
  <2> HIDE DEF v, n
  <2> QED
    BY <2>1, <2>2
<1> HIDE DEF v, n
<1>7. \A k \in 1..n : k \in 1..(n + c) /\ v[k] = o[k]
  BY <1>2, <1>6
<1>8. \A k \in 1..c : n + k \in 1..(n + c) /\ v[n + k] = Summary!Image(m[k])
  <2> SUFFICES ASSUME NEW k \in 1..c PROVE n + k \in 1..(n + c) /\ v[n + k] = Summary!Image(m[k])
    OBVIOUS
  <2>1. n + k \in 1..(n + c) /\ ~(n + k <= n) /\ (n + k) - n = k
    BY <1>2, <1>6
  <2> QED
    BY <1>5, <1>6, <2>1
<1>9. ASSUME NEW k \in 1..(n + c) PROVE k \in 1..n \/ \E l \in 1..c : k = n + l
  <2>1. CASE k <= n
    BY <1>6, <2>1
  <2>2. CASE ~(k <= n)
    <3>1. k - n \in 1..c /\ k = n + (k - n)
      BY <1>2, <1>6, <2>2
    <3> QED
      BY <3>1
  <2> QED
    BY <2>1, <2>2
<1>10. ASSUME NEW k \in 1..(n + c) PROVE (k \in 1..n /\ v[k] = o[k]) \/ (k \notin 1..n /\ \E l \in 1..c : k = n + l /\ v[k] = Summary!Image(m[l]))
  <2>1. CASE k \in 1..n
    BY <1>7, <2>1
  <2>2. CASE k \notin 1..n
    BY <1>8, <1>9, <2>2
  <2> QED
    BY <2>1, <2>2
<1>11. \A k \in 1..(n + c) : k \notin 1..n => v[k].kind = "image" /\ v[k].at \in snaps /\ Host(v[k].at) \in 1..h
  <2> SUFFICES ASSUME NEW k \in 1..(n + c), k \notin 1..n
               PROVE  v[k].kind = "image" /\ v[k].at \in snaps /\ Host(v[k].at) \in 1..h
    OBVIOUS
  <2>1. PICK l \in 1..c : v[k] = Summary!Image(m[l])
    BY <1>10
  <2>2. v[k].kind = "image" /\ v[k].at = m[l]
    BY <2>1, ImageIs, Zenon
  <2>3. m[l] \in snaps /\ Host(m[l]) \in 1..h
    BY <1>1 DEF Imaged, c
  <2> QED
    BY <2>2, <2>3
<1>12. ASSUME NEW j PROVE Showing(v, j) = Showing(o, j)
  <2>1. \A k \in 1..(n + c) : k \notin 1..n => ~Shows(v[k], j)
    BY <1>11 DEF Shows
  <2>2. \A k : k \in Showing(v, j) <=> k \in Showing(o, j)
    BY <1>6, <1>7, <2>1 DEF Showing, n
  <2> QED
    BY <2>2 DEF Showing
<1>13. ASSUME NEW t PROVE Imaging(v, t) = Imaging(o, t) \cup {n + l : l \in Waiting(m, t)}
  <2>1. \A k \in 1..n : k \in Imaging(v, t) <=> k \in Imaging(o, t)
    BY <1>6, <1>7 DEF Imaging, n
  <2>2. ASSUME NEW l \in 1..c PROVE n + l \in Imaging(v, t) <=> l \in Waiting(m, t)
    <3>1. n + l \in 1..(n + c) /\ v[n + l] = Summary!Image(m[l])
      BY <1>8
    <3>2. n + l \in Imaging(v, t) <=> Summary!Image(m[l]) = Summary!Image(t)
      BY <1>6, <3>1 DEF Imaging
    <3> QED
      BY <3>2, ImageIs DEF Waiting, c
  <2>3. \A k \in Imaging(v, t) : k \in 1..(n + c)
    BY <1>6 DEF Imaging
  <2>4. \A k \in Imaging(o, t) : k \in 1..n
    BY DEF Imaging, n
  <2>5. \A l \in Waiting(m, t) : l \in 1..c
    BY DEF Waiting, c
  <2>6. ASSUME NEW k \in Imaging(v, t) PROVE k \in Imaging(o, t) \cup {n + l : l \in Waiting(m, t)}
    BY <1>9, <2>1, <2>2, <2>3, <2>6
  <2>7. ASSUME NEW k \in Imaging(o, t) \cup {n + l : l \in Waiting(m, t)} PROVE k \in Imaging(v, t)
    BY <2>1, <2>2, <2>4, <2>5, <2>7
  <2> QED
    BY <2>6, <2>7
<1>14. ShownOnce(v, {}, i)
  <2>1. \A k \in 1..(n + c) : \A j : Shows(v[k], j) => j \in 1..i
    <3>1. \A k \in 1..n : \A j : Shows(o[k], j) => j \in 1..i
      BY <1>1 DEF ShownOnce, n
    <3> QED
      BY <1>7, <1>11, <3>1 DEF Shows
  <2>2. \A j \in 1..i : Once(Showing(v, j))
    BY <1>1, <1>12 DEF ShownOnce
  <2> QED
    BY <1>6, <2>1, <2>2 DEF ShownOnce
<1>15. Ascends(v, {})
  <2>1. ASSUME NEW k \in 1..(n + c), NEW l \in 1..(n + c), v[k].kind = "text", v[l].kind = "text", k < l
        PROVE  \A a \in v[k].of, b \in v[l].of : a < b
    <3>1. k \in 1..n /\ l \in 1..n
      BY <1>11, <2>1
    <3> QED
      BY <1>1, <1>7, <2>1, <3>1 DEF Ascends, n
  <2> QED
    BY <1>6, <2>1 DEF Ascends
<1>16. Imaged(v, <<>>, h)
  <2>1. ASSUME NEW t \in snaps, Host(t) \in 1..h PROVE Waiting(<<>>, t) = {} /\ Once(Imaging(v, t))
    <3>1. Waiting(<<>>, t) = {}
      BY DEF Waiting
    <3>2. CASE Waiting(m, t) = {} /\ Once(Imaging(o, t))
      <4>1. Imaging(v, t) = Imaging(o, t)
        BY <1>13, <3>2
      <4> QED
        BY <3>1, <3>2, <4>1
    <3>3. CASE Imaging(o, t) = {} /\ Once(Waiting(m, t))
      <4>1. PICK l : Waiting(m, t) = {l}
        BY <3>3 DEF Once
      <4>2. Imaging(v, t) = {n + l}
        BY <1>13, <3>3, <4>1
      <4> QED
        BY <3>1, <4>2 DEF Once
    <3> QED
      BY <1>1, <2>1, <3>2, <3>3 DEF Imaged
  <2>2. \A k \in 1..n : o[k].kind = "image" => o[k].at \in snaps /\ Host(o[k].at) \in 1..h
    BY <1>1 DEF Imaged, n
  <2>3. \A k \in 1..(n + c) : v[k].kind = "image" => v[k].at \in snaps /\ Host(v[k].at) \in 1..h
    BY <1>7, <1>11, <2>2
  <2>4. \A k \in 1..Len(<<>>) : FALSE
    OBVIOUS
  <2> QED
    BY <1>6, <2>1, <2>3, <2>4 DEF Imaged
<1>17. Around(v, {}, <<>>)
  <2>1. ASSUME NEW k \in 1..(n + c), NEW l \in 1..(n + c), v[k].kind = "image", l > k, v[l].kind = "text"
        PROVE  \A a \in v[l].of : a > Host(v[k].at)
    <3>1. l \in 1..n
      BY <1>11, <2>1
    <3>2. k \in 1..n
      BY <1>6, <2>1, <3>1
    <3> QED
      BY <1>1, <1>7, <2>1, <3>1, <3>2 DEF Around, n
  <2>2. ASSUME NEW k \in 1..(n + c), NEW l \in 1..(n + c), v[k].kind = "image", l < k, v[l].kind = "chapter"
        PROVE  v[l].of <= Host(v[k].at)
    <3>1. l \in 1..n /\ v[l] = o[l]
      BY <1>7, <1>11, <2>2
    <3>2. CASE k \in 1..n
      BY <1>1, <1>7, <2>2, <3>1, <3>2 DEF Around, n
    <3>3. CASE k \notin 1..n
      <4>1. PICK b \in 1..c : v[k] = Summary!Image(m[b])
        BY <1>10, <3>3
      <4>2. v[k].at = m[b]
        BY <4>1, ImageIs
      <4> QED
        BY <1>1, <2>2, <3>1, <4>2 DEF Around, n, c
    <3> QED
      BY <3>2, <3>3
  <2>3. \A k \in 1..Len(<<>>) : FALSE
    OBVIOUS
  <2> QED
    BY <1>6, <2>1, <2>2, <2>3 DEF Around
<1>18. <<>> \in Seq(Nat)
  OBVIOUS
<1> QED
  BY <1>1, <1>6, <1>14, <1>15, <1>16, <1>17, <1>18 DEF Walked, v, x

\* A chapter is written, when nothing is open and nothing waits.
LEMMA ChapterWritten ==
    ASSUME NEW o, NEW i, NEW h, Walked(o, {}, <<>>, i, h)
    PROVE  Walked(Append(o, Summary!Chapter(i + 1)), {}, <<>>, i + 1, h)
<1> DEFINE p == Summary!Chapter(i + 1)
           v == Append(o, p)
           n == Len(o)
<1>1. /\ o \in Seq(PieceSet) /\ <<>> \in Seq(Nat) /\ i \in Nat /\ h \in Nat /\ h <= i
      /\ ShownOnce(o, {}, i) /\ Ascends(o, {}) /\ Imaged(o, <<>>, h) /\ Around(o, {}, <<>>)
  BY DEF Walked
<1>2. p \in PieceSet /\ p.kind = "chapter" /\ (\A t : p # Summary!Image(t)) /\ \A j : Shows(p, j) <=> j = i + 1
  BY <1>1 DEF Summary!Chapter, Summary!Image, PieceSet, Shows
<1> HIDE DEF p
<1>3. v \in Seq(PieceSet) /\ n \in Nat /\ Len(v) = n + 1 /\ v[n + 1] = p /\ \A k \in 1..n : v[k] = o[k]
  BY <1>1, <1>2, AppendProperties
<1>4. \A j : Showing(v, j) = IF j = i + 1 THEN Showing(o, j) \cup {n + 1} ELSE Showing(o, j)
  BY <1>1, <1>2, ShowingMore
<1>5. \A t : Imaging(v, t) = Imaging(o, t)
  BY <1>1, <1>2, ImagingMore
<1> HIDE DEF v
<1>6. \A k \in 1..(n + 1) : (k \in 1..n /\ v[k] = o[k] /\ k # n + 1) \/ (k = n + 1 /\ v[k] = p)
  BY <1>3
<1>7. Len(<<>>) = 0 /\ h <= i + 1 /\ i + 1 \in Nat
  BY <1>1
<1>8. ShownOnce(v, {}, i + 1)
  <2>1. \A k \in 1..n : \A j : Shows(o[k], j) => j \in 1..i
    BY <1>1 DEF ShownOnce, n
  <2>2. Showing(o, i + 1) = {}
    <3>1. i + 1 \notin 1..i
      BY <1>1
    <3> QED
      BY <2>1, <3>1 DEF Showing, n
  <2>3. ASSUME NEW j \in 1..(i + 1) PROVE Once(Showing(v, j))
    <3>1. CASE j = i + 1
      BY <1>4, <2>2, <3>1 DEF Once
    <3>2. CASE j # i + 1
      <4>1. j \in 1..i
        BY <1>1, <3>2
      <4> QED
        BY <1>1, <1>4, <3>2, <4>1 DEF ShownOnce
    <3> QED
      BY <3>1, <3>2
  <2>4. ASSUME NEW k \in 1..(n + 1), NEW j, Shows(v[k], j) PROVE j \in 1..(i + 1)
    <3>1. j \in 1..i \/ j = i + 1
      BY <1>2, <1>6, <2>1, <2>4
    <3> QED
      BY <1>1, <3>1
  <2> QED
    BY <1>3, <2>3, <2>4 DEF ShownOnce
<1>9. Ascends(v, {})
  <2>1. ASSUME NEW k \in 1..(n + 1), NEW l \in 1..(n + 1), v[k].kind = "text", v[l].kind = "text", k < l
        PROVE  \A a \in v[k].of, b \in v[l].of : a < b
    <3>1. k \in 1..n /\ l \in 1..n /\ v[k] = o[k] /\ v[l] = o[l]
      BY <1>2, <1>6, <2>1
    <3> QED
      BY <1>1, <2>1, <3>1 DEF Ascends, n
  <2> QED
    BY <1>3, <2>1 DEF Ascends
<1>10. Imaged(v, <<>>, h)
  <2>1. \A k \in 1..(n + 1) : v[k].kind = "image" => v[k].at \in snaps /\ Host(v[k].at) \in 1..h
    BY <1>1, <1>2, <1>6 DEF Imaged, n
  <2>2. \A t \in snaps : Host(t) \in 1..h =>
          \/ Waiting(<<>>, t) = {} /\ Once(Imaging(v, t))
          \/ Imaging(v, t) = {} /\ Once(Waiting(<<>>, t))
    BY <1>1, <1>5 DEF Imaged
  <2> QED
    BY <1>1, <1>3, <2>1, <2>2 DEF Imaged
<1>11. Around(v, {}, <<>>)
  <2>1. ASSUME NEW k \in 1..(n + 1), NEW l \in 1..(n + 1), v[k].kind = "image", l > k, v[l].kind = "text"
        PROVE  \A a \in v[l].of : a > Host(v[k].at)
    <3>1. k \in 1..n /\ l \in 1..n /\ v[k] = o[k] /\ v[l] = o[l]
      BY <1>2, <1>6, <2>1
    <3> QED
      BY <1>1, <2>1, <3>1 DEF Around, n
  <2>2. ASSUME NEW k \in 1..(n + 1), NEW l \in 1..(n + 1), v[k].kind = "image", l < k, v[l].kind = "chapter"
        PROVE  v[l].of <= Host(v[k].at)
    <3>1. k \in 1..n /\ v[k] = o[k]
      BY <1>2, <1>6, <2>2
    <3>2. l \in 1..n /\ v[l] = o[l]
      BY <1>3, <2>2, <3>1
    <3> QED
      BY <1>1, <2>2, <3>1, <3>2 DEF Around, n
  <2> QED
    BY <1>3, <1>7, <2>1, <2>2 DEF Around
<1> QED
  BY <1>1, <1>3, <1>7, <1>8, <1>9, <1>10, <1>11 DEF Walked, v, p

\* A line is added to the open text.
LEMMA LineHeld ==
    ASSUME NEW o, NEW S, NEW m, NEW i, NEW h, Walked(o, S, m, i, h)
    PROVE  Walked(o, S \cup {i + 1}, m, i + 1, h)
<1> DEFINE n == Len(o)
           U == S \cup {i + 1}
<1>1. /\ o \in Seq(PieceSet) /\ m \in Seq(Nat) /\ i \in Nat /\ h \in Nat /\ h <= i
      /\ ShownOnce(o, S, i) /\ Ascends(o, S) /\ Imaged(o, m, h) /\ Around(o, S, m)
  BY DEF Walked
<1>2. n \in Nat /\ i + 1 \in Nat /\ h <= i + 1 /\ i + 1 \notin 1..i /\ \A j : j \in 1..(i + 1) <=> j \in 1..i \/ j = i + 1
  BY <1>1
<1>3. \A k \in 1..n : \A j : Shows(o[k], j) => j \in 1..i
  BY <1>1 DEF ShownOnce
<1>4. ShownOnce(o, U, i + 1)
  <2>1. U \in SUBSET (1..(i + 1)) /\ i + 1 \notin S
    BY <1>1, <1>2 DEF ShownOnce
  <2>2. Showing(o, i + 1) = {}
    BY <1>2, <1>3 DEF Showing
  <2>3. ASSUME NEW j \in 1..(i + 1) PROVE IF j \in U THEN Showing(o, j) = {} ELSE Once(Showing(o, j))
    <3>1. CASE j = i + 1
      BY <2>2, <3>1
    <3>2. CASE j # i + 1
      BY <1>1, <1>2, <3>2 DEF ShownOnce
    <3> QED
      BY <3>1, <3>2
  <2>4. \A k \in 1..n : \A j : Shows(o[k], j) => j \in 1..(i + 1)
    BY <1>2, <1>3
  <2> QED
    BY <2>1, <2>3, <2>4 DEF ShownOnce
<1>5. Ascends(o, U)
  <2>1. ASSUME NEW k \in 1..n, o[k].kind = "text", NEW a \in o[k].of, NEW b \in U PROVE a < b
    <3>1. CASE b \in S
      BY <1>1, <2>1, <3>1 DEF Ascends
    <3>2. CASE b = i + 1
      <4>1. a \in 1..i
        BY <1>3, <2>1 DEF Shows
      <4> QED
        BY <1>1, <3>2, <4>1
    <3> QED
      BY <3>1, <3>2
  <2> QED
    BY <1>1, <2>1 DEF Ascends
<1>6. Around(o, U, m)
  <2>1. ASSUME NEW k \in 1..n, o[k].kind = "image", NEW b \in U PROVE b > Host(o[k].at)
    <3>1. CASE b \in S
      BY <1>1, <2>1, <3>1 DEF Around
    <3>2. CASE b = i + 1
      <4>1. Host(o[k].at) \in 1..h
        BY <1>1, <2>1 DEF Imaged
      <4> QED
        BY <1>1, <3>2, <4>1
    <3> QED
      BY <3>1, <3>2
  <2> QED
    BY <1>1, <2>1 DEF Around
<1> QED
  BY <1>1, <1>2, <1>4, <1>5, <1>6 DEF Walked

\* The snapshots of the line wait behind the others.
LEMMA ImagesHeld ==
    ASSUME NEW o, NEW S, NEW m, NEW i \in Nat, Walked(o, S, m, i + 1, i),
           NEW q \in Seq(Nat), \A t \in snaps : IF Host(t) = i + 1 THEN Once(Waiting(q, t)) ELSE Waiting(q, t) = {},
           \A k \in 1..Len(q) : q[k] \in snaps /\ Host(q[k]) = i + 1
    PROVE  Walked(o, S, m \o q, i + 1, i + 1)
<1> DEFINE v == m \o q
           n == Len(m)
           c == Len(q)
           g == Len(o)
<1>1. /\ o \in Seq(PieceSet) /\ m \in Seq(Nat)
      /\ ShownOnce(o, S, i + 1) /\ Ascends(o, S) /\ Imaged(o, m, i) /\ Around(o, S, m)
  BY DEF Walked
<1>2. i + 1 \in Nat /\ i + 1 <= i + 1 /\ i + 1 \notin 1..i /\ \A j : j \in 1..(i + 1) <=> j \in 1..i \/ j = i + 1
  OBVIOUS
<1>3. n \in Nat /\ c \in Nat /\ g \in Nat
  BY <1>1
<1>4. v \in Seq(Nat) /\ Len(v) = n + c /\ \A k \in 1..(n + c) : v[k] = IF k <= n THEN m[k] ELSE q[k - n]
  BY <1>1, ConcatProperties
<1> HIDE DEF v, n, c
<1>5. \A k \in 1..n : k \in 1..(n + c) /\ v[k] = m[k]
  BY <1>3, <1>4
<1>6. ASSUME NEW k \in 1..c PROVE n + k \in 1..(n + c) /\ v[n + k] = q[k]
  <2>1. n + k \in 1..(n + c) /\ ~(n + k <= n) /\ (n + k) - n = k
    BY <1>3
  <2> QED
    BY <1>4, <2>1
<1>7. ASSUME NEW k \in 1..(n + c) PROVE k \in 1..n \/ \E l \in 1..c : k = n + l
  <2>1. CASE k <= n
    BY <1>3, <2>1
  <2>2. CASE ~(k <= n)
    <3>1. k - n \in 1..c /\ k = n + (k - n)
      BY <1>3, <2>2
    <3> QED
      BY <3>1
  <2> QED
    BY <2>1, <2>2
<1>8. ASSUME NEW t PROVE Waiting(v, t) = Waiting(m, t) \cup {n + l : l \in Waiting(q, t)}
  <2>1. \A k \in 1..n : k \in Waiting(v, t) <=> k \in Waiting(m, t)
    BY <1>4, <1>5 DEF Waiting, n
  <2>2. \A l \in 1..c : n + l \in Waiting(v, t) <=> l \in Waiting(q, t)
    BY <1>4, <1>6 DEF Waiting, c
  <2>3. \A k \in Waiting(v, t) : k \in 1..(n + c)
    BY <1>4 DEF Waiting
  <2>4. \A k \in Waiting(m, t) : k \in 1..n
    BY DEF Waiting, n
  <2>5. \A l \in Waiting(q, t) : l \in 1..c
    BY DEF Waiting, c
  <2>6. ASSUME NEW k \in Waiting(v, t) PROVE k \in Waiting(m, t) \cup {n + l : l \in Waiting(q, t)}
    BY <1>7, <2>1, <2>2, <2>3, <2>6
  <2>7. ASSUME NEW k \in Waiting(m, t) \cup {n + l : l \in Waiting(q, t)} PROVE k \in Waiting(v, t)
    BY <2>1, <2>2, <2>4, <2>5, <2>7
  <2> QED
    BY <2>6, <2>7
<1>9. \A k \in 1..n : m[k] \in snaps /\ Host(m[k]) \in 1..i
  BY <1>1 DEF Imaged, n
<1>10. \A k \in 1..c : q[k] \in snaps /\ Host(q[k]) = i + 1
  BY DEF c
<1>11. \A k \in 1..g : o[k].kind = "image" => o[k].at \in snaps /\ Host(o[k].at) \in 1..i
  BY <1>1 DEF Imaged
<1>12. \A k \in 1..(n + c) : v[k] \in snaps /\ Host(v[k]) \in 1..(i + 1)
  <2> SUFFICES ASSUME NEW k \in 1..(n + c) PROVE v[k] \in snaps /\ Host(v[k]) \in 1..(i + 1)
    OBVIOUS
  <2>1. CASE k \in 1..n
    BY <1>2, <1>5, <1>9, <2>1
  <2>2. ASSUME NEW l \in 1..c, k = n + l PROVE v[k] \in snaps /\ Host(v[k]) \in 1..(i + 1)
    BY <1>2, <1>6, <1>10, <2>2
  <2> QED
    BY <1>7, <2>1, <2>2
<1>13. Imaged(o, v, i + 1)
  <2>1. ASSUME NEW t \in snaps, Host(t) \in 1..(i + 1)
        PROVE  \/ Waiting(v, t) = {} /\ Once(Imaging(o, t))
               \/ Imaging(o, t) = {} /\ Once(Waiting(v, t))
    <3>1. CASE Host(t) = i + 1
      <4>1. Waiting(m, t) = {}
        BY <1>2, <1>9, <3>1 DEF Waiting, n
      <4>2. Imaging(o, t) = {}
        <5>1. \A k \in 1..g : o[k] # Summary!Image(t)
          BY <1>2, <1>11, <3>1, ImageIs
        <5> QED
          BY <5>1 DEF Imaging
      <4>3. PICK l : Waiting(q, t) = {l}
        BY <3>1 DEF Once
      <4>4. Waiting(v, t) = {n + l}
        BY <1>8, <4>1, <4>3
      <4> QED
        BY <4>2, <4>4 DEF Once
    <3>2. CASE Host(t) # i + 1
      <4>1. Host(t) \in 1..i
        BY <1>2, <2>1, <3>2
      <4>2. Waiting(q, t) = {}
        BY <3>2
      <4>3. Waiting(v, t) = Waiting(m, t)
        BY <1>8, <4>2
      <4> QED
        BY <1>1, <4>1, <4>3 DEF Imaged
    <3> QED
      BY <3>1, <3>2
  <2>2. \A k \in 1..g : o[k].kind = "image" => o[k].at \in snaps /\ Host(o[k].at) \in 1..(i + 1)
    BY <1>2, <1>11
  <2> QED
    BY <1>4, <1>12, <2>1, <2>2 DEF Imaged
<1>14. Around(o, S, v)
  <2>1. ASSUME NEW k \in 1..g, o[k].kind = "chapter", NEW l \in 1..(n + c) PROVE o[k].of <= Host(v[l])
    <3>1. CASE l \in 1..n
      BY <1>1, <1>5, <2>1, <3>1 DEF Around, n
    <3>2. ASSUME NEW b \in 1..c, l = n + b PROVE o[k].of <= Host(v[l])
      <4>1. Host(v[l]) = i + 1
        BY <1>6, <1>10, <3>2
      <4>2. o[k].of \in 1..(i + 1)
        BY <1>1, <2>1 DEF ShownOnce, Shows
      <4> QED
        BY <4>1, <4>2
    <3> QED
      BY <1>7, <3>1, <3>2
  <2> QED
    BY <1>1, <1>4, <2>1 DEF Around
<1> QED
  BY <1>1, <1>2, <1>4, <1>13, <1>14 DEF Walked, v

WalkState == [out : Seq(PieceSet), open : SUBSET Nat, images : Seq(Nat), waited : Nat]

\* Where the walk is after line i, with the snapshots up to line h.
WalkedTo(w, i, h) == w \in WalkState /\ Walked(w.out, w.open, w.images, i, h)

\* What the walk has put out, holds open and lets wait makes a state of it.
LEMMA StateIs ==
    ASSUME NEW o \in Seq(PieceSet), NEW S \in SUBSET Nat, NEW m \in Seq(Nat), NEW z \in Nat
    PROVE  [out |-> o, open |-> S, images |-> m, waited |-> z] \in WalkState
  BY DEF WalkState

\* What is flushed is put out, and nothing is open or waits.
LEMMA FlushedIs ==
    ASSUME NEW w \in WalkState
    PROVE  /\ Summary!Flushed(w) \in WalkState
           /\ Summary!Flushed(w).open = {} /\ Summary!Flushed(w).images = <<>>
           /\ \A i, h : Walked(w.out, w.open, w.images, i, h) => Walked(Summary!Flushed(w).out, {}, <<>>, i, h)
<1> DEFINE o == w.out
           S == w.open
           m == w.images
           e == IF S = {} THEN <<>> ELSE <<Summary!Text(S)>>
           x == o \o e
           y == x \o ImagesOf(m)
           v == Summary!Flushed(w)
<1>1. o \in Seq(PieceSet) /\ S \in SUBSET Nat /\ m \in Seq(Nat)
  BY DEF WalkState
<1>2. v = [out |-> y, open |-> {}, images |-> <<>>, waited |-> 0]
  BY DEF Summary!Flushed, ImagesOf
<1>3. Summary!Text(S) \in PieceSet
  BY <1>1 DEF Summary!Text, PieceSet
<1>4. x = IF S = {} THEN o ELSE Append(o, Summary!Text(S))
  <2>1. CASE S = {}
    <3>1. o \o <<>> = o
      BY <1>1, ConcatEmptySeq
    <3> QED
      BY <2>1, <3>1
  <2>2. CASE S # {}
    <3>1. o \o <<Summary!Text(S)>> = Append(o, Summary!Text(S))
      BY <1>1, <1>3, AppendIsConcat
    <3> QED
      BY <2>2, <3>1
  <2> QED
    BY <2>1, <2>2
<1> HIDE DEF x, e
<1>5. x \in Seq(PieceSet)
  BY <1>1, <1>3, <1>4, AppendProperties
<1>6. ImagesOf(m) \in Seq(PieceSet)
  <2>1. DOMAIN m = 1..Len(m) /\ Len(m) \in Nat /\ \A k \in 1..Len(m) : m[k] \in Nat
    BY <1>1
  <2>2. ImagesOf(m) = [k \in 1..Len(m) |-> Summary!Image(m[k])]
    BY <2>1 DEF ImagesOf
  <2>3. \A k \in 1..Len(m) : Summary!Image(m[k]) \in PieceSet
    BY <2>1 DEF Summary!Image, PieceSet
  <2> HIDE DEF m
  <2> QED
    BY <2>1, <2>2, <2>3
<1>7. y \in Seq(PieceSet)
  BY <1>5, <1>6, ConcatProperties
<1>8. ASSUME NEW i, NEW h, Walked(o, S, m, i, h) PROVE Walked(y, {}, <<>>, i, h)
  <2>1. Walked(x, {}, m, i, h)
    BY <1>4, <1>8, TextWritten
  <2> QED
    BY <2>1, ImagesWritten
<1> HIDE DEF y
<1>9. <<>> \in Seq(Nat) /\ {} \in SUBSET Nat /\ 0 \in Nat
  OBVIOUS
<1>10. v \in WalkState
  BY <1>2, <1>7, <1>9, StateIs
<1>11. v.out = y /\ v.open = {} /\ v.images = <<>>
  BY <1>2
<1> HIDE DEF v
<1> QED
  BY <1>8, <1>10, <1>11 DEF v, o, S, m

\* One line further.
LEMMA AtLineIs ==
    ASSUME NEW w \in WalkState, NEW i \in Nat
    PROVE  /\ Summary!AtLine(w, i + 1) \in WalkState
           /\ WalkedTo(w, i, i) => WalkedTo(Summary!AtLine(w, i + 1), i + 1, i)
<1>1. ASSUME NEW z \in WalkState, Summary!Chapter(i + 1) \in PieceSet
      PROVE  /\ [z EXCEPT !.out = Append(@, Summary!Chapter(i + 1))] \in WalkState
             /\ [z EXCEPT !.out = Append(@, Summary!Chapter(i + 1))].out = Append(z.out, Summary!Chapter(i + 1))
             /\ [z EXCEPT !.out = Append(@, Summary!Chapter(i + 1))].open = z.open
             /\ [z EXCEPT !.out = Append(@, Summary!Chapter(i + 1))].images = z.images
  <2>1. Append(z.out, Summary!Chapter(i + 1)) \in Seq(PieceSet)
    BY <1>1, AppendProperties DEF WalkState
  <2> QED
    BY <2>1 DEF WalkState
<1>2. CASE lines[i + 1].kind = "chapter"
  <2> DEFINE z == Summary!Flushed(w)
  <2>1. Summary!Chapter(i + 1) \in PieceSet
    BY DEF Summary!Chapter, PieceSet
  <2>2. /\ z \in WalkState /\ z.open = {} /\ z.images = <<>>
        /\ Walked(w.out, w.open, w.images, i, i) => Walked(z.out, {}, <<>>, i, i)
    BY FlushedIs
  <2>3. Summary!AtLine(w, i + 1) = [z EXCEPT !.out = Append(@, Summary!Chapter(i + 1))]
    BY <1>2 DEF Summary!AtLine
  <2> HIDE DEF z
  <2>4. /\ Summary!AtLine(w, i + 1) \in WalkState
        /\ Summary!AtLine(w, i + 1).out = Append(z.out, Summary!Chapter(i + 1))
        /\ Summary!AtLine(w, i + 1).open = {} /\ Summary!AtLine(w, i + 1).images = <<>>
    BY <1>1, <2>1, <2>2, <2>3
  <2>5. ASSUME Walked(w.out, w.open, w.images, i, i)
        PROVE  Walked(Append(z.out, Summary!Chapter(i + 1)), {}, <<>>, i + 1, i)
    BY <2>2, <2>5, ChapterWritten
  <2> QED
    BY <2>4, <2>5 DEF WalkedTo
<1>3. CASE lines[i + 1].kind # "chapter"
  <2> DEFINE held == [w EXCEPT !.open = @ \cup {i + 1}, !.waited = IF w.images = <<>> THEN @ ELSE @ + 1]
             S == w.open \cup {i + 1}
             z == IF w.images = <<>> THEN w.waited ELSE w.waited + 1
  <2>1. w.out \in Seq(PieceSet) /\ w.open \in SUBSET Nat /\ w.images \in Seq(Nat) /\ w.waited \in Nat
    BY DEF WalkState
  <2>2. S \in SUBSET Nat /\ z \in Nat
    BY <2>1
  <2>3. \A x \in SUBSET Nat, y \in Nat :
          LET u == [w EXCEPT !.open = x, !.waited = y]
          IN  u \in WalkState /\ u.out = w.out /\ u.open = x /\ u.images = w.images
    BY DEF WalkState
  <2>4. held = [w EXCEPT !.open = S, !.waited = z]
    OBVIOUS
  <2> HIDE DEF held, S, z
  <2>5. held \in WalkState /\ held.out = w.out /\ held.open = w.open \cup {i + 1} /\ held.images = w.images
    BY <2>2, <2>3, <2>4 DEF S
  <2>6. Summary!AtLine(w, i + 1) =
          IF w.images # <<>> /\ (lines[i + 1].ends \/ held.waited >= 3) THEN Summary!Flushed(held) ELSE held
    BY <1>3 DEF Summary!AtLine, held
  <2>7. ASSUME WalkedTo(w, i, i) PROVE Walked(held.out, held.open, held.images, i + 1, i)
    BY <2>5, <2>7, LineHeld DEF WalkedTo
  <2>8. /\ Summary!Flushed(held) \in WalkState
        /\ WalkedTo(w, i, i) => WalkedTo(Summary!Flushed(held), i + 1, i)
    BY <2>5, <2>7, FlushedIs DEF WalkedTo
  <2>9. WalkedTo(w, i, i) => WalkedTo(held, i + 1, i)
    BY <2>5, <2>7 DEF WalkedTo
  <2> QED
    BY <2>5, <2>6, <2>8, <2>9
<1> QED
  BY <1>2, <1>3

\* The snapshots of a line.
At(i) == {t \in snaps : Host(t) = i}

\* And its snapshots.
LEMMA AtImagesIs ==
    ASSUME SummaryInv, NEW w \in WalkState, NEW i \in Nat
    PROVE  /\ Summary!AtImages(w, i + 1) \in WalkState
           /\ WalkedTo(w, i + 1, i) => WalkedTo(Summary!AtImages(w, i + 1), i + 1, i + 1)
<1> DEFINE q == Summary!InOrder(At(i + 1))
<1>1. At(i + 1) \in SUBSET Nat /\ IsFiniteSet(At(i + 1))
  <2>1. snaps \in SUBSET Nat /\ IsFiniteSet(snaps) /\ At(i + 1) \in SUBSET snaps
    BY TextAssumption DEF SummaryInv, At
  <2> QED
    BY <2>1, FS_Subset
<1>2. q \in Seq(At(i + 1)) /\ \A t \in At(i + 1) : Once(Waiting(q, t))
  BY <1>1, InOrderIs
<1>3. Summary!AtImages(w, i + 1) = IF q = <<>> THEN w ELSE [w EXCEPT !.images = @ \o q, !.waited = 0]
  BY DEF Summary!AtImages, At, Host
<1> HIDE DEF q
<1>4. Len(q) \in Nat /\ \A k \in 1..Len(q) : q[k] \in At(i + 1)
  BY <1>2
<1>5. q \in Seq(Nat)
  <2>1. \A k \in 1..Len(q) : q[k] \in Nat
    BY <1>1, <1>4
  <2>2. q = [k \in 1..Len(q) |-> q[k]]
    BY <1>2
  <2> QED
    BY <1>4, <2>1, <2>2
<1>6. \A t \in snaps : IF Host(t) = i + 1 THEN Once(Waiting(q, t)) ELSE Waiting(q, t) = {}
  BY <1>2, <1>4 DEF At, Waiting
<1>7. \A k \in 1..Len(q) : q[k] \in snaps /\ Host(q[k]) = i + 1
  BY <1>4 DEF At
<1>8. w.out \in Seq(PieceSet) /\ w.open \in SUBSET Nat /\ w.images \in Seq(Nat) /\ w.waited \in Nat
  BY DEF WalkState
<1>9. ASSUME WalkedTo(w, i + 1, i) PROVE Walked(w.out, w.open, w.images \o q, i + 1, i + 1)
  BY <1>5, <1>6, <1>7, <1>9, ImagesHeld DEF WalkedTo
<1>10. CASE q = <<>>
  <2>1. w.images \o q = w.images
    BY <1>8, <1>10, ConcatEmptySeq
  <2> QED
    BY <1>3, <1>9, <1>10, <2>1 DEF WalkedTo
<1>11. CASE q # <<>>
  <2> DEFINE v == [w EXCEPT !.images = @ \o q, !.waited = 0]
  <2>1. w.images \o q \in Seq(Nat)
    BY <1>5, <1>8, ConcatProperties
  <2>2. v \in WalkState /\ v.out = w.out /\ v.open = w.open /\ v.images = w.images \o q
    BY <1>8, <2>1 DEF WalkState
  <2>3. Summary!AtImages(w, i + 1) = v
    BY <1>3, <1>11
  <2> HIDE DEF v
  <2> QED
    BY <1>9, <2>2, <2>3 DEF WalkedTo
<1> QED
  BY <1>10, <1>11

\* A snapshot's own line is one of the lines.
LEMMA HostIs ==
    ASSUME SummaryInv, NEW t \in Nat
    PROVE  Host(t) \in 0..Len(lines)
<1> DEFINE S == {i \in DOMAIN lines : Summary!Timed(lines[i]) /\ lines[i].at <= t}
           T == {lines[i].at : i \in S}
<1>1. Len(lines) \in Nat /\ DOMAIN lines = 1..Len(lines) /\ \A i \in DOMAIN lines : lines[i].at \in Nat
  <2>1. lines \in Seq(TextLines)
    BY DEF SummaryInv
  <2>2. Len(lines) \in Nat /\ DOMAIN lines = 1..Len(lines) /\ \A i \in DOMAIN lines : lines[i] \in TextLines
    BY <2>1
  <2>3. \A l \in TextLines : l.at \in Nat
    BY DEF TextLines
  <2> QED
    BY <2>2, <2>3
<1>2. Host(t) = IF S = {} THEN 0 ELSE CHOOSE i \in S : \A j \in S : lines[j].at < lines[i].at
                                          \/ (lines[j].at = lines[i].at /\ i <= j)
  BY DEF Host, Summary!HostLine
<1>3. CASE S # {}
  <2>1. T \in SUBSET Nat /\ T # {} /\ \A k \in T : k <= t
    BY <1>1, <1>3
  <2>2. PICK m \in T : \A k \in T : k <= m
    BY <2>1, GreatestNat
  <2> DEFINE U == {i \in S : lines[i].at = m}
  <2>3. U \in SUBSET Nat /\ U # {}
    BY <1>1
  <2>4. PICK i \in U : \A k \in U : i <= k
    BY <2>3, LeastNat
  <2>5. i \in S /\ \A j \in S : lines[j].at < lines[i].at \/ (lines[j].at = lines[i].at /\ i <= j)
    <3>1. i \in S /\ lines[i].at = m /\ \A k \in S : lines[k].at = m => i <= k
      BY <2>4
    <3>2. \A j \in S : lines[j].at \in Nat /\ lines[j].at <= m /\ m \in Nat
      BY <1>1, <2>1, <2>2
    <3> HIDE DEF S
    <3> QED
      BY <3>1, <3>2
  <2>6. Host(t) \in S
    <3> HIDE DEF S
    <3> QED
      BY <1>2, <1>3, <2>5
  <2> QED
    BY <1>1, <2>6
<1> QED
  BY <1>1, <1>2, <1>3

\* The document of the fallback, as the walk over the lines puts it out.
LEMMA PiecesAre ==
    ASSUME SummaryInv
    PROVE  Walked(Summary!Pieces, {}, <<>>, Len(lines), Len(lines))
<1> DEFINE n == Len(lines)
           x == [out |-> <<>>, open |-> {}, images |-> <<>>, waited |-> 0]
           Def(f) == f = [i \in 0..n |-> IF i = 0 THEN x ELSE Summary!AtImages(Summary!AtLine(f[i - 1], i), i)]
           w == CHOOSE f : Def(f)
           S == [i \in 0..n |-> [q \in WalkState |-> IF i = 0 THEN x ELSE Summary!AtImages(Summary!AtLine(q, i), i)]]
<1>1. n \in Nat /\ 0 \in Int /\ n \in Int
  BY DEF SummaryInv
<1>2. x \in WalkState /\ WalkedTo(x, 0, 0)
  <2>1. <<>> \in Seq(PieceSet) /\ {} \in SUBSET Nat /\ <<>> \in Seq(Nat) /\ 0 \in Nat
    OBVIOUS
  <2>2. x \in WalkState
    BY <2>1, StateIs
  <2>3. ShownOnce(<<>>, {}, 0) /\ Ascends(<<>>, {}) /\ Around(<<>>, {}, <<>>)
    BY DEF ShownOnce, Ascends, Around
  <2>4. Imaged(<<>>, <<>>, 0)
    BY DEF Imaged
  <2>5. Walked(<<>>, {}, <<>>, 0, 0)
    BY <2>1, <2>3, <2>4 DEF Walked
  <2> QED
    BY <2>2, <2>5 DEF WalkedTo
<1>3. ASSUME NEW i \in Nat, NEW q \in WalkState
      PROVE  /\ Summary!AtImages(Summary!AtLine(q, i + 1), i + 1) \in WalkState
             /\ WalkedTo(q, i, i) => WalkedTo(Summary!AtImages(Summary!AtLine(q, i + 1), i + 1), i + 1, i + 1)
  <2> DEFINE z == Summary!AtLine(q, i + 1)
  <2>1. z \in WalkState /\ (WalkedTo(q, i, i) => WalkedTo(z, i + 1, i))
    BY AtLineIs
  <2> HIDE DEF z
  <2>2. Summary!AtImages(z, i + 1) \in WalkState /\ (WalkedTo(z, i + 1, i) => WalkedTo(Summary!AtImages(z, i + 1), i + 1, i + 1))
    BY <2>1, AtImagesIs
  <2> QED
    BY <2>1, <2>2 DEF z
<1>4. S \in [0..n -> [WalkState -> WalkState]] /\ \A i \in 0..n, q \in WalkState :
         S[i][q] = IF i = 0 THEN x ELSE Summary!AtImages(Summary!AtLine(q, i), i)
  <2>1. ASSUME NEW i \in 0..n, NEW q \in WalkState
        PROVE  (IF i = 0 THEN x ELSE Summary!AtImages(Summary!AtLine(q, i), i)) \in WalkState
    <3>1. CASE i # 0
      <4>1. i - 1 \in Nat /\ (i - 1) + 1 = i
        BY <1>1, <3>1
      <4>2. Summary!AtImages(Summary!AtLine(q, (i - 1) + 1), (i - 1) + 1) \in WalkState
        BY <1>3, <4>1
      <4> QED
        BY <3>1, <4>1, <4>2
    <3> QED
      BY <1>2, <3>1
  <2> HIDE DEF x, n
  <2> QED
    BY <2>1
<1> HIDE DEF S, x, n
<1>5. PICK g : Unfolds(g, 0, n, WalkState, x, S)
  BY <1>1, <1>2, <1>4, RecursionUpTo
<1>6. g \in [0..n -> WalkState] /\ \A i \in 0..n : g[i] = IF i = 0 THEN x ELSE S[i][g[i - 1]]
  BY <1>5 DEF Unfolds
<1>7. \A i \in 0..n : i # 0 => i - 1 \in 0..n
  BY <1>1
<1>8. \A i \in 0..n : g[i] = IF i = 0 THEN x ELSE Summary!AtImages(Summary!AtLine(g[i - 1], i), i)
  BY <1>4, <1>6, <1>7
<1>9. Def(g)
  BY <1>6, <1>8
<1>10. Summary!Walk = w[n]
  BY DEF Summary!Walk, n, x
<1> HIDE DEF Def
<1>11. Def(w)
  BY <1>9
<1> HIDE DEF w
<1>12. \A i \in 0..n : w[i] = IF i = 0 THEN x ELSE Summary!AtImages(Summary!AtLine(w[i - 1], i), i)
  BY <1>11 DEF Def
<1>13. \A i \in 0..n : WalkedTo(w[i], i, i)
  <2> DEFINE T == {i \in 0..n : WalkedTo(w[i], i, i)}
  <2>1. 0 <= n => 0 \in T
    BY <1>1, <1>2, <1>12
  <2>2. ASSUME NEW i \in 0..n, i \in T, i + 1 \in 0..n PROVE i + 1 \in T
    <3>1. i \in Nat /\ i + 1 # 0 /\ (i + 1) - 1 = i
      BY <2>2
    <3>2. w[i + 1] = Summary!AtImages(Summary!AtLine(w[i], i + 1), i + 1)
      BY <1>12, <2>2, <3>1
    <3>3. w[i] \in WalkState /\ WalkedTo(w[i], i, i)
      BY <2>2 DEF WalkedTo
    <3>4. WalkedTo(w[i + 1], i + 1, i + 1)
      BY <1>3, <3>1, <3>2, <3>3
    <3> QED
      BY <2>2, <3>4
  <2> HIDE DEF T
  <2>3. \A i \in 0..n : i \in T
    BY <1>1, <2>1, <2>2, Upwards
  <2> QED
    BY <2>3 DEF T
<1>14. WalkedTo(Summary!Walk, n, n)
  BY <1>1, <1>10, <1>13
<1>15. Walked(Summary!Flushed(Summary!Walk).out, {}, <<>>, n, n)
  BY <1>14, FlushedIs DEF WalkedTo
<1> QED
  BY <1>15 DEF Summary!Pieces, n

\* Where a line is once it is counted once.
LEMMA OnceCounted == ASSUME NEW T, Once(T) PROVE Summary!Cardinality(T) = 1
<1>1. PICK k : T = {k}
  BY DEF Once
<1>2. Summary!Cardinality({k}) = 1
  BY FS_Singleton DEF Summary!Cardinality, Cardinality
<1> QED
  BY <1>1, <1>2

\* A document the walk puts out has everything.
LEMMA WalkedKeepsAll ==
    ASSUME SummaryInv, Walked(plan, {}, <<>>, Len(lines), Len(lines))
    PROVE  Summary!FallbackKeepsAll
<1>1. /\ plan \in Seq(PieceSet) /\ ShownOnce(plan, {}, Len(lines)) /\ Ascends(plan, {})
      /\ Imaged(plan, <<>>, Len(lines)) /\ Around(plan, {}, <<>>)
  BY DEF Walked
<1>2. Len(lines) \in Nat /\ DOMAIN lines = 1..Len(lines) /\ Len(plan) \in Nat /\ DOMAIN plan = 1..Len(plan) /\ snaps \in SUBSET Nat
  BY <1>1, TextAssumption DEF SummaryInv
<1>3. ASSUME NEW i \in DOMAIN lines
      PROVE  Summary!Cardinality({k \in DOMAIN plan :
                  \/ plan[k].kind = "text" /\ i \in plan[k].of
                  \/ plan[k].kind = "chapter" /\ i = plan[k].of}) = 1
  <2>1. Once(Showing(plan, i))
    BY <1>1, <1>2 DEF ShownOnce
  <2>2. Showing(plan, i) = {k \in DOMAIN plan :
                  \/ plan[k].kind = "text" /\ i \in plan[k].of
                  \/ plan[k].kind = "chapter" /\ i = plan[k].of}
    BY <1>2 DEF Showing, Shows
  <2>3. Summary!Cardinality(Showing(plan, i)) = 1
    BY <2>1, OnceCounted
  <2> QED
    BY <2>2, <2>3
<1>4. \A k, l \in Summary!Texts : k < l => \A i \in plan[k].of, j \in plan[l].of : i < j
  BY <1>1, <1>2 DEF Ascends, Summary!Texts
<1>5. ASSUME NEW t \in snaps, Summary!HostLine(t) # 0
      PROVE  LET shown == {k \in DOMAIN plan : plan[k] = Summary!Image(t)}
             IN  /\ Summary!Cardinality(shown) = 1
                 /\ \A k \in shown, l \in DOMAIN plan :
                      /\ l > k /\ plan[l].kind = "text" => \A i \in plan[l].of : i > Summary!HostLine(t)
                      /\ l < k /\ plan[l].kind = "chapter" => plan[l].of <= Summary!HostLine(t)
  <2> DEFINE shown == {k \in DOMAIN plan : plan[k] = Summary!Image(t)}
  <2>1. shown = Imaging(plan, t)
    BY <1>2 DEF Imaging
  <2>2. Host(t) \in 1..Len(lines)
    BY <1>2, <1>5, HostIs DEF Host
  <2>3. Once(Imaging(plan, t))
    <3>1. ~Once(Waiting(<<>>, t))
      BY DEF Once, Waiting
    <3> QED
      BY <1>1, <2>2, <3>1 DEF Imaged
  <2>4. Summary!Cardinality(shown) = 1
    BY <2>1, <2>3, OnceCounted
  <2>5. ASSUME NEW k \in shown, NEW l \in DOMAIN plan
        PROVE  /\ l > k /\ plan[l].kind = "text" => \A i \in plan[l].of : i > Host(t)
               /\ l < k /\ plan[l].kind = "chapter" => plan[l].of <= Host(t)
    <3>1. plan[k].kind = "image" /\ plan[k].at = t /\ k \in 1..Len(plan) /\ l \in 1..Len(plan)
      BY <1>2, ImageIs
    <3> QED
      BY <1>1, <3>1 DEF Around
  <2> HIDE DEF shown
  <2>6. \A k \in shown, l \in DOMAIN plan :
                      /\ l > k /\ plan[l].kind = "text" => \A i \in plan[l].of : i > Summary!HostLine(t)
                      /\ l < k /\ plan[l].kind = "chapter" => plan[l].of <= Summary!HostLine(t)
    BY <2>5 DEF Host
  <2> QED
    BY <2>4, <2>6 DEF shown
<1> QED
  BY <1>3, <1>4, <1>5 DEF Summary!FallbackKeepsAll

\* The document of the fallback stays what the walk has put out.
FallbackInv ==
    /\ SummaryInv
    /\ pass = "single" => plan = Summary!Pieces
    /\ pass = "done" => plan = Summary!Pieces \/ plan \in Analyses

\* And no step of the run changes that.
LEMMA FallbackInvKept == FallbackInv /\ [Summary!Next]_(Summary!vars) => FallbackInv'
<1> SUFFICES ASSUME FallbackInv, [Summary!Next]_(Summary!vars) PROVE FallbackInv'
  OBVIOUS
<1>1. SummaryInv'
  BY SummaryInvKept DEF FallbackInv
<1>2. ASSUME lines' = lines, snaps' = snaps PROVE Summary!Pieces' = Summary!Pieces
  BY <1>2 DEF Summary!Pieces, Summary!Walk, Summary!AtImages, Summary!AtLine, Summary!HostLine, Summary!Flushed,
     Summary!InOrder, Summary!Chapter, Summary!Text, Summary!Image, Summary!Timed
<1>3. ASSUME pass' \notin {"single", "done"} PROVE FallbackInv'
  BY <1>1, <1>3 DEF FallbackInv
<1>4. ASSUME lines' = lines, snaps' = snaps, pass' = "single" /\ plan' = Summary!Pieces PROVE FallbackInv'
  BY <1>1, <1>2, <1>4 DEF FallbackInv
<1>5. ASSUME lines' = lines, snaps' = snaps, plan' = plan, pass' = pass PROVE FallbackInv'
  BY <1>1, <1>2, <1>5 DEF FallbackInv
<1>6. CASE Summary!Assemble
  BY <1>1, <1>2, <1>6 DEF FallbackInv, SummaryInv, Summary!Assemble
<1>7. ASSUME NEW s \in SUBSET snaps, Summary!Describe(s) PROVE FallbackInv'
  BY <1>3, <1>7 DEF Summary!Describe
<1>8. CASE Summary!Analyze \/ Summary!Cancelled
  BY <1>3, <1>8 DEF Summary!Analyze, Summary!Cancelled
<1>9. CASE Summary!AnalysisFails \/ Summary!SectionsFail
  BY <1>4, <1>9 DEF Summary!AnalysisFails, Summary!SectionsFail
<1>10. CASE Summary!Cancel \/ Summary!Copy \/ Summary!KeepLines
  BY <1>5, <1>10 DEF Summary!Cancel, Summary!Copy, Summary!KeepLines, Summary!Written
<1>11. ASSUME NEW r \in Replies, Summary!Reply(r) \/ Summary!OnlyReasoning(r) PROVE FallbackInv'
  BY <1>5, <1>11 DEF Summary!Reply, Summary!OnlyReasoning, Summary!Written
<1>12. CASE UNCHANGED Summary!vars
  BY <1>5, <1>12 DEF Summary!vars
<1> QED
  BY <1>6, <1>7, <1>8, <1>9, <1>10, <1>11, <1>12 DEF Summary!Next

\* When the sections of an analysis have been written there is nothing of the fallback
\* to look at.
LEMMA FallbackStands == FallbackInv => Summary!FallbackKeepsAll
<1> SUFFICES ASSUME FallbackInv PROVE Summary!FallbackKeepsAll
  OBVIOUS
<1>1. CASE plan = Summary!Pieces
  BY <1>1, PiecesAre, WalkedKeepsAll DEF FallbackInv
<1>2. CASE pass = "done" /\ plan \in Analyses
  <2>1. plan \in Seq(PlanSection)
    BY <1>2, TextAssumption DEF PlanSection
  <2>2. \A k \in DOMAIN plan : plan[k] \in PlanSection
    BY <2>1
  <2>3. \A s \in PlanSection : "kind" \notin DOMAIN s
    BY DEF PlanSection
  <2> QED
    BY <1>2, <2>2, <2>3 DEF Summary!FallbackKeepsAll
<1>3. CASE pass \notin {"single", "done"}
  BY <1>3 DEF Summary!FallbackKeepsAll
<1> QED
  BY <1>1, <1>2, <1>3 DEF FallbackInv

\* A document made without an analysis has every line once and in order, and every
\* snapshot that follows a line once, between that line and the next chapter.
THEOREM FallbackComplete == Spec => []FallbackKeepsAll
<1>1. Init /\ part = "summary" => FallbackInv
  BY TextAssumption DEF Init, Summary!Init, FallbackInv, SummaryInv, TextLines
<1>2. part = "summary" /\ [Next]_vars => (part = "summary")' /\ [Summary!Next]_(Summary!vars)
  BY DEF Next, vars, summaryVars, Summary!vars
<1>3. ~(part = "summary") /\ [Next]_vars => ~(part = "summary")'
  BY DEF Next, vars
<1> QED
  BY <1>1, <1>2, <1>3, FallbackInvKept, FallbackStands, PTL DEF Spec, FallbackKeepsAll

---------------------------------------------------------------------------------
(* LlmRoute *)

\* The endpoints that are asked, with the nodes they are asked for.
Stops == {Routes!Targets(manifest)[i] : i \in DOMAIN Routes!Targets(manifest)}

\* What a stop has to say of the manifest's profiles is in the inventory.
Answered(s) ==
    \A p \in manifest :
        (Routes!Local(p) /\ p.node = s.node /\ p.model = loaded[s.url]) => [p |-> p, at |-> s.url] \in inventory

FleetKnown == DOMAIN loaded = Endpoints /\ \A e \in Endpoints : <<e, loaded[e]>> \in was

\* A profile in the inventory was loaded where it has been found.
Confirmed ==
    \A o \in inventory :
        /\ o.p \in manifest /\ Routes!Local(o.p)
        /\ \E s \in Stops : s.node = o.p.node /\ s.url = o.at /\ <<o.at, o.p.model>> \in was

\* While the fleet stays as it is, a stop is still to be asked or has been heard.
AllHeard ==
    moves = 0 =>
        /\ listing # None => listing = Models
        /\ \A s \in Stops : (\E k \in DOMAIN asking : asking[k] = s) \/ Answered(s)

Asking == asking \in Seq(Stops) /\ (listing # None => asking # <<>>)

RouteInv ==
    /\ manifest \in Manifests /\ moves \in Nat
    /\ Routes!HasProfiles =>
         Asking /\ FleetKnown /\ Confirmed /\ AllHeard /\ Routes!RouteSound /\ Routes!NonePassedOver

\* The instance counts as the module does.
LEMMA RoutesCount == ASSUME NEW S PROVE Routes!Cardinality(S) = Cardinality(S)
  BY DEF Routes!Cardinality, Cardinality

\* The targets of a manifest are a sequence of endpoints of the fleet.
LEMMA TargetsAreStops ==
    ASSUME NEW m \in Manifests
    PROVE  /\ Routes!Targets(m) \in Seq({Routes!Targets(m)[i] : i \in DOMAIN Routes!Targets(m)})
           /\ \A i \in DOMAIN Routes!Targets(m) : Routes!Targets(m)[i].url \in Endpoints
<1> DEFINE known == {Home[i] : i \in DOMAIN Home}
           own   == {[node |-> p.node, url |-> p.url] : p \in {q \in m : Routes!Local(q) /\ q.url # None}}
           rest  == own \ known
           list  == Routes!SetToSeq(rest)
<1>1. IsFiniteSet(rest)
  <2>1. IsFiniteSet({q \in m : Routes!Local(q) /\ q.url # None})
    BY FleetAssumption, FS_Subset
  <2> DEFINE D == {q \in m : Routes!Local(q) /\ q.url # None}
             f == [p \in D |-> [node |-> p.node, url |-> p.url]]
  <2>2. f \in Surjection(D, own)
    BY DEF Surjection
  <2>3. IsFiniteSet(own)
    BY <2>1, <2>2, FS_Surjection
  <2> QED
    BY <2>3, FS_Subset
<1>2. list \in [1..Cardinality(rest) -> rest]
  <2>1. \E f \in [1..Cardinality(rest) -> rest] : Routes!IsInjective(f)
    BY <1>1, FS_CardinalityType DEF ExistsBijection, Bijection, Injection, IsInjective, Routes!IsInjective
  <2> QED
    BY <2>1, RoutesCount DEF Routes!SetToSeq, Routes!IsInjective
<1>3. list \in Seq(rest)
  <2>1. Cardinality(rest) \in Nat
    BY <1>1, FS_CardinalityType
  <2> HIDE DEF rest, list
  <2> QED
    BY <1>2, <2>1
<1>4. Home \in Seq(known \cup rest) /\ list \in Seq(known \cup rest)
  BY <1>3, FleetAssumption, SeqMonotonic
<1>5. Routes!Targets(m) = Home \o list
  BY DEF Routes!Targets
<1> HIDE DEF rest, list
<1>6. /\ Routes!Targets(m) \in Seq(known \cup rest)
      /\ \A i \in DOMAIN Routes!Targets(m) : Routes!Targets(m)[i] \in known \cup rest
  BY <1>4, <1>5, ConcatProperties
<1>7. \A s \in known \cup rest : s.url \in Endpoints
  BY FleetAssumption DEF rest, Routes!Local
<1>8. \A t \in Seq(known \cup rest) : t \in Seq({t[i] : i \in DOMAIN t})
  OBVIOUS
<1> QED
  BY <1>6, <1>7, <1>8

\* The configuration is never changed.
LEMMA ConfigKept ==
    ASSUME [Routes!Next]_Routes!vars
    PROVE  manifest' = manifest /\ request' = request /\ owner' = owner /\ cloud' = cloud
  BY DEF Routes!Next, Routes!vars, Routes!config, Routes!Change, Routes!Ask, Routes!AskStatus, Routes!Choose,
     Routes!Adopt, Routes!Default

\* What was loaded stays on record, what is loaded is put on record.
LEMMA FleetKnownKept ==
    ASSUME FleetKnown, [Routes!Next]_Routes!vars
    PROVE  FleetKnown' /\ was \subseteq was'
<1> USE DEF FleetKnown
<1>1. ASSUME NEW e \in Endpoints, Routes!Change(e) PROVE FleetKnown' /\ was \subseteq was'
  BY <1>1 DEF Routes!Change
<1>2. CASE UNCHANGED <<loaded, was>>
  BY <1>2
<1> QED
  BY <1>1, <1>2 DEF Routes!Next, Routes!vars, Routes!config, Routes!Ask, Routes!AskStatus, Routes!Choose,
     Routes!Adopt, Routes!Default

\* The stops still to be asked are a sequence of stops.
LEMMA AskingKept ==
    ASSUME manifest \in Manifests, Routes!HasProfiles, Asking, [Routes!Next]_Routes!vars
    PROVE  Asking' /\ Stops' = Stops /\ (asking # <<>> => Head(asking) \in Stops)
<1>1. Stops' = Stops
  BY ConfigKept DEF Stops
<1>2. asking # <<>> => Head(asking) \in Stops /\ Tail(asking) \in Seq(Stops)
  BY DEF Asking
<1>3. Asking'
  <2>1. CASE Routes!Ask
    BY <1>1, <1>2, <2>1 DEF Routes!Ask, Asking, Routes!Routing
  <2>2. CASE Routes!AskStatus
    BY <1>1, <1>2, <2>2 DEF Routes!AskStatus, Asking
  <2>3. CASE UNCHANGED <<asking, listing>>
    BY <1>1, <2>3 DEF Asking
  <2> QED
    BY <2>1, <2>2, <2>3 DEF Routes!Next, Routes!vars, Routes!Change, Routes!Choose, Routes!Adopt, Routes!Default, Routes!Legacy
<1> QED
  BY <1>1, <1>2, <1>3

\* A stop that confirms a list of what it had loaded puts such profiles into the inventory.
LEMMA ConfirmSound ==
    ASSUME Confirmed, Stops' = Stops, manifest' = manifest, was \subseteq was', Head(asking) \in Stops,
           NEW S, \A m \in S : <<Head(asking).url, m>> \in was, Routes!Confirm(S)
    PROVE  Confirmed'
<1> SUFFICES ASSUME NEW o \in inventory'
             PROVE  /\ o.p \in manifest /\ Routes!Local(o.p)
                    /\ \E s \in Stops : s.node = o.p.node /\ s.url = o.at /\ <<o.at, o.p.model>> \in was'
  BY DEF Confirmed, Routes!Local
<1>1. CASE o \in inventory
  BY <1>1 DEF Confirmed
<1>2. CASE o \notin inventory
  <2>1. PICK p \in manifest : /\ o = [p |-> p, at |-> Head(asking).url]
                              /\ Routes!Local(p) /\ p.node = Head(asking).node /\ p.model \in S
    BY <1>2 DEF Routes!Confirm, Routes!Here
  <2> QED
    BY <2>1
<1> QED
  BY <1>1, <1>2

\* The profiles in the inventory were loaded where they have been found.
LEMMA ConfirmedKept ==
    ASSUME manifest \in Manifests, Routes!HasProfiles, Asking, FleetKnown, Confirmed, [Routes!Next]_Routes!vars
    PROVE  Confirmed'
<1>1. /\ Stops' = Stops /\ manifest' = manifest /\ was \subseteq was'
      /\ asking # <<>> => Head(asking) \in Stops /\ Head(asking).url \in Endpoints
  BY AskingKept, ConfigKept, FleetKnownKept, TargetsAreStops DEF Stops
<1>2. CASE Routes!Ask
  <2>1. asking # <<>>
    BY <1>2 DEF Routes!Ask
  <2> DEFINE S == Routes!Listed(Head(asking).url)
  <2>2. CASE UNCHANGED inventory
    BY <1>1, <2>2 DEF Confirmed, Routes!Local
  <2>3. CASE Routes!Confirm(S) /\ ~(Head(asking).url \in Managed /\ loaded[Head(asking).url] # None)
    <3>1. \A m \in S : <<Head(asking).url, m>> \in was
      BY <1>1, <2>1, <2>3 DEF FleetKnown, Routes!Listed
    <3> QED
      BY <1>1, <2>1, <2>3, <3>1, ConfirmSound
  <2> QED
    BY <1>2, <2>2, <2>3 DEF Routes!Ask, Routes!Here
<1>3. CASE Routes!AskStatus
  <2>1. asking # <<>>
    BY <1>3 DEF Routes!AskStatus, Asking
  <2> DEFINE S == listing \cap {loaded[Head(asking).url]}
  <2>2. \A m \in S : <<Head(asking).url, m>> \in was
    BY <1>1, <2>1 DEF FleetKnown
  <2>3. Routes!Confirm(S)
    BY <1>3 DEF Routes!AskStatus, Routes!Here
  <2> QED
    BY <1>1, <2>1, <2>2, <2>3, ConfirmSound
<1>4. CASE UNCHANGED inventory
  BY <1>1, <1>4 DEF Confirmed, Routes!Local
<1> QED
  BY <1>2, <1>3, <1>4 DEF Routes!Next, Routes!vars, Routes!Change, Routes!Choose, Routes!Adopt, Routes!Default, Routes!Legacy

\* A stop that has been heard stays heard, as the inventory only grows.
LEMMA HeardStays ==
    ASSUME manifest' = manifest, loaded' = loaded, inventory \subseteq inventory',
           NEW s, Answered(s)
    PROVE  Answered(s)'
  BY DEF Answered, Routes!Local

\* The stop at the head has been heard once it has confirmed what it has loaded.
LEMMA ConfirmHears ==
    ASSUME manifest \in Manifests, manifest' = manifest, loaded' = loaded, NEW S, Routes!Confirm(S),
           NEW s, s = Head(asking), loaded[s.url] \in Models => loaded[s.url] \in S
    PROVE  Answered(s)' /\ inventory \subseteq inventory'
  BY FleetAssumption DEF Answered, Routes!Confirm, Routes!Here, Routes!Local

\* While the fleet stays as it is, no stop is left out.
LEMMA AllHeardKept ==
    ASSUME manifest \in Manifests, moves \in Nat, Routes!HasProfiles, Asking, AllHeard,
           [Routes!Next]_Routes!vars
    PROVE  AllHeard'
<1> SUFFICES ASSUME moves' = 0 PROVE AllHeard'
  BY DEF AllHeard
<1>1. Stops' = Stops /\ manifest' = manifest
  BY AskingKept, ConfigKept
<1> PICK h : h = Head(asking)
  OBVIOUS
<1>2. ASSUME asking # <<>>, asking' = Tail(asking), loaded' = loaded, listing' = None, moves = 0,
             Answered(h)', inventory \subseteq inventory'
      PROVE  AllHeard'
  <2> SUFFICES ASSUME NEW s \in Stops, ~\E k \in DOMAIN asking' : asking'[k] = s PROVE Answered(s)'
    BY <1>1, <1>2 DEF AllHeard
  <2>1. CASE Answered(s)
    BY <1>1, <1>2, <2>1, HeardStays
  <2>2. CASE \E k \in DOMAIN asking : asking[k] = s
    <3>1. PICK k \in DOMAIN asking : asking[k] = s
      BY <2>2
    <3>2. asking \in Seq(Stops)
      BY DEF Asking
    <3>3. k # 1 => k - 1 \in DOMAIN Tail(asking) /\ Tail(asking)[k - 1] = asking[k]
      BY <1>2, <3>1, <3>2, HeadTailProperties
    <3>4. k = 1
      BY <1>2, <3>1, <3>3
    <3> QED
      BY <1>2, <3>1, <3>4
  <2> QED
    BY <1>2, <2>1, <2>2 DEF AllHeard
<1>3. CASE Routes!Ask
  <2>1. moves = 0 /\ loaded' = loaded /\ asking # <<>>
    BY <1>3 DEF Routes!Ask
  <2>2. CASE Head(asking).url \in Managed /\ loaded[Head(asking).url] # None
    <3>1. listing' = Models /\ UNCHANGED <<asking, inventory>>
      BY <1>3, <2>2 DEF Routes!Ask, Routes!Here, Routes!Listed
    <3> QED
      BY <1>1, <2>1, <3>1 DEF AllHeard, Answered, Routes!Local
  <2>3. CASE ~(Head(asking).url \in Managed /\ loaded[Head(asking).url] # None)
    <3> DEFINE S == Routes!Listed(Head(asking).url)
    <3>1. Routes!Confirm(S) /\ asking' = Tail(asking) /\ listing' = None
      BY <1>3, <2>3 DEF Routes!Ask, Routes!Here
    <3>2. loaded[h.url] \in Models => loaded[h.url] \in S
      BY <2>3, FleetAssumption DEF Routes!Listed
    <3> HIDE DEF S
    <3>3. Answered(h)' /\ inventory \subseteq inventory'
      BY <1>1, <2>1, <3>1, <3>2, ConfirmHears
    <3> QED
      BY <1>2, <2>1, <3>1, <3>3
  <2> QED
    BY <2>2, <2>3
<1>4. CASE Routes!AskStatus
  <2>1. moves = 0 /\ loaded' = loaded /\ asking # <<>> /\ asking' = Tail(asking) /\ listing' = None
    BY <1>4 DEF Routes!AskStatus, Asking
  <2> DEFINE S == listing \cap {loaded[Head(asking).url]}
  <2>2. listing = Models
    BY <1>4, <2>1 DEF AllHeard, Routes!AskStatus
  <2>3. Routes!Confirm(S)
    BY <1>4 DEF Routes!AskStatus, Routes!Here
  <2>4. loaded[h.url] \in Models => loaded[h.url] \in S
    BY <2>2
  <2> HIDE DEF S
  <2>5. Answered(h)' /\ inventory \subseteq inventory'
    BY <1>1, <2>1, <2>3, <2>4, ConfirmHears
  <2> QED
    BY <1>2, <2>1, <2>5
<1>5. CASE UNCHANGED <<moves, loaded, asking, listing, inventory>>
  BY <1>1, <1>5 DEF AllHeard, Answered, Routes!Local
<1>6. ASSUME NEW e \in Endpoints, Routes!Change(e) PROVE FALSE
  BY <1>6 DEF Routes!Change
<1> QED
  BY <1>3, <1>4, <1>5, <1>6
     DEF Routes!Next, Routes!vars, Routes!Choose, Routes!Adopt, Routes!Default, Routes!Legacy

\* What is decided is sound: it is decided once, from what has been confirmed.
LEMMA RouteSoundKept ==
    ASSUME manifest \in Manifests, Routes!HasProfiles, Confirmed, Routes!RouteSound,
           FleetKnown, [Routes!Next]_Routes!vars
    PROVE  Routes!RouteSound'
<1> USE DEF Routes!Local
<1>1. manifest' = manifest /\ request' = request /\ cloud' = cloud /\ was \subseteq was'
  BY ConfigKept, FleetKnownKept
<1>2. CASE Routes!Choose
  <2>0. inventory' = inventory /\ was' = was
    BY <1>2 DEF Routes!Choose
  <2>1. ASSUME NEW o \in Routes!Candidates, route'.node = o.p.node, route'.model = o.p.model
        PROVE  Routes!RouteSound'
    <3>1. o.p \in manifest /\ Routes!Local(o.p) /\ Routes!Fits(o.p)
      BY DEF Confirmed, Routes!Candidates
    <3>2. Routes!ServedOn(o.p.node, o.p.model)
      BY DEF Confirmed, Routes!Candidates, Routes!ServedOn, Stops
    <3>3. Routes!ServedOn(o.p.node, o.p.model)' /\ Routes!Fits(o.p)'
      BY <1>1, <2>0, <3>1, <3>2 DEF Routes!ServedOn, Routes!Fits
    <3> QED
      BY <1>1, <2>1, <3>1, <3>3 DEF Routes!RouteSound
  <2>2. ASSUME NEW p \in Routes!Clouds, Routes!Candidates = {}, cloud, route'.node = p.node, route'.model = p.model
        PROVE  Routes!RouteSound'
    <3>1. p \in manifest /\ ~Routes!Local(p) /\ Routes!Fits(p) /\ p.key
      BY DEF Routes!Clouds
    <3>2. Routes!Fits(p)' /\ Routes!Candidates' = {}
      BY <1>1, <2>0, <2>2, <3>1 DEF Routes!Fits, Routes!Candidates
    <3> QED
      BY <1>1, <2>2, <3>1, <3>2 DEF Routes!RouteSound
  <2>3. CASE route' = Refused
    BY <2>3 DEF Routes!RouteSound, Routes!Routed
  <2> QED
    BY <1>2, <2>1, <2>2, <2>3 DEF Routes!Choose, Routes!Best
<1>3. CASE route' = None
  BY <1>3 DEF Routes!RouteSound, Routes!Routed
<1>4. CASE UNCHANGED <<route, inventory, was>>
  BY <1>1, <1>4 DEF Routes!RouteSound, Routes!Routed, Routes!Fits, Routes!ServedOn, Routes!Candidates, Routes!HasProfiles
<1> QED
  BY <1>2, <1>3, <1>4 DEF Routes!Next, Routes!vars, Routes!Change, Routes!Ask, Routes!AskStatus, Routes!Routing,
     Routes!Adopt, Routes!Default, Routes!Legacy

\* When it is decided, every stop has been heard.
LEMMA NonePassedOverKept ==
    ASSUME manifest \in Manifests, Routes!HasProfiles, Confirmed, AllHeard, Routes!NonePassedOver,
           [Routes!Next]_Routes!vars
    PROVE  Routes!NonePassedOver'
<1> USE DEF Routes!Local
<1>1. manifest' = manifest /\ request' = request
  BY ConfigKept
<1>2. CASE Routes!Choose
  <2>1. asking = <<>> /\ UNCHANGED <<loaded, moves, inventory>>
    BY <1>2 DEF Routes!Choose
  <2> SUFFICES ASSUME moves = 0, NEW p \in manifest, NEW i \in DOMAIN Routes!Targets(manifest),
                      Routes!Local(p), Routes!Fits(p), Routes!Targets(manifest)[i].node = p.node,
                      loaded[Routes!Targets(manifest)[i].url] = p.model
               PROVE  /\ Routes!Routed'
                      /\ \E q \in manifest : /\ Routes!Local(q) /\ q.node = route'.node /\ q.model = route'.model
                                            /\ q.priority >= p.priority
    BY <1>1, <2>1 DEF Routes!NonePassedOver, Routes!Fits
  <2>2. [p |-> p, at |-> Routes!Targets(manifest)[i].url] \in Routes!Candidates
    BY <2>1 DEF AllHeard, Answered, Stops, Routes!Candidates
  <2>3. PICK o \in Routes!Candidates :
           /\ o.p \in Routes!Best({c.p : c \in Routes!Candidates})
           /\ route' = [node |-> o.p.node, model |-> o.p.model, url |-> IF o.p.url # None THEN o.p.url ELSE o.at]
    BY <1>2, <2>2 DEF Routes!Choose
  <2>4. o.p \in manifest /\ Routes!Local(o.p) /\ o.at \in Endpoints
    BY TargetsAreStops DEF Confirmed, Routes!Candidates, Stops
  <2>5. o.p.priority >= p.priority
    BY <2>2, <2>3 DEF Routes!Best
  <2>6. route' \notin {None, Refused}
    BY <2>3, <2>4, FleetAssumption
  <2> QED
    BY <2>3, <2>4, <2>5, <2>6 DEF Routes!Routed
<1>3. CASE route' = None
  BY <1>3 DEF Routes!NonePassedOver
<1>4. CASE UNCHANGED <<route, loaded, moves>>
  BY <1>1, <1>4 DEF Routes!NonePassedOver, Routes!Routed, Routes!Fits, Routes!HasProfiles
<1> QED
  BY <1>2, <1>3, <1>4 DEF Routes!Next, Routes!vars, Routes!Change, Routes!Ask, Routes!AskStatus, Routes!Routing,
     Routes!Adopt, Routes!Default, Routes!Legacy

\* The steps of a routing and the changes of the fleet keep all of it.
LEMMA RouteInvKept == RouteInv /\ [Routes!Next]_Routes!vars => RouteInv'
<1> SUFFICES ASSUME RouteInv, [Routes!Next]_Routes!vars PROVE RouteInv'
  OBVIOUS
<1>1. manifest' = manifest
  BY ConfigKept
<1>2. moves' \in Nat
  BY DEF RouteInv, Routes!Next, Routes!vars, Routes!Change, Routes!Ask, Routes!AskStatus, Routes!Choose,
     Routes!Adopt, Routes!Default
<1>3. Routes!HasProfiles' <=> Routes!HasProfiles
  BY <1>1 DEF Routes!HasProfiles, Routes!Local
<1> QED
  BY <1>1, <1>2, <1>3, AskingKept, FleetKnownKept, ConfirmedKept, AllHeardKept, RouteSoundKept, NonePassedOverKept
     DEF RouteInv

\* A route is sound, and passes none over, in every fleet and for every manifest.
THEOREM RoutingCorrect == Routes!Spec => []RouteInv
<1>1. Routes!Init => RouteInv
  <2> SUFFICES ASSUME Routes!Init PROVE RouteInv
    OBVIOUS
  <2>1. manifest \in Manifests /\ moves \in Nat /\ inventory = {} /\ route = None /\ listing = None
    BY DEF Routes!Init
  <2>2. FleetKnown /\ Confirmed
    BY <2>1 DEF Routes!Init, FleetKnown, Confirmed
  <2>3. ASSUME Routes!HasProfiles PROVE asking = Routes!Targets(manifest)
    BY <2>3 DEF Routes!Init
  <2>4. ASSUME Routes!HasProfiles PROVE Asking /\ AllHeard
    BY <2>1, <2>3, <2>4, TargetsAreStops DEF Asking, AllHeard, Stops
  <2>5. Routes!RouteSound /\ Routes!NonePassedOver
    BY <2>1 DEF Routes!RouteSound, Routes!NonePassedOver, Routes!Routed
  <2> QED
    BY <2>1, <2>2, <2>4, <2>5 DEF RouteInv
<1> QED
  BY <1>1, RouteInvKept, PTL DEF Routes!Spec

\* The part of the routes behaves as a routing.
LEMMA RoutePart == Spec => (part = "route" => Routes!Spec)
<1>1. Init /\ part = "route" => Routes!Init
  BY DEF Init
<1>2. part = "route" /\ [Next]_vars => (part = "route")' /\ [Routes!Next]_(Routes!vars)
  BY DEF Next, vars, routeVars, Routes!vars, Routes!config
<1>3. QED
  BY <1>1, <1>2, PTL DEF Spec, Routes!Spec

\* Its invariant holds while it is the part that runs.
LEMMA RouteLink == Spec => [](part = "route" => RouteInv)
<1>1. ~(part = "route") /\ [Next]_vars => ~(part = "route")'
  BY DEF Next, vars
<1>2. QED
  BY <1>1, RoutePart, RoutingCorrect, PTL DEF Spec

\* A task is routed to a model that is loaded and can do it.
THEOREM RoutedSound == Spec => []RouteSound
<1>1. RouteInv => Routes!RouteSound
  BY DEF RouteInv, Routes!RouteSound
<1> QED
  BY <1>1, RouteLink, PTL DEF RouteSound

\* No better or local model is passed over.
THEOREM BestRouted == Spec => []NonePassedOver
<1>1. RouteInv => Routes!NonePassedOver
  BY DEF RouteInv, Routes!NonePassedOver
<1> QED
  BY <1>1, RouteLink, PTL DEF NonePassedOver

---------------------------------------------------------------------------------
(* RateLimit *)

\* Of the counter's expirations B is the set of those there have been, each by the
\* ticks since; a request older than one of them counted towards another window.
SameCount(B, a, c) == \A b \in B : a < b <=> c < b
Newest(B, a)       == \A b \in B : a < b

Held   == [number : Nat \ {0}, age : Nat]
Ticket == [number : 1..Limit, age : Limited!Ages]

Lately(r) == handler[r] # None /\ handler[r].age \in Limited!Ages

\* Expirations are a window apart; requests of one count have different numbers.
Counted(B) ==
    /\ B \subseteq Nat \ {0} /\ \A b, c \in B : b < c => b + Window <= c
    /\ hits \in Nat /\ handler \in [Callers -> Held \cup {None}] /\ served \subseteq Ticket
    /\ expiry # None => expiry \in 1..Window /\ \A b \in B : Window < b + expiry
    /\ \A x \in served : Newest(B, x.age) => x.number <= hits
    /\ \A r \in Callers : (Lately(r) /\ Newest(B, handler[r].age)) => handler[r].number <= hits
    /\ \A x, y \in served : SameCount(B, x.age, y.age) /\ x.number = y.number => x = y
    /\ \A r \in Callers, x \in served : Lately(r) /\ SameCount(B, handler[r].age, x.age) => handler[r].number # x.number
    /\ \A r, q \in Callers : (Lately(r) /\ Lately(q) /\ r # q /\ SameCount(B, handler[r].age, handler[q].age)) =>
                                 handler[r].number # handler[q].number

\* What a tick does to the order of requests and expirations, and what another expiration.
LEMMA TickSame ==
    ASSUME NEW B \in SUBSET (Nat \ {0}), NEW C, C = {b + 1 : b \in B} \/ C = {b + 1 : b \in B} \cup {1},
           NEW a \in Nat, NEW c \in Nat
    PROVE  /\ C \in SUBSET (Nat \ {0})
           /\ SameCount(C, a + 1, c + 1) => SameCount(B, a, c)
           /\ Newest(C, a + 1) => Newest(B, a)
           /\ 1 \in C => ~Newest(C, a + 1)
<1>1. \A b \in B : b + 1 \in C /\ b \in Nat
  OBVIOUS
<1>2. C \in SUBSET (Nat \ {0})
  OBVIOUS
<1>3. SameCount(C, a + 1, c + 1) => SameCount(B, a, c)
  <2> SUFFICES ASSUME SameCount(C, a + 1, c + 1), NEW b \in B PROVE a < b <=> c < b
    BY DEF SameCount
  <2>1. a + 1 < b + 1 <=> c + 1 < b + 1
    BY <1>1 DEF SameCount
  <2> QED
    BY <1>1, <2>1
<1>4. Newest(C, a + 1) => Newest(B, a)
  <2> SUFFICES ASSUME Newest(C, a + 1), NEW b \in B PROVE a < b
    BY DEF Newest
  <2>1. a + 1 < b + 1
    BY <1>1 DEF Newest
  <2> QED
    BY <1>1, <2>1
<1>5. ASSUME 1 \in C PROVE ~Newest(C, a + 1)
  <2>1. ~(a + 1 < 1)
    OBVIOUS
  <2> QED
    BY <1>5, <2>1 DEF Newest
<1> QED
  BY <1>2, <1>3, <1>4, <1>5

\* A request is a tick older, or too old to be counted.
LEMMA OlderBy ==
    ASSUME NEW h \in [number : Nat, age : Nat]
    PROVE  /\ Limited!Older(h) \in [number : Nat, age : Nat] /\ Limited!Older(h).number = h.number
           /\ Limited!Older(h).age \in Limited!Ages => h.age \in Limited!Ages /\ Limited!Older(h).age = h.age + 1
BY ServicesAssumption DEF Limited!Older, Limited!Ages

\* A second passes: the expirations grow older, and the counter's own may be one more.
LEMMA TickCounted ==
    ASSUME NEW B, Counted(B), Limited!Tick
    PROVE  \E C : Counted(C)'
<1> DEFINE D == {b + 1 : b \in B}
<1>a. PICK C : C = IF expiry = 1 THEN D \cup {1} ELSE D
  OBVIOUS
<1>0. C = D \/ C = D \cup {1}
  BY <1>a
<1>1. B \in SUBSET (Nat \ {0}) /\ C \in SUBSET (Nat \ {0})
  BY <1>0 DEF Counted
<1>2. \A b \in C : (\E e \in B : b = e + 1) \/ (b = 1 /\ expiry = 1)
  BY <1>a
<1>3. expiry = 1 => 1 \in C
  BY <1>a
<1>4. expiry = 1 => \A b \in B : Window <= b
  BY <1>1, ServicesAssumption DEF Counted
<1>5. \A b, c \in C : b < c => b + Window <= c
  BY <1>1, <1>2, <1>4, ServicesAssumption DEF Counted
<1>6. expiry' # None => expiry' \in 1..Window /\ \A b \in C : Window < b + expiry'
  <2> SUFFICES ASSUME expiry' # None PROVE expiry' \in 1..Window /\ \A b \in C : Window < b + expiry'
    OBVIOUS
  <2>1. expiry # 1 /\ expiry # None /\ expiry' = expiry - 1
    BY DEF Limited!Tick
  <2>2. expiry \in 1..Window /\ \A b \in B : Window < b + expiry
    BY <2>1 DEF Counted
  <2>3. \A b \in C : \E e \in B : b = e + 1 /\ e \in Nat
    BY <1>1, <1>2, <2>1
  <2> QED
    BY <2>1, <2>2, <2>3, ServicesAssumption
<1>7. hits' \in Nat
  BY DEF Limited!Tick, Counted
<1>8. \A r \in Callers : /\ handler'[r] = IF handler[r] = None THEN None ELSE Limited!Older(handler[r])
                         /\ handler[r] # None => handler[r] \in Held
  BY DEF Limited!Tick, Counted
<1>9. \A h \in Held : Limited!Older(h) \in Held
  BY OlderBy DEF Held
<1>10. handler' \in [Callers -> Held \cup {None}]
  BY <1>8, <1>9 DEF Limited!Tick
<1>11. \A r \in Callers : Lately(r)' =>
          /\ Lately(r) /\ handler[r] \in Held
          /\ handler'[r].number = handler[r].number /\ handler'[r].age = handler[r].age + 1
  BY <1>8, OlderBy DEF Lately, Held
<1>12. \A x \in served' : \E y \in served : x = Limited!Older(y) /\ x.age \in Limited!Ages
  BY DEF Limited!Tick
<1>13. \A y \in served : y \in [number : Nat, age : Nat] /\ y.number \in 1..Limit /\ y.age \in Nat
  BY ServicesAssumption DEF Counted, Ticket, Limited!Ages
<1>14. \A x \in served' : \E y \in served : x.number = y.number /\ x.age = y.age + 1 /\ x = Limited!Older(y)
  BY <1>12, <1>13, OlderBy
<1>15. served' \subseteq Ticket
  <2> SUFFICES ASSUME NEW x \in served' PROVE x \in Ticket
    OBVIOUS
  <2>1. PICK y \in served : x = Limited!Older(y) /\ x.age \in Limited!Ages
    BY <1>12
  <2>2. x \in [number : Nat, age : Nat] /\ x.number \in 1..Limit
    BY <1>13, <2>1, OlderBy
  <2> QED
    BY <2>1, <2>2 DEF Ticket
<1>16. \A a, c \in Nat : /\ SameCount(C, a + 1, c + 1) => SameCount(B, a, c)
                         /\ Newest(C, a + 1) => Newest(B, a) /\ expiry # 1
  <2> SUFFICES ASSUME NEW a \in Nat, NEW c \in Nat
               PROVE  /\ SameCount(C, a + 1, c + 1) => SameCount(B, a, c)
                      /\ Newest(C, a + 1) => Newest(B, a) /\ expiry # 1
    OBVIOUS
  <2> QED
    BY <1>0, <1>1, <1>3, TickSame
<1>17. expiry # 1 => hits' = hits
  BY DEF Limited!Tick
<1> HIDE DEF D
<1>18. \A x \in served' : Newest(C, x.age) => x.number <= hits'
  BY <1>13, <1>14, <1>16, <1>17 DEF Counted
<1>19. \A r \in Callers : (Lately(r)' /\ Newest(C, handler'[r].age)) => handler'[r].number <= hits'
  BY <1>11, <1>16, <1>17 DEF Counted, Held
<1>20. \A x, y \in served' : SameCount(C, x.age, y.age) /\ x.number = y.number => x = y
  BY <1>13, <1>14, <1>16 DEF Counted
<1>21. \A r \in Callers, x \in served' : Lately(r)' /\ SameCount(C, handler'[r].age, x.age) => handler'[r].number # x.number
  BY <1>11, <1>13, <1>14, <1>16 DEF Counted, Held
<1>22. \A r, q \in Callers : (Lately(r)' /\ Lately(q)' /\ r # q /\ SameCount(C, handler'[r].age, handler'[q].age)) =>
                                 handler'[r].number # handler'[q].number
  BY <1>11, <1>16 DEF Counted, Held
<1>23. Counted(C)'
  BY <1>1, <1>5, <1>6, <1>7, <1>10, <1>15, <1>18, <1>19, <1>20, <1>21, <1>22 DEF Counted
<1> QED
  BY <1>23

\* A request that is counted, let in, refused or lost.
LEMMA CountedStep ==
    ASSUME NEW B, Counted(B), NEW r \in Callers, Limited!Incr(r) \/ Limited!Decide(r) \/ Limited!Lost(r)
    PROVE  Counted(B)'
<1>1. B \subseteq Nat \ {0} /\ \A b \in B : 0 < b /\ Window < b + Window /\ b \in Nat
  BY ServicesAssumption DEF Counted
<1>2. ASSUME Limited!Incr(r) PROVE Counted(B)'
  <2> DEFINE h == [number |-> hits + 1, age |-> 0]
  <2>1. h \in Held /\ h.number = hits + 1 /\ h.age = 0 /\ hits \in Nat
    BY DEF Held, Counted
  <2> HIDE DEF h
  <2>2. hits' = hits + 1 /\ handler' = [handler EXCEPT ![r] = h] /\ UNCHANGED <<expiry, served>>
    BY <1>2 DEF Limited!Incr, h
  <2>3. handler \in [Callers -> Held \cup {None}]
    BY DEF Counted
  <2>4. handler' \in [Callers -> Held \cup {None}] /\ handler'[r] = h /\ \A q \in Callers : q # r => handler'[q] = handler[q]
    BY <2>1, <2>2, <2>3
  <2>5. \A a : SameCount(B, 0, a) => Newest(B, a)
    BY <1>1 DEF SameCount, Newest
  <2>6. \A a : SameCount(B, a, 0) => Newest(B, a)
    BY <1>1 DEF SameCount, Newest
  <2>7. \A x \in served : /\ x.number \in 1..Limit
                          /\ Newest(B, x.age) => x.number <= hits
    BY DEF Counted, Ticket
  <2>8. \A q \in Callers : q # r => (Lately(q)' <=> Lately(q)) /\ (Lately(q) => handler[q] \in Held)
    BY <2>3, <2>4 DEF Lately
  <2>9. \A q \in Callers : q # r /\ Lately(q) /\ Newest(B, handler[q].age) =>
            handler[q].number \in Nat /\ handler[q].number <= hits
    BY <2>8 DEF Counted, Held
  <2>10. \A x \in served : Newest(B, x.age) => x.number <= hits'
    BY <2>1, <2>2, <2>7, ServicesAssumption
  <2>11. \A q \in Callers : (Lately(q)' /\ Newest(B, handler'[q].age)) => handler'[q].number <= hits'
    BY <2>1, <2>2, <2>4, <2>8, <2>9
  <2>12. \A q \in Callers, x \in served : Lately(q)' /\ SameCount(B, handler'[q].age, x.age) => handler'[q].number # x.number
    <3> SUFFICES ASSUME NEW q \in Callers, NEW x \in served, Lately(q)', SameCount(B, handler'[q].age, x.age)
                 PROVE  handler'[q].number # x.number
      OBVIOUS
    <3>1. CASE q = r
      BY <2>1, <2>4, <2>5, <2>7, <3>1, ServicesAssumption
    <3>2. CASE q # r
      BY <2>4, <2>8, <3>2 DEF Counted
    <3> QED
      BY <3>1, <3>2
  <2>13. \A p, q \in Callers : (Lately(p)' /\ Lately(q)' /\ p # q /\ SameCount(B, handler'[p].age, handler'[q].age)) =>
                                 handler'[p].number # handler'[q].number
    <3> SUFFICES ASSUME NEW p \in Callers, NEW q \in Callers, Lately(p)', Lately(q)', p # q,
                        SameCount(B, handler'[p].age, handler'[q].age)
                 PROVE  handler'[p].number # handler'[q].number
      OBVIOUS
    <3>1. CASE p = r
      BY <2>1, <2>4, <2>5, <2>8, <2>9, <3>1
    <3>2. CASE q = r
      BY <2>1, <2>4, <2>6, <2>8, <2>9, <3>2
    <3>3. CASE p # r /\ q # r
      BY <2>4, <2>8, <3>3 DEF Counted
    <3> QED
      BY <3>1, <3>2, <3>3
  <2> QED
    BY <2>1, <2>2, <2>4, <2>10, <2>11, <2>12, <2>13 DEF Counted
<1>3. ASSUME Limited!Decide(r) PROVE Counted(B)'
  <2>1. /\ hits' = hits /\ handler[r] # None /\ handler' = [handler EXCEPT ![r] = None]
        /\ expiry' = expiry \/ expiry' = Window
        /\ served' = served \/ (/\ Limited!Within(handler[r].number) /\ handler[r].age \in Limited!Ages
                               /\ served' = served \cup {handler[r]})
    BY <1>3 DEF Limited!Decide, Limited!Leave
  <2>2. handler \in [Callers -> Held \cup {None}] /\ handler[r] \in Held
    BY <2>1 DEF Counted
  <2>3. handler' \in [Callers -> Held \cup {None}] /\ handler'[r] = None /\ \A q \in Callers : q # r => handler'[q] = handler[q]
    BY <2>1, <2>2
  <2>4. \A q \in Callers : Lately(q)' => q # r /\ Lately(q) /\ handler'[q] = handler[q]
    BY <2>3 DEF Lately
  <2>5. expiry' # None => expiry' \in 1..Window /\ \A b \in B : Window < b + expiry'
    BY <1>1, <2>1, ServicesAssumption DEF Counted
  <2>6. \A x \in served' : x \in served \/ (x = handler[r] /\ Lately(r) /\ x.number <= Limit)
    BY <2>1 DEF Limited!Within, Lately
  <2>7. served' \subseteq Ticket
    BY <2>2, <2>6, ServicesAssumption DEF Counted, Ticket, Held, Lately
  <2>8. \A x \in served' : Newest(B, x.age) => x.number <= hits'
    BY <2>1, <2>6 DEF Counted
  <2>9. \A q \in Callers : (Lately(q)' /\ Newest(B, handler'[q].age)) => handler'[q].number <= hits'
    BY <2>1, <2>4 DEF Counted
  <2>10. \A a, c : SameCount(B, a, c) => SameCount(B, c, a)
    BY DEF SameCount
  <2>11. \A x, y \in served' : SameCount(B, x.age, y.age) /\ x.number = y.number => x = y
    BY <2>6, <2>10 DEF Counted
  <2>12. \A q \in Callers, x \in served' : Lately(q)' /\ SameCount(B, handler'[q].age, x.age) => handler'[q].number # x.number
    BY <2>4, <2>6 DEF Counted
  <2>13. \A p, q \in Callers : (Lately(p)' /\ Lately(q)' /\ p # q /\ SameCount(B, handler'[p].age, handler'[q].age)) =>
                                 handler'[p].number # handler'[q].number
    BY <2>4 DEF Counted
  <2>14. hits' \in Nat
    BY <2>1 DEF Counted
  <2> QED
    BY <2>3, <2>5, <2>7, <2>8, <2>9, <2>11, <2>12, <2>13, <2>14 DEF Counted
<1>4. ASSUME Limited!Lost(r) PROVE Counted(B)'
  <2>1. UNCHANGED <<hits, expiry, served>> /\ handler' = [handler EXCEPT ![r] = None]
    BY <1>4 DEF Limited!Lost, Limited!Leave
  <2>2. handler \in [Callers -> Held \cup {None}]
    BY DEF Counted
  <2>3. handler' \in [Callers -> Held \cup {None}] /\ handler'[r] = None /\ \A q \in Callers : q # r => handler'[q] = handler[q]
    BY <2>1, <2>2
  <2>4. \A q \in Callers : Lately(q)' => q # r /\ Lately(q) /\ handler'[q] = handler[q]
    BY <2>3 DEF Lately
  <2> QED
    BY <2>1, <2>3, <2>4 DEF Counted
<1> QED
  BY <1>2, <1>3, <1>4

\* Some set of expirations explains the counter in every state.
LEMMA CountedKept == (\E B : Counted(B)) /\ [Limited!Next]_(Limited!vars) => (\E B : Counted(B))'
<1> SUFFICES ASSUME NEW B, Counted(B), [Limited!Next]_(Limited!vars) PROVE \E C : Counted(C)'
  OBVIOUS
<1>1. CASE Limited!Tick
  BY <1>1, TickCounted
<1>2. CASE \E r \in Callers : Limited!Incr(r) \/ Limited!Decide(r) \/ Limited!Lost(r)
  BY <1>2, CountedStep
<1>3. CASE UNCHANGED Limited!vars
  <2>1. Counted(B)'
    BY <1>3 DEF Limited!vars, Counted, Lately
  <2> QED
    BY <2>1
<1> QED
  BY <1>1, <1>2, <1>3 DEF Limited!Next

\* Requests let in on one count are at most Limit.
LEMMA LimitedOnce ==
    ASSUME NEW B, Counted(B), NEW S \in SUBSET served, \A x, y \in S : SameCount(B, x.age, y.age)
    PROVE  IsFiniteSet(S) /\ Cardinality(S) <= Limit
<1>1. \A x \in S : x.number \in 1..Limit
  BY DEF Counted, Ticket
<1>2. \A x, y \in S : x.number = y.number => x = y
  BY DEF Counted
<1> DEFINE f == [x \in S |-> x.number]
<1>3. f \in Injection(S, 1..Limit)
  BY <1>1, <1>2 DEF Injection, IsInjective
<1>4. IsFiniteSet(1..Limit) /\ Cardinality(1..Limit) = Limit
  BY FS_Interval, ServicesAssumption
<1> HIDE DEF f
<1> QED
  BY <1>3, <1>4, FS_Injection

\* The instance counts as the module does.
LEMMA LimitedCount == ASSUME NEW S PROVE Limited!Cardinality(S) = Cardinality(S)
BY DEF Limited!Cardinality, Cardinality

\* A window has one expiration at most inside it: the requests let in are on two counts.
LEMMA CountedTwice == ASSUME NEW B, Counted(B) PROVE Limited!TwiceAtMost
<1> SUFFICES ASSUME NEW g \in 0..Window
             PROVE  Cardinality({r \in served : r.age \in g..(g + Window - 1)}) <= 2 * Limit
  BY LimitedCount DEF Limited!TwiceAtMost
<1> DEFINE S == {r \in served : r.age \in g..(g + Window - 1)}
<1>1. B \subseteq Nat /\ (\A b, c \in B : b < c => b + Window <= c) /\ Window \in Nat /\ Limit \in Nat /\ g \in Nat
  BY ServicesAssumption DEF Counted
<1>2. \A x \in S : x.age \in Nat /\ g <= x.age /\ x.age < g + Window /\ x \in served
  BY <1>1 DEF Counted, Ticket, Limited!Ages
<1> HIDE DEF S
<1>3. CASE \E b \in B : g < b /\ b < g + Window
  <2>1. PICK b \in B : g < b /\ b < g + Window
    BY <1>3
  <2>2. \A c \in B : c # b => c <= g \/ g + Window <= c
    BY <1>1, <2>1
  <2> DEFINE Young == {x \in S : x.age < b}
             Old   == {x \in S : ~(x.age < b)}
  <2>3. \A x, y \in Young : SameCount(B, x.age, y.age)
    BY <1>1, <1>2, <2>2 DEF SameCount
  <2>4. \A x, y \in Old : SameCount(B, x.age, y.age)
    BY <1>1, <1>2, <2>2 DEF SameCount
  <2>5. Young \in SUBSET served /\ Old \in SUBSET served /\ S = Young \cup Old
    BY <1>2
  <2> HIDE DEF Young, Old
  <2>6. /\ IsFiniteSet(Young) /\ Cardinality(Young) <= Limit
        /\ IsFiniteSet(Old) /\ Cardinality(Old) <= Limit
    BY <2>3, <2>4, <2>5, LimitedOnce
  <2>7. /\ Cardinality(S) = Cardinality(Young) + Cardinality(Old) - Cardinality(Young \cap Old)
        /\ IsFiniteSet(Young \cap Old)
    BY <2>5, <2>6, FS_Union, FS_Subset
  <2>8. Cardinality(Young) \in Nat /\ Cardinality(Old) \in Nat /\ Cardinality(Young \cap Old) \in Nat
    BY <2>6, <2>7, FS_CardinalityType
  <2> QED
    BY <1>1, <2>6, <2>7, <2>8 DEF S
<1>4. CASE ~\E b \in B : g < b /\ b < g + Window
  <2>1. \A x, y \in S : SameCount(B, x.age, y.age)
    BY <1>1, <1>2, <1>4 DEF SameCount
  <2>2. S \in SUBSET served
    BY <1>2
  <2>3. IsFiniteSet(S) /\ Cardinality(S) <= Limit
    BY <2>1, <2>2, LimitedOnce
  <2>4. Cardinality(S) \in Nat
    BY <2>3, FS_CardinalityType
  <2> QED
    BY <1>1, <2>3, <2>4 DEF S
<1> QED
  BY <1>3, <1>4

\* At most twice the limit is let in within any window, however requests and expirations
\* interleave.
THEOREM LimitTwiceAtMost == Spec => []TwiceAtMost
<1> DEFINE LimitInv == \E B : Counted(B)
<1>1. Init /\ part = "limit" => LimitInv
  <2> SUFFICES ASSUME Limited!Init PROVE Counted({})
    BY DEF Init
  <2> QED
    BY DEF Limited!Init, Counted, Lately
<1>2. part = "limit" /\ [Next]_vars => (part = "limit")' /\ [Limited!Next]_(Limited!vars)
  BY DEF Next, vars, limitVars, Limited!vars
<1>3. ~(part = "limit") /\ [Next]_vars => ~(part = "limit")'
  BY DEF Next, vars
<1>4. LimitInv /\ [Limited!Next]_(Limited!vars) => LimitInv'
  BY CountedKept
<1>5. LimitInv => Limited!TwiceAtMost
  BY CountedTwice
<1> HIDE DEF LimitInv
<1> QED
  BY <1>1, <1>2, <1>3, <1>4, <1>5, PTL DEF Spec, TwiceAtMost

---------------------------------------------------------------------------------
(* Fetch, Telemetry and Intake *)
FetchThms == INSTANCE FetchProofs
LaneThms  == INSTANCE TelemetryProofs
TakenThms == INSTANCE IntakeProofs WITH job <- rows, Videos <- Sources

\* The part of the fetching is the specification its own theorems are about.
LEMMA FetchPart == Spec => (part = "fetch" => FetchThms!Spec)
<1>1. Init /\ part = "fetch" => FetchThms!Init
  BY DEF Init, Fetching!Init, FetchThms!Init
<1>2. part = "fetch" /\ [Next]_vars => (part = "fetch")' /\ [FetchThms!Next]_FetchThms!vars
  <2>1. Fetching!Next <=> FetchThms!Next
    BY DEF Fetching!Next, FetchThms!Next, 
      Fetching!Begin, Fetching!NativeCaptions, Fetching!WriteSubtitles, Fetching!FindSubtitle, Fetching!ReadSubtitle,
      Fetching!CleanSubtitles, Fetching!RecordAudio, Fetching!AudioRecorded, Fetching!Transcribe,
      Fetching!AudioFails, Fetching!Die, Fetching!Inside, Fetching!Sought, Fetching!Written, Fetching!Finds,
      Fetching!Company, Fetching!Enters, Fetching!To, Fetching!Got, Fetching!Chosen,
      FetchThms!Begin, FetchThms!NativeCaptions, FetchThms!WriteSubtitles, FetchThms!FindSubtitle,
      FetchThms!ReadSubtitle, FetchThms!CleanSubtitles, FetchThms!RecordAudio, FetchThms!AudioRecorded,
      FetchThms!Transcribe, FetchThms!AudioFails, FetchThms!Die, FetchThms!Inside, FetchThms!Sought,
      FetchThms!Written, FetchThms!Finds, FetchThms!Company, FetchThms!Enters, FetchThms!To, FetchThms!Got,
      FetchThms!Chosen
  <2>2. QED
    BY <2>1 DEF Next, vars, fetchVars, FetchThms!vars
<1>3. QED
  BY <1>1, <1>2, PTL DEF Spec, FetchThms!Spec

\* A job for itself in the shared directories gets the text of its own video.
THEOREM FetchedTextIsOwn == Spec => []TextIsOwn
<1>1. FetchThms!Legal
  BY ServicesAssumption DEF FetchThms!Legal
<1>2. FetchThms!Spec => []FetchThms!TextIsOwn
  BY <1>1, FetchThms!OwnText, PTL
<1>3. FetchThms!TextIsOwn <=> Fetching!TextIsOwn
  BY DEF FetchThms!TextIsOwn, Fetching!TextIsOwn, FetchThms!ForItself, Fetching!ForItself,
         FetchThms!Exact, Fetching!Exact, FetchThms!Finds, Fetching!Finds, FetchThms!Written, Fetching!Written,
         FetchThms!Sought, Fetching!Sought
<1>4. ~(part = "fetch") /\ [Next]_vars => ~(part = "fetch")'
  BY DEF Next, vars
<1>5. QED
  BY <1>2, <1>3, <1>4, FetchPart, PTL DEF Spec, TextIsOwn

\* The film a delivery has answered with stays, for any deliveries and attempts: what an
\* attempt or the cleaning before it removes is never whole.
THEOREM FilmKept == Spec => []FilmStays
<1> DEFINE Kept == DOMAIN film = Deliveries /\ Films!FilmStays
<1>1. Init /\ part = "film" => Kept
  BY ServicesAssumption DEF Init, Films!Init, Films!FilmStays
<1>2. part = "film" /\ [Next]_vars => (part = "film")' /\ [Films!Next]_(Films!vars)
  BY DEF Next, vars, filmVars, Films!vars
<1>3. ~(part = "film") /\ [Next]_vars => ~(part = "film")'
  BY DEF Next, vars
<1>4. Kept /\ [Films!Next]_(Films!vars) => Kept'
  <2> SUFFICES ASSUME Kept, [Films!Next]_(Films!vars) PROVE Kept'
    OBVIOUS
  <2> USE DEF Films!FilmStays
  <2>1. ASSUME NEW w \in Deliveries, Films!Run(w) PROVE Kept'
    BY <2>1 DEF Films!Run
  <2>2. ASSUME NEW w \in Deliveries, Films!Answer(w) PROVE Kept'
    <3>1. folder' = folder /\ (film' = film \/ \E kind \in folder : film' = [film EXCEPT ![w] = kind])
      BY <2>2 DEF Films!Answer
    <3> QED
      BY <3>1
  <2>3. ASSUME NEW w \in Deliveries, Films!Retry(w) PROVE Kept'
    BY <2>3 DEF Films!Retry
  <2>4. CASE UNCHANGED <<folder, film>>
    BY <2>4
  <2> QED
    BY <2>1, <2>2, <2>3, <2>4 DEF Films!Next, Films!vars, Films!Start, Films!GiveUp
<1>5. Kept => Films!FilmStays
  OBVIOUS
<1> HIDE DEF Kept
<1> QED
  BY <1>1, <1>2, <1>3, <1>4, <1>5, PTL DEF Spec, FilmStays

\* The part of the lanes is the specification its own theorems are about.
LEMMA LanePart == Spec => (part = "lanes" => LaneThms!Spec)
<1>1. Init /\ part = "lanes" => LaneThms!Init
  BY DEF Init, Sidecars!Init, LaneThms!Init, Sidecars!Procs, LaneThms!Procs
<1>2. part = "lanes" /\ [Next]_vars => (part = "lanes")' /\ [LaneThms!Next]_LaneThms!vars
  <2>1. Sidecars!Next <=> LaneThms!Next
    BY DEF Sidecars!Next, LaneThms!Next,
      Sidecars!Tick, Sidecars!LaneChanges, Sidecars!BeginSweep, Sidecars!Probe, Sidecars!Answer, Sidecars!ReplaceCache,
      Sidecars!Publish, Sidecars!Prefetch, Sidecars!TakeLocal, Sidecars!ReadShared, Sidecars!StoreLocal, Sidecars!Miss,
      Sidecars!Lease, Sidecars!GoOn, Sidecars!Release, Sidecars!RestartApi, Sidecars!RestartWorker,
      LaneThms!Tick, LaneThms!LaneChanges, LaneThms!BeginSweep, LaneThms!Probe, LaneThms!Answer, LaneThms!ReplaceCache,
      LaneThms!Publish, LaneThms!Prefetch, LaneThms!TakeLocal, LaneThms!ReadShared, LaneThms!StoreLocal, LaneThms!Miss,
      LaneThms!Lease, LaneThms!GoOn, LaneThms!Release, LaneThms!RestartApi, LaneThms!RestartWorker,
      Sidecars!Procs, Sidecars!Enabled, Sidecars!Older, Sidecars!AgeRow, Sidecars!Idle, Sidecars!FreshLocal,
      Sidecars!Seen, Sidecars!Row, Sidecars!Eligible, Sidecars!Seeded,
      LaneThms!Procs, LaneThms!Enabled, LaneThms!Older, LaneThms!AgeRow, LaneThms!Idle, LaneThms!FreshLocal,
      LaneThms!Seen, LaneThms!Row, LaneThms!Eligible, LaneThms!Seeded
  <2>2. QED
    BY <2>1 DEF Next, vars, laneVars, LaneThms!vars
<1>3. QED
  BY <1>1, <1>2, PTL DEF Spec, LaneThms!Spec

\* No lane is leased that has not served lately.
THEOREM LanesLeasedServed == Spec => DeadLaneRefused
<1>1. LaneThms!Legal
  BY ServicesAssumption DEF LaneThms!Legal, LaneThms!Observed
<1>2. LaneThms!Spec => [][LaneThms!LeasesServed]_(LaneThms!vars)
  BY <1>1, LaneThms!DeadLaneNeverLeased, PTL DEF LaneThms!DeadLaneRefused
<1>3. ASSUME part = "lanes", [LaneThms!LeasesServed]_(LaneThms!vars) PROVE Sidecars!LeasesServed
  BY <1>3, ServicesAssumption DEF LaneThms!LeasesServed, Sidecars!LeasesServed, LaneThms!Procs, Sidecars!Procs, LaneThms!vars
<1>4. ~(part = "lanes") /\ [Next]_vars => ~(part = "lanes")'
  BY DEF Next, vars
<1>5. [LaneThms!LeasesServed]_(LaneThms!vars) => [part = "lanes" => Sidecars!LeasesServed]_vars
  BY <1>3
<1>6. ~(part = "lanes") => [part = "lanes" => Sidecars!LeasesServed]_vars
  OBVIOUS
<1>7. QED
  BY <1>2, <1>4, <1>5, <1>6, LanePart, PTL DEF Spec, DeadLaneRefused

\* The instance counts as the module does.
LEMMA TakenCount == ASSUME NEW S PROVE TakenThms!Cardinality(S) = Taken!Cardinality(S)
BY DEF TakenThms!Cardinality, Taken!Cardinality

\* The part of the intake is the specification its own theorems are about.
LEMMA TakenPart == Spec => (part = "jobs" => TakenThms!Spec)
<1>1. Init /\ part = "jobs" => TakenThms!Init
  BY DEF Init, Taken!Init, TakenThms!Init
<1>2. part = "jobs" /\ [Next]_vars => (part = "jobs")' /\ [TakenThms!Next]_(TakenThms!vars)
  <2>1. Taken!Next <=> TakenThms!Next
    BY DEF Taken!Next, TakenThms!Next,
      Taken!CreateChecks, Taken!CreateCommits, Taken!UploadWrites, Taken!UploadRefused, Taken!UploadBreaks, Taken!UploadCommits,
      Taken!UploadAnswered, Taken!UploadFails, Taken!ImportChecks, Taken!ImportCommits, Taken!ImportUpload, Taken!TaskChecks,
      Taken!TaskCommits, Taken!TaskEnds, Taken!Die, Taken!Describe, Taken!End, Taken!Resume, Taken!Export, Taken!Delete,
      TakenThms!CreateChecks, TakenThms!CreateCommits, TakenThms!UploadWrites, TakenThms!UploadRefused, TakenThms!UploadBreaks, TakenThms!UploadCommits,
      TakenThms!UploadAnswered, TakenThms!UploadFails, TakenThms!ImportChecks, TakenThms!ImportCommits, TakenThms!ImportUpload, TakenThms!TaskChecks,
      TakenThms!TaskCommits, TakenThms!TaskEnds, TakenThms!Die, TakenThms!Describe, TakenThms!End, TakenThms!Resume, TakenThms!Export, TakenThms!Delete,
      Taken!Job, Taken!Rows, Taken!Request, Taken!Answered, Taken!Fresh, Taken!Duplicate, Taken!Creating, Taken!Uploading,
      Taken!Imported, Taken!Importing, Taken!Checked, Taken!Import, Taken!At,
      TakenThms!Job, TakenThms!Rows, TakenThms!Request, TakenThms!Answered, TakenThms!Fresh, TakenThms!Duplicate, TakenThms!Creating, TakenThms!Uploading,
      TakenThms!Imported, TakenThms!Importing, TakenThms!Checked, TakenThms!Import, TakenThms!At
  <2>2. QED
    BY <2>1 DEF Next, vars, jobVars, TakenThms!vars
<1>3. QED
  BY <1>1, <1>2, PTL DEF Spec, TakenThms!Spec

\* No video is taken in twice, unless two have looked at one time.
THEOREM TakenOnce == Spec => []OncePerVideo
<1>1. TakenThms!Legal
  BY ServicesAssumption DEF TakenThms!Legal
<1>2. TakenThms!Spec => []TakenThms!OncePerVideo
  BY <1>1, TakenThms!NeverTwice, PTL
<1>3. TakenThms!OncePerVideo => Taken!OncePerVideo
  BY TakenCount DEF TakenThms!OncePerVideo, Taken!OncePerVideo, TakenThms!Rows, Taken!Rows
<1>4. ~(part = "jobs") /\ [Next]_vars => ~(part = "jobs")'
  BY DEF Next, vars
<1>5. QED
  BY <1>2, <1>3, <1>4, TakenPart, PTL DEF Spec, OncePerVideo

---------------------------------------------------------------------------------
(* Folds over a sequence *)

Greatest(s) == CHOOSE x \in s : \A y \in s : x >= y

\* A set of places of a sequence has a last one, and what is left of it is one of places.
LEMMA GreatestIs ==
    ASSUME NEW n \in Nat, NEW s \in SUBSET (1..n), s # {}
    PROVE  /\ Greatest(s) \in s /\ \A y \in s : y <= Greatest(s)
           /\ s \ {Greatest(s)} \in SUBSET (1..n)
<1>1. s \in SUBSET Nat /\ \A k \in s : k <= n
  OBVIOUS
<1>2. \E m \in s : \A k \in s : k <= m
  BY <1>1, GreatestNat
<1>3. \E x \in s : \A y \in s : x >= y
  BY <1>1, <1>2
<1> QED
  BY <1>1, <1>3 DEF Greatest

\* f goes through the places of a sequence from the first to the last by the steps S.
FoldsBy(f, n, a, S) ==
    \A s \in SUBSET (1..n) : f[s] = IF s = {} THEN a ELSE S[Greatest(s)][f[s \ {Greatest(s)}]]

\* There is such a function.
LEMMA FoldExists ==
    ASSUME NEW n \in Nat, NEW A, NEW a \in A, NEW S \in [1..n -> [A -> A]]
    PROVE  \E f \in [SUBSET (1..n) -> A] : FoldsBy(f, n, a, S)
<1> DEFINE Step(s) == [k \in 0..n |-> [q \in A |-> IF k \in s THEN S[k][q] ELSE q]]
           h(s) == CHOOSE f : Unfolds(f, 0, n, A, a, Step(s))
           f == [s \in SUBSET (1..n) |-> h(s)[n]]
<1>1. ASSUME NEW s \in SUBSET (1..n) PROVE Unfolds(h(s), 0, n, A, a, Step(s))
  <2>1. ASSUME NEW k \in 0..n, NEW q \in A PROVE (IF k \in s THEN S[k][q] ELSE q) \in A
    OBVIOUS
  <2>2. Step(s) \in [0..n -> [A -> A]]
    BY <2>1
  <2>3. 0 \in Int /\ n \in Int
    OBVIOUS
  <2> HIDE DEF Step
  <2> QED
    BY <2>2, <2>3, RecursionUpTo
<1>2. ASSUME NEW s \in SUBSET (1..n)
      PROVE  /\ h(s) \in [0..n -> A] /\ h(s)[0] = a
             /\ \A k \in 1..n : h(s)[k] = IF k \in s THEN S[k][h(s)[k - 1]] ELSE h(s)[k - 1]
  <2>1. h(s) \in [0..n -> A] /\ \A k \in 0..n : h(s)[k] = IF k = 0 THEN a ELSE Step(s)[k][h(s)[k - 1]]
    <3> HIDE DEF h, Step
    <3> QED
      BY <1>1 DEF Unfolds
  <2>2. \A k \in 0..n, q \in A : Step(s)[k][q] = IF k \in s THEN S[k][q] ELSE q
    OBVIOUS
  <2> HIDE DEF h, Step
  <2> QED
    BY <2>1, <2>2
<1> HIDE DEF h, Step
<1>3. ASSUME NEW s \in SUBSET (1..n), NEW m \in 0..n, \A k \in s : k <= m PROVE h(s)[n] = h(s)[m]
  <2> DEFINE T == {k \in m..n : h(s)[k] = h(s)[m]}
  <2>1. m \in Int /\ n \in Int /\ (m <= n => m \in T)
    OBVIOUS
  <2>2. ASSUME NEW i \in m..n, i \in T, i + 1 \in m..n PROVE i + 1 \in T
    <3>1. i + 1 \in 1..n /\ (i + 1) - 1 = i /\ i + 1 \notin s
      BY <1>3, <2>2
    <3> QED
      BY <1>2, <2>2, <3>1
  <2> HIDE DEF T
  <2>3. \A i \in m..n : i \in T
    BY <2>1, <2>2, Upwards
  <2>4. n \in T
    BY <2>3
  <2> QED
    BY <2>4 DEF T
<1>4. ASSUME NEW s \in SUBSET (1..n), NEW t \in SUBSET (1..n), NEW m \in 0..n, \A k \in 1..m : k \in s <=> k \in t
      PROVE  h(s)[m] = h(t)[m]
  <2> DEFINE T == {k \in 0..m : h(s)[k] = h(t)[k]}
  <2>1. 0 \in Int /\ m \in Int /\ 0 \in T
    BY <1>2
  <2>2. ASSUME NEW i \in 0..m, i \in T, i + 1 \in 0..m PROVE i + 1 \in T
    <3>1. i + 1 \in 1..n /\ (i + 1) - 1 = i /\ (i + 1 \in s <=> i + 1 \in t)
      BY <1>4, <2>2
    <3> QED
      BY <1>2, <2>2, <3>1
  <2> HIDE DEF T
  <2>3. \A i \in 0..m : i \in T
    BY <2>1, <2>2, Upwards
  <2>4. m \in T
    BY <2>3
  <2> QED
    BY <2>4 DEF T
<1>5. f \in [SUBSET (1..n) -> A]
  <2>1. \A s \in SUBSET (1..n) : h(s)[n] \in A
    BY <1>2
  <2> QED
    BY <2>1
<1>6. ASSUME NEW s \in SUBSET (1..n)
      PROVE  f[s] = IF s = {} THEN a ELSE S[Greatest(s)][f[s \ {Greatest(s)}]]
  <2>1. CASE s = {}
    <3>1. h(s)[n] = h(s)[0]
      BY <1>3, <2>1
    <3> QED
      BY <1>2, <2>1, <3>1
  <2>2. CASE s # {}
    <3> DEFINE m == Greatest(s)
               t == s \ {m}
    <3>1. m \in s /\ m \in 1..n /\ t \in SUBSET (1..n) /\ \A y \in s : y <= m
      BY <2>2, GreatestIs
    <3> HIDE DEF m
    <3>2. m - 1 \in 0..n /\ m \in 0..n /\ \A k \in t : k <= m - 1
      BY <3>1
    <3>3. \A k \in 1..(m - 1) : k \in s <=> k \in t
      BY <3>1
    <3> HIDE DEF t
    <3>4. h(s)[n] = h(s)[m] /\ h(t)[n] = h(t)[m - 1]
      BY <1>3, <3>1, <3>2
    <3>5. h(s)[m - 1] = h(t)[m - 1]
      BY <1>4, <3>1, <3>2, <3>3
    <3>6. h(s)[m] = S[m][h(s)[m - 1]]
      BY <1>2, <3>1
    <3>7. f[s] = h(s)[n] /\ f[t] = h(t)[n]
      BY <3>1
    <3> HIDE DEF f
    <3>8. f[s] = S[m][f[t]]
      BY <3>4, <3>5, <3>6, <3>7
    <3> QED
      BY <2>2, <3>8 DEF m, t
  <2> QED
    BY <2>1, <2>2
<1> HIDE DEF f
<1> QED
  BY <1>5, <1>6 DEF FoldsBy

\* F begins with a, and goes on by S where it stays in A.
GoesBy(F, n, A, a, S) ==
    /\ F[{}] = a
    /\ \A s \in SUBSET (1..n) : (s # {} /\ F[s \ {Greatest(s)}] \in A) =>
         F[s] = S[Greatest(s)][F[s \ {Greatest(s)}]]

\* What F says of the places up to each follows from place to place.
GoesAlong(F, n, A, a, S) ==
    \A k \in 0..n : /\ F[1..k] \in A
                    /\ k = 0 => F[1..k] = a
                    /\ k # 0 => F[1..k] = S[k][F[1..(k - 1)]]

\* The first implies the second.
LEMMA FoldUnfolds ==
    ASSUME NEW n \in Nat, NEW A, NEW a \in A, NEW S \in [1..n -> [A -> A]], NEW F, GoesBy(F, n, A, a, S)
    PROVE  GoesAlong(F, n, A, a, S)
<1>1. ASSUME NEW k \in 1..n
      PROVE  1..k \in SUBSET (1..n) /\ 1..k # {} /\ Greatest(1..k) = k /\ (1..k) \ {k} = 1..(k - 1)
  <2>1. 1..k \in SUBSET (1..n) /\ k \in 1..k
    OBVIOUS
  <2>2. Greatest(1..k) \in 1..k /\ k <= Greatest(1..k)
    BY <2>1, GreatestIs
  <2> QED
    BY <2>1, <2>2
<1>2. 1..0 = {}
  OBVIOUS
<1>0. /\ F[{}] = a
      /\ \A s \in SUBSET (1..n) : (s # {} /\ F[s \ {Greatest(s)}] \in A) =>
           F[s] = S[Greatest(s)][F[s \ {Greatest(s)}]]
  BY DEF GoesBy
<1> DEFINE T == {k \in 0..n : F[1..k] \in A /\ (k # 0 => F[1..k] = S[k][F[1..(k - 1)]])}
<1>3. 0 \in Int /\ n \in Int /\ 0 \in T
  BY <1>0, <1>2
<1>4. ASSUME NEW i \in 0..n, i \in T, i + 1 \in 0..n PROVE i + 1 \in T
  <2>1. i + 1 \in 1..n /\ (i + 1) - 1 = i /\ F[1..i] \in A
    BY <1>4
  <2>2. 1..(i + 1) \in SUBSET (1..n) /\ 1..(i + 1) # {} /\ Greatest(1..(i + 1)) = i + 1
        /\ (1..(i + 1)) \ {i + 1} = 1..i
    BY <1>1, <2>1
  <2> DEFINE U == 1..(i + 1)
             V == 1..i
  <2>3. U \in SUBSET (1..n) /\ U # {} /\ Greatest(U) = i + 1 /\ U \ {Greatest(U)} = V /\ F[V] \in A
    BY <2>1, <2>2
  <2> HIDE DEF U, V
  <2>4. F[U] = S[i + 1][F[V]]
    BY <1>0, <2>3
  <2>5. S[i + 1][F[V]] \in A
    BY <2>1, <2>3
  <2> QED
    BY <2>1, <2>4, <2>5 DEF U, V
<1> HIDE DEF T
<1>5. \A i \in 0..n : i \in T
  BY <1>3, <1>4, Upwards
<1> QED
  BY <1>0, <1>2, <1>5 DEF T, GoesAlong


\* The beginning of a sequence, and one more of it.
LEMMA Beginnings ==
    ASSUME NEW T, NEW t \in Seq(T), NEW k \in 0..Len(t)
    PROVE  /\ SubSeq(t, 1, k) \in Seq(T) /\ Len(SubSeq(t, 1, k)) = k
           /\ \A i \in 1..k : SubSeq(t, 1, k)[i] = t[i]
           /\ k + 1 \in 0..Len(t) => SubSeq(t, 1, k + 1) = Append(SubSeq(t, 1, k), t[k + 1])
           /\ k = Len(t) => SubSeq(t, 1, k) = t
<1>1. Len(t) \in Nat /\ \A i \in 1..Len(t) : t[i] \in T
  OBVIOUS
<1>2. ASSUME NEW j \in 0..Len(t)
      PROVE  SubSeq(t, 1, j) \in Seq(T) /\ Len(SubSeq(t, 1, j)) = j /\ \A i \in 1..j : SubSeq(t, 1, j)[i] = t[i]
  <2>1. \A i \in 1..j : t[i] \in T
    BY <1>1
  <2>2. /\ SubSeq(t, 1, j) \in Seq(T) /\ Len(SubSeq(t, 1, j)) = IF 1 <= j THEN j - 1 + 1 ELSE 0
        /\ \A i \in 1..Len(SubSeq(t, 1, j)) : SubSeq(t, 1, j)[i] = t[1 + i - 1]
    BY <2>1, SubSeqProperties
  <2> QED
    BY <2>2
<1>3. ASSUME k + 1 \in 0..Len(t) PROVE SubSeq(t, 1, k + 1) = Append(SubSeq(t, 1, k), t[k + 1])
  <2> DEFINE a == SubSeq(t, 1, k + 1)
             b == Append(SubSeq(t, 1, k), t[k + 1])
  <2>1. a \in Seq(T) /\ Len(a) = k + 1 /\ \A i \in 1..(k + 1) : a[i] = t[i]
    BY <1>2, <1>3
  <2>2. b \in Seq(T) /\ Len(b) = k + 1 /\ \A i \in 1..(k + 1) : b[i] = IF i <= k THEN SubSeq(t, 1, k)[i] ELSE t[k + 1]
    <3>1. SubSeq(t, 1, k) \in Seq(T) /\ Len(SubSeq(t, 1, k)) = k /\ t[k + 1] \in T
      BY <1>1, <1>2, <1>3
    <3> QED
      BY <3>1, AppendProperties
  <2>3. \A i \in 1..k : SubSeq(t, 1, k)[i] = t[i]
    BY <1>2
  <2> HIDE DEF a, b
  <2>4. \A i \in 1..Len(a) : a[i] = b[i]
    BY <2>1, <2>2, <2>3
  <2>5. a = b
    BY <2>1, <2>2, <2>4, SeqEqual
  <2> QED
    BY <2>5 DEF a, b
<1>4. k = Len(t) => SubSeq(t, 1, k) = t
  BY SubSeqFull
<1> QED
  BY <1>2, <1>3, <1>4

\* One more at the end of what is put behind.
LEMMA Behind ==
    ASSUME NEW T, NEW w \in Seq(T), NEW t \in Seq(T), NEW x \in T
    PROVE  w \o Append(t, x) = Append(w \o t, x)
<1>1. Append(t, x) = t \o <<x>> /\ Append(w \o t, x) = (w \o t) \o <<x>> /\ <<x>> \in Seq(T)
  BY AppendIsConcat, ConcatProperties
<1> QED
  BY <1>1, ConcatAssociative

\* g goes through a sequence from its beginning by the steps S of its members.
Along(g, w, A, a, S) ==
    g \in [0..Len(w) -> A] /\ g[0] = a /\ \A k \in 1..Len(w) : g[k] = S[w[k]][g[k - 1]]

\* What is got in the end.
Result(r, w, A, a, S) == \E g : Along(g, w, A, a, S) /\ r = g[Len(w)]

\* A fold goes through its sequence.
LEMMA FoldResult ==
    ASSUME NEW X, NEW w \in Seq(X), NEW A, NEW a \in A, NEW S \in [X -> [A -> A]], NEW F,
           GoesBy(F, Len(w), A, a, [k \in 1..Len(w) |-> S[w[k]]])
    PROVE  Result(F[1..Len(w)], w, A, a, S)
<1> DEFINE n == Len(w)
           R == [k \in 1..n |-> S[w[k]]]
           g == [k \in 0..n |-> F[1..k]]
<1>1. n \in Nat /\ R \in [1..n -> [A -> A]] /\ \A k \in 1..n : R[k] = S[w[k]]
  <2>1. \A k \in 1..n : w[k] \in X
    OBVIOUS
  <2> QED
    BY <2>1
<1>2. GoesBy(F, n, A, a, R)
  OBVIOUS
<1> HIDE DEF n, R
<1>3. GoesAlong(F, n, A, a, R)
  BY <1>1, <1>2, FoldUnfolds
<1>4. g \in [0..n -> A] /\ g[0] = a /\ g[n] = F[1..n]
  BY <1>1, <1>3 DEF GoesAlong
<1>5. ASSUME NEW k \in 1..n PROVE g[k] = S[w[k]][g[k - 1]]
  <2>1. g[k] = F[1..k] /\ g[k - 1] = F[1..(k - 1)] /\ k \in 0..n /\ k # 0
    BY <1>1
  <2> QED
    BY <1>1, <1>3, <2>1 DEF GoesAlong
<1> HIDE DEF g
<1>6. Along(g, w, A, a, S)
  BY <1>4, <1>5 DEF Along, n
<1> QED
  BY <1>4, <1>6 DEF Result, n

\* Of an empty sequence it is the beginning.
LEMMA ResultOfNone ==
    ASSUME NEW A, NEW a, NEW S, NEW r, Result(r, <<>>, A, a, S) PROVE r = a
<1>1. Len(<<>>) = 0
  OBVIOUS
<1> QED
  BY <1>1 DEF Result, Along

\* A member more is a step more.
LEMMA ResultOfMore ==
    ASSUME NEW X, NEW w \in Seq(X), NEW x \in X, NEW A, NEW a, NEW S, NEW r,
           Result(r, Append(w, x), A, a, S)
    PROVE  r \in A \cup {S[x][q] : q \in A} /\ \E q \in A : Result(q, w, A, a, S) /\ r = S[x][q]
<1> DEFINE v == Append(w, x)
           n == Len(w)
<1>1. Len(v) = n + 1 /\ n \in Nat /\ v[n + 1] = x /\ \A k \in 1..n : v[k] = w[k]
  BY AppendProperties
<1> HIDE DEF v
<1>2. PICK g : Along(g, v, A, a, S) /\ r = g[n + 1]
  BY <1>1 DEF Result, v
<1> HIDE DEF n
<1>3. /\ g \in [0..(n + 1) -> A] /\ g[0] = a
      /\ \A k \in 1..(n + 1) : g[k] = S[v[k]][g[k - 1]]
  BY <1>1, <1>2 DEF Along
<1> DEFINE h == [k \in 0..n |-> g[k]]
<1>4. h \in [0..n -> A] /\ h[0] = a /\ h[n] = g[n] /\ g[n] \in A
  BY <1>1, <1>3
<1>5. ASSUME NEW k \in 1..n PROVE h[k] = S[w[k]][h[k - 1]]
  <2>1. k \in 1..(n + 1) /\ k \in 0..n /\ k - 1 \in 0..n /\ v[k] = w[k]
    BY <1>1
  <2> QED
    BY <1>3, <2>1
<1> HIDE DEF h
<1>6. Result(g[n], w, A, a, S)
  BY <1>4, <1>5 DEF Result, Along, n
<1>7. r = S[x][g[n]]
  <2>1. n + 1 \in 1..(n + 1) /\ (n + 1) - 1 = n
    BY <1>1
  <2> QED
    BY <1>1, <1>2, <1>3, <2>1
<1> QED
  BY <1>4, <1>6, <1>7

\* What holds of the empty sequence, and of one more whenever of one, holds of all.
LEMMA Sequentially ==
    ASSUME NEW X, NEW T, <<>> \in T, \A w \in Seq(X), x \in X : w \in T => Append(w, x) \in T
    PROVE  \A w \in Seq(X) : w \in T
<1> SUFFICES ASSUME NEW w \in Seq(X) PROVE w \in T
  OBVIOUS
<1> DEFINE U == {k \in 0..Len(w) : SubSeq(w, 1, k) \in T}
<1>1. Len(w) \in Nat /\ \A k \in 1..Len(w) : w[k] \in X
  OBVIOUS
<1>2. 0 \in Int /\ Len(w) \in Int /\ 0 \in U
  <2> DEFINE e == SubSeq(w, 1, 0)
  <2>1. e = <<>>
    BY SubSeqEmpty
  <2> HIDE DEF e
  <2>2. e \in T
    BY <2>1
  <2>3. 0 \in 0..Len(w)
    BY <1>1
  <2> QED
    BY <1>1, <2>2, <2>3 DEF e
<1>3. ASSUME NEW k \in 0..Len(w), k \in U, k + 1 \in 0..Len(w) PROVE k + 1 \in U
  <2>1. SubSeq(w, 1, k) \in Seq(X) /\ SubSeq(w, 1, k + 1) = Append(SubSeq(w, 1, k), w[k + 1])
    BY <1>3, Beginnings
  <2>2. w[k + 1] \in X /\ SubSeq(w, 1, k) \in T
    BY <1>1, <1>3
  <2> QED
    BY <1>3, <2>1, <2>2
<1> HIDE DEF U
<1>4. \A k \in 0..Len(w) : k \in U
  BY <1>2, <1>3, Upwards
<1>5. Len(w) \in U /\ SubSeq(w, 1, Len(w)) = w
  <2>1. Len(w) \in 0..Len(w)
    BY <1>1
  <2> QED
    BY <1>4, <2>1, Beginnings
<1> QED
  BY <1>5 DEF U

---------------------------------------------------------------------------------
(* TranscriptText: its folds *)

Texts  == DOMAIN Length \cup {Blank}
Cues   == [at : Nat \cup {None}, text : Texts]
Lines  == {l \in [kind : {"stamped", "plain", "header"}, at : Nat \cup {None}, text : Texts] :
             (l.kind # "plain" => l.at \in Nat) /\ (l.kind # "stamped" => l.text \in DOMAIN Length)}
Heard  == [at : Nat, text : Texts]
Pieces == [texts : Seq(Texts), from : Nat, to : Nat, size : Int]

\* _parse_vtt, cue by cue.
Cued(kept, cue) ==
    IF cue.text = Blank \/ \E i \in DOMAIN kept : kept[i].text = cue.text THEN kept
    ELSE Append(kept, IF cue.at = None THEN Cut!Plain(cue.text) ELSE Cut!Stamped(cue.at, cue.text))

Parsing == [c \in Cues |-> [q \in Seq(Lines) |-> Cued(q, c)]]

\* What is read are lines.
LEMMA CuedTyped == ASSUME NEW q \in Seq(Lines), NEW c \in Cues PROVE Cued(q, c) \in Seq(Lines)
<1>1. c.text # Blank => (IF c.at = None THEN Cut!Plain(c.text) ELSE Cut!Stamped(c.at, c.text)) \in Lines
  BY DEF Cues, Lines, Texts, Cut!Plain, Cut!Stamped
<1> QED
  BY <1>1, AppendProperties DEF Cued

\* As a function of the cue and of what is kept.
LEMMA ParsingTyped ==
    /\ Parsing \in [Cues -> [Seq(Lines) -> Seq(Lines)]] /\ <<>> \in Seq(Lines)
    /\ \A e \in Cues, q \in Seq(Lines) : Parsing[e][q] = Cued(q, e)
  BY CuedTyped DEF Parsing

\* Parse goes from cue to cue.
LEMMA ParseIs ==
    ASSUME NEW w \in Seq(Cues)
    PROVE  \E r : Result(r, w, Seq(Lines), <<>>, Parsing) /\ Cut!Parse(w) = r
<1> DEFINE n == Len(w)
           R == [k \in 1..n |-> Parsing[w[k]]]
           D == DOMAIN w
           Def(f) == f = [s \in SUBSET D |->
                            IF s = {} THEN <<>>
                            ELSE Cued(f[s \ {Greatest(s)}], w[Greatest(s)])]
           iter == CHOOSE f : Def(f)
<1>1. n \in Nat /\ D = 1..n /\ \A k \in 1..n : w[k] \in Cues
  OBVIOUS
<1>2. Cut!Parse(w) = iter[D]
  BY DEF Cut!Parse, Cut!FoldLeft, Cut!MapThenFoldSet, Cut!Max, Cued, Greatest
<1>3. /\ Parsing \in [Cues -> [Seq(Lines) -> Seq(Lines)]] /\ <<>> \in Seq(Lines)
      /\ \A e \in Cues, q \in Seq(Lines) : Parsing[e][q] = Cued(q, e)
  BY ParsingTyped
<1>4. R \in [1..n -> [Seq(Lines) -> Seq(Lines)]] /\ \A k \in 1..n, q \in Seq(Lines) : R[k][q] = Cued(q, w[k])
  BY <1>1, <1>3
<1> HIDE DEF R, n
<1>5. PICK f \in [SUBSET (1..n) -> Seq(Lines)] : FoldsBy(f, n, <<>>, R)
  BY <1>1, <1>3, <1>4, FoldExists
<1>6. ASSUME NEW s \in SUBSET (1..n)
      PROVE  f[s] = IF s = {} THEN <<>> ELSE Cued(f[s \ {Greatest(s)}], w[Greatest(s)])
  <2>1. s # {} => Greatest(s) \in 1..n /\ s \ {Greatest(s)} \in SUBSET (1..n)
    BY <1>1, GreatestIs
  <2> QED
    BY <1>4, <1>5, <2>1 DEF FoldsBy
<1>7. Def(f)
  BY <1>1, <1>6
<1> HIDE DEF Def
<1>8. Def(iter)
  BY <1>7
<1> USE DEF Def
<1>9. \A s \in SUBSET (1..n) :
         iter[s] = IF s = {} THEN <<>> ELSE Cued(iter[s \ {Greatest(s)}], w[Greatest(s)])
  BY <1>1, <1>8
<1> HIDE DEF Def, iter
<1>10. GoesBy(iter, n, Seq(Lines), <<>>, R)
  <2>1. iter[{}] = <<>>
    BY <1>9
  <2>2. \A s \in SUBSET (1..n) : (s # {} /\ iter[s \ {Greatest(s)}] \in Seq(Lines)) =>
             iter[s] = R[Greatest(s)][iter[s \ {Greatest(s)}]]
    BY <1>1, <1>4, <1>9, GreatestIs
  <2> QED
    BY <2>1, <2>2 DEF GoesBy
<1>11. Result(iter[1..n], w, Seq(Lines), <<>>, Parsing)
  BY <1>3, <1>10, FoldResult DEF R, n
<1> QED
  BY <1>1, <1>2, <1>11

\* _embed_chapters, line by line: the chapters that have begun are put before it.
Due(left, at) ==
    LET later == Cut!SelectInSeq(left, LAMBDA x : x > at)
    IN  IF later = 0 THEN left ELSE SubSeq(left, 1, later - 1)

Put(acc, l) ==
    IF l.kind = "stamped"
    THEN LET due == Due(acc.left, l.at)
         IN  [left |-> SubSeq(acc.left, Len(due) + 1, Len(acc.left)),
              out  |-> Append(acc.out \o Cut!Headers(due), l)]
    ELSE [acc EXCEPT !.out = Append(acc.out, l)]

Placing == [left : Seq(Nat), out : Seq(Lines)]
Putting == [l \in Lines |-> [q \in Placing |-> Put(q, l)]]

\* What is due is the beginning of what is left, up to the first chapter that is later.
LEMMA DueIs ==
    ASSUME NEW c \in Seq(Nat), NEW t \in Nat
    PROVE  \E d \in 0..Len(c) : /\ Due(c, t) = SubSeq(c, 1, d) /\ Len(Due(c, t)) = d /\ Due(c, t) \in Seq(Nat)
                                /\ \A i \in 1..d : c[i] <= t /\ Due(c, t)[i] = c[i]
                                /\ d < Len(c) => c[d + 1] > t
<1> DEFINE I == {i \in 1..Len(c) : c[i] > t}
           later == CHOOSE x \in I : \A y \in I : x =< y
<1>1. Len(c) \in Nat /\ \A i \in 1..Len(c) : c[i] \in Nat
  OBVIOUS
<1>2. Due(c, t) = IF I = {} THEN c ELSE IF later = 0 THEN c ELSE SubSeq(c, 1, later - 1)
  BY DEF Due, Cut!SelectInSeq, Cut!Min
<1>3. I \in SUBSET Nat /\ \A i \in I : i \in 1..Len(c) /\ c[i] > t
  BY <1>1
<1>4. \A i \in 1..Len(c) : i \notin I => c[i] <= t
  BY <1>1
<1>5. I # {} => later \in I /\ \A y \in I : later <= y
  <2> HIDE DEF I
  <2> QED
    BY <1>3, LeastNat
<1> HIDE DEF I, later
<1>6. CASE I = {}
  <2> DEFINE d == Len(c)
  <2>1. d \in 0..Len(c) /\ ~(d < Len(c))
    BY <1>1
  <2>2. Due(c, t) = c /\ SubSeq(c, 1, d) = c
    BY <1>1, <1>2, <1>6, <2>1, Beginnings
  <2>3. \A i \in 1..d : c[i] <= t
    BY <1>4, <1>6
  <2> HIDE DEF Due
  <2>4. Len(Due(c, t)) = d /\ Due(c, t) \in Seq(Nat) /\ \A i \in 1..d : Due(c, t)[i] = c[i]
    BY <2>2
  <2>5. Due(c, t) = SubSeq(c, 1, d)
    BY <2>2
  <2> HIDE DEF d
  <2> QED
    BY <2>1, <2>3, <2>4, <2>5
<1>7. CASE I # {}
  <2> DEFINE d == later - 1
  <2>0. later \in I /\ (\A y \in I : later <= y) /\ later \in 1..Len(c) /\ c[later] > t
    BY <1>3, <1>5, <1>7
  <2>1. d \in 0..Len(c) /\ d < Len(c) /\ d + 1 = later /\ later # 0
    BY <1>1, <2>0
  <2>2. \A i \in 1..d : c[i] <= t
    <3> SUFFICES ASSUME NEW i \in 1..d PROVE c[i] <= t
      OBVIOUS
    <3>1. i \in 1..Len(c) /\ ~(later <= i)
      BY <1>1, <2>0
    <3>2. i \notin I
      BY <2>0, <3>1
    <3> QED
      BY <1>4, <3>1, <3>2
  <2>3. Due(c, t) = SubSeq(c, 1, d) /\ c[d + 1] > t
    BY <1>2, <1>7, <2>0, <2>1
  <2> HIDE DEF d
  <2>4. SubSeq(c, 1, d) \in Seq(Nat) /\ Len(SubSeq(c, 1, d)) = d /\ \A i \in 1..d : SubSeq(c, 1, d)[i] = c[i]
    BY <2>1, Beginnings
  <2> HIDE DEF Due
  <2>5. Len(Due(c, t)) = d /\ Due(c, t) \in Seq(Nat) /\ \A i \in 1..d : Due(c, t)[i] = c[i]
    BY <2>3, <2>4
  <2> QED
    BY <2>1, <2>2, <2>3, <2>5
<1> QED
  BY <1>6, <1>7

\* What is left behind a beginning.
LEMMA LeftIs ==
    ASSUME NEW c \in Seq(Nat), NEW d \in 0..Len(c)
    PROVE  /\ SubSeq(c, d + 1, Len(c)) \in Seq(Nat) /\ Len(SubSeq(c, d + 1, Len(c))) = Len(c) - d
           /\ \A i \in 1..(Len(c) - d) : SubSeq(c, d + 1, Len(c))[i] = c[d + i]
<1> DEFINE q == SubSeq(c, d + 1, Len(c))
<1>1. Len(c) \in Nat /\ d \in Nat /\ d <= Len(c) /\ \A i \in (d + 1)..Len(c) : c[i] \in Nat
  OBVIOUS
<1>2. /\ q \in Seq(Nat) /\ Len(q) = IF d + 1 <= Len(c) THEN Len(c) - (d + 1) + 1 ELSE 0
      /\ \A i \in 1..Len(q) : q[i] = c[(d + 1) + i - 1]
  BY <1>1, SubSeqProperties
<1> HIDE DEF q
<1>3. Len(q) = Len(c) - d
  BY <1>1, <1>2
<1>4. \A i \in 1..(Len(c) - d) : (d + 1) + i - 1 = d + i
  BY <1>1
<1> QED
  BY <1>2, <1>3, <1>4 DEF q

\* Chapters become as many headers.
LEMMA HeadersAre ==
    ASSUME NEW c \in Seq(Nat)
    PROVE  /\ Cut!Headers(c) \in Seq(Lines) /\ Len(Cut!Headers(c)) = Len(c)
           /\ \A i \in 1..Len(c) : Cut!Headers(c)[i] = Cut!Header(c[i]) /\ Cut!Header(c[i]) \in Lines
<1>1. DOMAIN c = 1..Len(c) /\ Len(c) \in Nat /\ \A i \in 1..Len(c) : c[i] \in Nat
  OBVIOUS
<1>2. \A i \in 1..Len(c) : Cut!Header(c[i]) \in Lines
  BY <1>1, CaptionAssumption DEF Cut!Header, Lines, Texts
<1>3. Cut!Headers(c) = [i \in 1..Len(c) |-> Cut!Header(c[i])]
  BY <1>1 DEF Cut!Headers
<1> QED
  BY <1>1, <1>2, <1>3

\* What is left and what is put out stay what they are.
LEMMA PutTyped == ASSUME NEW q \in Placing, NEW l \in Lines PROVE Put(q, l) \in Placing
<1>1. q.left \in Seq(Nat) /\ q.out \in Seq(Lines)
  BY DEF Placing
<1>2. CASE l.kind = "stamped"
  <2>1. l.at \in Nat
    BY <1>2 DEF Lines
  <2>2. PICK d \in 0..Len(q.left) : Len(Due(q.left, l.at)) = d /\ Due(q.left, l.at) \in Seq(Nat)
    BY <1>1, <2>1, DueIs
  <2>3. SubSeq(q.left, d + 1, Len(q.left)) \in Seq(Nat)
    BY <1>1, LeftIs
  <2>4. Cut!Headers(Due(q.left, l.at)) \in Seq(Lines)
    BY <2>2, HeadersAre
  <2>5. Append(q.out \o Cut!Headers(Due(q.left, l.at)), l) \in Seq(Lines)
    BY <1>1, <2>4, ConcatProperties, AppendProperties
  <2>6. Put(q, l) = [left |-> SubSeq(q.left, Len(Due(q.left, l.at)) + 1, Len(q.left)),
                     out  |-> Append(q.out \o Cut!Headers(Due(q.left, l.at)), l)]
    BY <1>2 DEF Put
  <2> HIDE DEF Due
  <2> QED
    BY <2>2, <2>3, <2>5, <2>6 DEF Placing
<1>3. CASE l.kind # "stamped"
  <2>1. Append(q.out, l) \in Seq(Lines)
    BY <1>1, AppendProperties
  <2> QED
    BY <1>1, <1>3, <2>1 DEF Put, Placing
<1> QED
  BY <1>2, <1>3

\* As a function of the line and of what is put out.
LEMMA PuttingTyped ==
    ASSUME NEW c \in Seq(Nat)
    PROVE  /\ Putting \in [Lines -> [Placing -> Placing]] /\ [left |-> c, out |-> <<>>] \in Placing
           /\ \A e \in Lines, q \in Placing : Putting[e][q] = Put(q, e)
<1>1. [left |-> c, out |-> <<>>] \in Placing
  BY DEF Placing
<1> QED
  BY <1>1, PutTyped DEF Putting

\* Embed goes from line to line, and puts what is left behind the last.
LEMMA EmbedIs ==
    ASSUME NEW w \in Seq(Lines), NEW c \in Seq(Nat)
    PROVE  \E r : Result(r, w, Placing, [left |-> c, out |-> <<>>], Putting) /\ Cut!Embed(w, c) = r.out \o Cut!Headers(r.left)
<1> DEFINE n == Len(w)
           R == [k \in 1..n |-> Putting[w[k]]]
           D == DOMAIN w
           Def(f) == f = [s \in SUBSET D |->
                            IF s = {} THEN [left |-> c, out |-> <<>>]
                            ELSE Put(f[s \ {Greatest(s)}], w[Greatest(s)])]
           iter == CHOOSE f : Def(f)
<1>1. n \in Nat /\ D = 1..n /\ \A k \in 1..n : w[k] \in Lines
  OBVIOUS
<1>2. Cut!Embed(w, c) = iter[D].out \o Cut!Headers(iter[D].left)
  BY DEF Cut!Embed, Cut!EmbedWith, Cut!FoldLeft, Cut!MapThenFoldSet, Cut!Max, Put, Due, Greatest
<1>3. /\ Putting \in [Lines -> [Placing -> Placing]] /\ [left |-> c, out |-> <<>>] \in Placing
      /\ \A e \in Lines, q \in Placing : Putting[e][q] = Put(q, e)
  BY PuttingTyped
<1>4. R \in [1..n -> [Placing -> Placing]] /\ \A k \in 1..n, q \in Placing : R[k][q] = Put(q, w[k])
  BY <1>1, <1>3
<1> HIDE DEF R, n
<1>5. PICK f \in [SUBSET (1..n) -> Placing] : FoldsBy(f, n, [left |-> c, out |-> <<>>], R)
  BY <1>1, <1>3, <1>4, FoldExists
<1>6. ASSUME NEW s \in SUBSET (1..n)
      PROVE  f[s] = IF s = {} THEN [left |-> c, out |-> <<>>] ELSE Put(f[s \ {Greatest(s)}], w[Greatest(s)])
  <2>1. s # {} => Greatest(s) \in 1..n /\ s \ {Greatest(s)} \in SUBSET (1..n)
    BY <1>1, GreatestIs
  <2> QED
    BY <1>4, <1>5, <2>1 DEF FoldsBy
<1>7. Def(f)
  BY <1>1, <1>6
<1> HIDE DEF Def
<1>8. Def(iter)
  BY <1>7
<1> USE DEF Def
<1>9. \A s \in SUBSET (1..n) :
         iter[s] = IF s = {} THEN [left |-> c, out |-> <<>>] ELSE Put(iter[s \ {Greatest(s)}], w[Greatest(s)])
  BY <1>1, <1>8
<1> HIDE DEF Def, iter
<1>10. GoesBy(iter, n, Placing, [left |-> c, out |-> <<>>], R)
  <2>1. iter[{}] = [left |-> c, out |-> <<>>]
    BY <1>9
  <2>2. \A s \in SUBSET (1..n) : (s # {} /\ iter[s \ {Greatest(s)}] \in Placing) =>
             iter[s] = R[Greatest(s)][iter[s \ {Greatest(s)}]]
    BY <1>1, <1>4, <1>9, GreatestIs
  <2> QED
    BY <2>1, <2>2 DEF GoesBy
<1>11. Result(iter[1..n], w, Placing, [left |-> c, out |-> <<>>], Putting)
  BY <1>3, <1>10, FoldResult DEF R, n
<1> QED
  BY <1>1, <1>2, <1>11

\* segment_transcript, line by line: what is said, and when.
Uttered(acc, l) ==
    CASE l.kind = "stamped" ->
            [last |-> l.at, out |-> IF l.text = Blank THEN acc.out
                                    ELSE Append(acc.out, [at |-> l.at, text |-> l.text])]
      [] l.kind = "header" -> acc
      [] OTHER -> IF l.text \in Meta THEN acc
                  ELSE [acc EXCEPT !.out = Append(acc.out, [at |-> acc.last, text |-> l.text])]

Hearing == [last : Nat, out : Seq(Heard)]
Saying  == [l \in Lines |-> [q \in Hearing |-> Uttered(q, l)]]

\* What is heard stays entries at whole seconds.
LEMMA UtteredTyped == ASSUME NEW q \in Hearing, NEW l \in Lines PROVE Uttered(q, l) \in Hearing
<1>1. q.last \in Nat /\ q.out \in Seq(Heard) /\ l.text \in Texts
  BY DEF Hearing, Lines
<1>2. CASE l.kind = "stamped"
  <2>1. [at |-> l.at, text |-> l.text] \in Heard
    BY <1>1, <1>2 DEF Lines, Heard
  <2>2. Append(q.out, [at |-> l.at, text |-> l.text]) \in Seq(Heard) /\ l.at \in Nat
    BY <1>1, <1>2, <2>1, AppendProperties DEF Lines
  <2> QED
    BY <1>1, <1>2, <2>2 DEF Uttered, Hearing
<1>3. CASE l.kind = "header"
  BY <1>3 DEF Uttered
<1>4. CASE l.kind \notin {"stamped", "header"}
  <2>1. [at |-> q.last, text |-> l.text] \in Heard
    BY <1>1 DEF Heard
  <2>2. Append(q.out, [at |-> q.last, text |-> l.text]) \in Seq(Heard)
    BY <1>1, <2>1, AppendProperties
  <2>3. \/ Uttered(q, l) = q
        \/ Uttered(q, l) = [q EXCEPT !.out = Append(q.out, [at |-> q.last, text |-> l.text])]
    BY <1>4 DEF Uttered
  <2> QED
    BY <1>1, <2>2, <2>3 DEF Hearing
<1> QED
  BY <1>2, <1>3, <1>4

\* As a function of the line and of what is heard.
LEMMA SayingTyped ==
    /\ Saying \in [Lines -> [Hearing -> Hearing]] /\ [last |-> 0, out |-> <<>>] \in Hearing
    /\ \A e \in Lines, q \in Hearing : Saying[e][q] = Uttered(q, e)
<1>1. [last |-> 0, out |-> <<>>] \in Hearing
  BY DEF Hearing
<1> QED
  BY <1>1, UtteredTyped DEF Saying

\* Entries goes from line to line.
LEMMA EntriesAre ==
    ASSUME NEW w \in Seq(Lines)
    PROVE  \E r : Result(r, w, Hearing, [last |-> 0, out |-> <<>>], Saying) /\ Cut!Entries(w) = r.out
<1> DEFINE n == Len(w)
           R == [k \in 1..n |-> Saying[w[k]]]
           D == DOMAIN w
           Def(f) == f = [s \in SUBSET D |->
                            IF s = {} THEN [last |-> 0, out |-> <<>>]
                            ELSE Uttered(f[s \ {Greatest(s)}], w[Greatest(s)])]
           iter == CHOOSE f : Def(f)
<1>1. n \in Nat /\ D = 1..n /\ \A k \in 1..n : w[k] \in Lines
  OBVIOUS
<1>2. Cut!Entries(w) = iter[D].out
  BY DEF Cut!Entries, Cut!FoldLeft, Cut!MapThenFoldSet, Cut!Max, Uttered, Greatest
<1>3. /\ Saying \in [Lines -> [Hearing -> Hearing]] /\ [last |-> 0, out |-> <<>>] \in Hearing
      /\ \A e \in Lines, q \in Hearing : Saying[e][q] = Uttered(q, e)
  BY SayingTyped
<1>4. R \in [1..n -> [Hearing -> Hearing]] /\ \A k \in 1..n, q \in Hearing : R[k][q] = Uttered(q, w[k])
  BY <1>1, <1>3
<1> HIDE DEF R, n
<1>5. PICK f \in [SUBSET (1..n) -> Hearing] : FoldsBy(f, n, [last |-> 0, out |-> <<>>], R)
  BY <1>1, <1>3, <1>4, FoldExists
<1>6. ASSUME NEW s \in SUBSET (1..n)
      PROVE  f[s] = IF s = {} THEN [last |-> 0, out |-> <<>>] ELSE Uttered(f[s \ {Greatest(s)}], w[Greatest(s)])
  <2>1. s # {} => Greatest(s) \in 1..n /\ s \ {Greatest(s)} \in SUBSET (1..n)
    BY <1>1, GreatestIs
  <2> QED
    BY <1>4, <1>5, <2>1 DEF FoldsBy
<1>7. Def(f)
  BY <1>1, <1>6
<1> HIDE DEF Def
<1>8. Def(iter)
  BY <1>7
<1> USE DEF Def
<1>9. \A s \in SUBSET (1..n) :
         iter[s] = IF s = {} THEN [last |-> 0, out |-> <<>>] ELSE Uttered(iter[s \ {Greatest(s)}], w[Greatest(s)])
  BY <1>1, <1>8
<1> HIDE DEF Def, iter
<1>10. GoesBy(iter, n, Hearing, [last |-> 0, out |-> <<>>], R)
  <2>1. iter[{}] = [last |-> 0, out |-> <<>>]
    BY <1>9
  <2>2. \A s \in SUBSET (1..n) : (s # {} /\ iter[s \ {Greatest(s)}] \in Hearing) =>
             iter[s] = R[Greatest(s)][iter[s \ {Greatest(s)}]]
    BY <1>1, <1>4, <1>9, GreatestIs
  <2> QED
    BY <2>1, <2>2 DEF GoesBy
<1>11. Result(iter[1..n], w, Hearing, [last |-> 0, out |-> <<>>], Saying)
  BY <1>3, <1>10, FoldResult DEF R, n
<1> QED
  BY <1>1, <1>2, <1>11

\* segment_transcript, text by text: one that does not fit begins a segment.
Cutting(acc, e, slack) ==
    IF acc = <<>> THEN <<[Cut!Begun(e) EXCEPT !.size = @ + slack]>>
    ELSE IF Cut!Full(Cut!Last(acc), e) THEN Append(acc, Cut!Begun(e))
    ELSE Append(Cut!Front(acc), Cut!Grown(Cut!Last(acc), e))

\* A text with words.
Word   == [at : Nat, text : DOMAIN Length]
Cuts(slack) == [e \in Word |-> [q \in Seq(Pieces) |-> Cutting(q, e, slack)]]

\* A sequence that is not empty is its front and its last.
LEMMA FrontLast ==
    ASSUME NEW T, NEW q \in Seq(T), q # <<>>
    PROVE  /\ Cut!Front(q) \in Seq(T) /\ Cut!Last(q) \in T /\ q = Append(Cut!Front(q), Cut!Last(q))
           /\ Len(q) \in Nat \ {0} /\ Cut!Last(q) = q[Len(q)] /\ Len(Cut!Front(q)) = Len(q) - 1
           /\ \A i \in 1..(Len(q) - 1) : Cut!Front(q)[i] = q[i]
<1>1. Len(q) \in Nat /\ Len(q) # 0 /\ \A i \in 1..Len(q) : q[i] \in T
  BY EmptySeq
<1>2. Len(q) - 1 \in 0..Len(q) /\ (Len(q) - 1) + 1 = Len(q) /\ Len(q) \in 0..Len(q)
  BY <1>1
<1>3. Cut!Front(q) = SubSeq(q, 1, Len(q) - 1) /\ Cut!Last(q) = q[Len(q)]
  BY DEF Cut!Front, Cut!Last
<1>4. /\ SubSeq(q, 1, Len(q) - 1) \in Seq(T) /\ Len(SubSeq(q, 1, Len(q) - 1)) = Len(q) - 1
      /\ \A i \in 1..(Len(q) - 1) : SubSeq(q, 1, Len(q) - 1)[i] = q[i]
      /\ SubSeq(q, 1, (Len(q) - 1) + 1) = Append(SubSeq(q, 1, Len(q) - 1), q[(Len(q) - 1) + 1])
  BY <1>2, Beginnings
<1>5. SubSeq(q, 1, Len(q)) = q
  BY <1>2, Beginnings
<1> QED
  BY <1>1, <1>2, <1>3, <1>4, <1>5

\* A record of these fields is a piece.
LEMMA PieceIs ==
    ASSUME NEW s \in Seq(Texts), NEW f \in Nat, NEW t \in Nat, NEW z \in Int
    PROVE  [texts |-> s, from |-> f, to |-> t, size |-> z] \in Pieces
  BY DEF Pieces

\* Pieces stay pieces.
LEMMA CuttingTyped ==
    ASSUME NEW q \in Seq(Pieces), NEW e \in Word, NEW slack \in Int
    PROVE  Cutting(q, e, slack) \in Seq(Pieces)
<1>1. e.at \in Nat /\ e.text \in Texts /\ Length[e.text] \in Nat
  BY CaptionAssumption DEF Word, Texts
<1>2. Cut!Begun(e) \in Pieces /\ [Cut!Begun(e) EXCEPT !.size = @ + slack] \in Pieces
  <2>1. Cut!Begun(e) = [texts |-> <<e.text>>, from |-> e.at, to |-> e.at, size |-> Length[e.text]]
    BY DEF Cut!Begun
  <2>2. <<e.text>> \in Seq(Texts) /\ Length[e.text] \in Int /\ Length[e.text] + slack \in Int
    BY <1>1
  <2>3. [Cut!Begun(e) EXCEPT !.size = @ + slack] =
           [texts |-> <<e.text>>, from |-> e.at, to |-> e.at, size |-> Length[e.text] + slack]
    BY <2>1
  <2> DEFINE s == <<e.text>>
             z == Length[e.text]
             y == Length[e.text] + slack
  <2>4. s \in Seq(Texts) /\ z \in Int /\ y \in Int
    BY <2>2
  <2> HIDE DEF s, y, z
  <2>5. [texts |-> s, from |-> e.at, to |-> e.at, size |-> z] \in Pieces
    BY <1>1, <2>4, PieceIs
  <2>6. [texts |-> s, from |-> e.at, to |-> e.at, size |-> y] \in Pieces
    BY <1>1, <2>4, PieceIs
  <2> QED
    BY <2>1, <2>3, <2>5, <2>6 DEF s, y, z
<1>3. CASE q = <<>>
  BY <1>2, <1>3 DEF Cutting
<1>4. CASE q # <<>> /\ Cut!Full(Cut!Last(q), e)
  <2>1. Append(q, Cut!Begun(e)) \in Seq(Pieces)
    BY <1>2, AppendProperties
  <2> QED
    BY <1>4, <2>1 DEF Cutting
<1>5. CASE q # <<>> /\ ~Cut!Full(Cut!Last(q), e)
  <2>1. Cut!Front(q) \in Seq(Pieces) /\ Cut!Last(q) \in Pieces
    BY <1>5, FrontLast
  <2>2. ASSUME NEW p \in Pieces PROVE Cut!Grown(p, e) \in Pieces
    <3>1. p.texts \in Seq(Texts) /\ p.from \in Nat /\ p.size \in Int
      BY DEF Pieces
    <3>2. Append(p.texts, e.text) \in Seq(Texts)
      BY <1>1, <3>1, AppendProperties
    <3>3. p.size + Length[e.text] + 1 \in Int
      BY <1>1, <3>1
    <3>4. Cut!Grown(p, e) = [texts |-> Append(p.texts, e.text), from |-> p.from, to |-> e.at,
                             size |-> p.size + Length[e.text] + 1]
      <4>1. p = [texts |-> p.texts, from |-> p.from, to |-> p.to, size |-> p.size]
        BY DEF Pieces
      <4>2. Cut!Grown(p, e) = [p EXCEPT !.texts = Append(p.texts, e.text), !.to = e.at,
                                        !.size = p.size + Length[e.text] + 1]
        BY DEF Cut!Grown
      <4> QED
        BY <4>1, <4>2, Zenon
    <3> QED
      BY <1>1, <3>1, <3>2, <3>3, <3>4, PieceIs
  <2>3. Append(Cut!Front(q), Cut!Grown(Cut!Last(q), e)) \in Seq(Pieces)
    BY <2>1, <2>2, AppendProperties
  <2> QED
    BY <1>5, <2>3 DEF Cutting
<1> QED
  BY <1>3, <1>4, <1>5

\* As a function of the entry and of the pieces.
LEMMA CutsTyped ==
    ASSUME NEW slack \in Int
    PROVE  /\ Cuts(slack) \in [Word -> [Seq(Pieces) -> Seq(Pieces)]] /\ <<>> \in Seq(Pieces)
           /\ \A e \in Word, q \in Seq(Pieces) : Cuts(slack)[e][q] = Cutting(q, e, slack)
  BY CuttingTyped DEF Cuts

\* Cut goes from text to text.
LEMMA CutIs ==
    ASSUME NEW w \in Seq(Word), NEW slack \in Int
    PROVE  \E r : Result(r, w, Seq(Pieces), <<>>, Cuts(slack)) /\ Cut!Cut(w, slack) = r
<1> DEFINE n == Len(w)
           R == [k \in 1..n |-> Cuts(slack)[w[k]]]
           D == DOMAIN w
           Def(f) == f = [s \in SUBSET D |->
                            IF s = {} THEN <<>>
                            ELSE Cutting(f[s \ {Greatest(s)}], w[Greatest(s)], slack)]
           iter == CHOOSE f : Def(f)
<1>1. n \in Nat /\ D = 1..n /\ \A k \in 1..n : w[k] \in Word
  OBVIOUS
<1>2. Cut!Cut(w, slack) = iter[D]
  BY DEF Cut!Cut, Cut!CutWith, Cut!FoldLeft, Cut!MapThenFoldSet, Cut!Max, Cutting, Greatest
<1>3. /\ Cuts(slack) \in [Word -> [Seq(Pieces) -> Seq(Pieces)]] /\ <<>> \in Seq(Pieces)
      /\ \A e \in Word, q \in Seq(Pieces) : Cuts(slack)[e][q] = Cutting(q, e, slack)
  BY CutsTyped
<1>4. R \in [1..n -> [Seq(Pieces) -> Seq(Pieces)]] /\ \A k \in 1..n, q \in Seq(Pieces) : R[k][q] = Cutting(q, w[k], slack)
  BY <1>1, <1>3
<1> HIDE DEF R, n
<1>5. PICK f \in [SUBSET (1..n) -> Seq(Pieces)] : FoldsBy(f, n, <<>>, R)
  BY <1>1, <1>3, <1>4, FoldExists
<1>6. ASSUME NEW s \in SUBSET (1..n)
      PROVE  f[s] = IF s = {} THEN <<>> ELSE Cutting(f[s \ {Greatest(s)}], w[Greatest(s)], slack)
  <2>1. s # {} => Greatest(s) \in 1..n /\ s \ {Greatest(s)} \in SUBSET (1..n)
    BY <1>1, GreatestIs
  <2> QED
    BY <1>4, <1>5, <2>1 DEF FoldsBy
<1>7. Def(f)
  BY <1>1, <1>6
<1> HIDE DEF Def
<1>8. Def(iter)
  BY <1>7
<1> USE DEF Def
<1>9. \A s \in SUBSET (1..n) :
         iter[s] = IF s = {} THEN <<>> ELSE Cutting(iter[s \ {Greatest(s)}], w[Greatest(s)], slack)
  BY <1>1, <1>8
<1> HIDE DEF Def, iter
<1>10. GoesBy(iter, n, Seq(Pieces), <<>>, R)
  <2>1. iter[{}] = <<>>
    BY <1>9
  <2>2. \A s \in SUBSET (1..n) : (s # {} /\ iter[s \ {Greatest(s)}] \in Seq(Pieces)) =>
             iter[s] = R[Greatest(s)][iter[s \ {Greatest(s)}]]
    BY <1>1, <1>4, <1>9, GreatestIs
  <2> QED
    BY <2>1, <2>2 DEF GoesBy
<1>11. Result(iter[1..n], w, Seq(Pieces), <<>>, Cuts(slack))
  BY <1>3, <1>10, FoldResult DEF R, n
<1> QED
  BY <1>1, <1>2, <1>11

\* What one place adds.
Taking(t, s, I, i) == IF i \in I THEN Append(t, s[i]) ELSE t

\* g takes, from place to place.
OnlyAlong(g, T, w, I) ==
    /\ g \in [0..Len(w) -> Seq(T)] /\ g[0] = <<>>
    /\ \A k \in 1..Len(w) : g[k] = Taking(g[k - 1], w, I, k)

\* Only, place by place.
LEMMA OnlyUnfolds ==
    ASSUME NEW T, NEW w \in Seq(T), NEW I
    PROVE  \E g : OnlyAlong(g, T, w, I) /\ Cut!Only(w, I) = g[Len(w)]
<1> DEFINE at(k) == [i \in DOMAIN w |-> i][k]
           n == Len(w)
           A == Seq(T)
           S == [k \in 1..n |-> [q \in A |-> Taking(q, w, I, at(k))]]
           D == DOMAIN [i \in DOMAIN w |-> i]
           Def(f) == f = [s \in SUBSET D |->
                            IF s = {} THEN <<>>
                            ELSE Taking(f[s \ {Greatest(s)}], w, I, at(Greatest(s)))]
           iter == CHOOSE f : Def(f)
<1>1. n \in Nat /\ D = 1..n /\ \A k \in 1..n : w[k] \in T /\ at(k) = k
  OBVIOUS
<1>2. Cut!Only(w, I) = iter[D]
  BY DEF Cut!Only, Cut!FoldLeftDomain, Cut!FoldLeft, Cut!MapThenFoldSet, Cut!Max, Taking, Greatest
<1>3. ASSUME NEW k \in 1..n, NEW q \in A PROVE Taking(q, w, I, at(k)) \in A
  BY <1>1, <1>3, AppendProperties DEF Taking
<1>4. S \in [1..n -> [A -> A]] /\ \A k \in 1..n, q \in A : S[k][q] = Taking(q, w, I, at(k))
  BY <1>3
<1>5. <<>> \in A
  OBVIOUS
<1> HIDE DEF S, A, n, at
<1>6. PICK f \in [SUBSET (1..n) -> A] : FoldsBy(f, n, <<>>, S)
  BY <1>1, <1>4, <1>5, FoldExists
<1>7. ASSUME NEW s \in SUBSET (1..n)
      PROVE  f[s] = IF s = {} THEN <<>> ELSE Taking(f[s \ {Greatest(s)}], w, I, at(Greatest(s)))
  <2>1. s # {} => Greatest(s) \in 1..n /\ s \ {Greatest(s)} \in SUBSET (1..n)
    BY <1>1, GreatestIs
  <2> QED
    BY <1>4, <1>6, <2>1 DEF FoldsBy
<1>8. Def(f)
  BY <1>1, <1>7
<1> HIDE DEF Def
<1>9. Def(iter)
  BY <1>8
<1> USE DEF Def
<1>10. \A s \in SUBSET (1..n) :
         iter[s] = IF s = {} THEN <<>> ELSE Taking(iter[s \ {Greatest(s)}], w, I, at(Greatest(s)))
  BY <1>1, <1>9
<1> HIDE DEF Def, iter
<1>11. GoesAlong(iter, n, A, <<>>, S)
  <2>1. iter[{}] = <<>>
    BY <1>10
  <2>2. \A s \in SUBSET (1..n) : (s # {} /\ iter[s \ {Greatest(s)}] \in A) =>
             iter[s] = S[Greatest(s)][iter[s \ {Greatest(s)}]]
    BY <1>1, <1>4, <1>10, GreatestIs
  <2>3. GoesBy(iter, n, A, <<>>, S)
    BY <2>1, <2>2 DEF GoesBy
  <2> QED
    BY <1>1, <1>4, <1>5, <2>3, FoldUnfolds
<1> DEFINE g == [k \in 0..n |-> iter[1..k]]
<1>12. g \in [0..n -> A] /\ g[0] = <<>> /\ g[n] = iter[D]
  BY <1>1, <1>11 DEF GoesAlong
<1>13. ASSUME NEW k \in 1..n PROVE g[k] = Taking(g[k - 1], w, I, k)
  <2>1. g[k] = iter[1..k] /\ g[k - 1] = iter[1..(k - 1)] /\ k \in 0..n /\ k # 0 /\ k - 1 \in 0..n
    BY <1>1
  <2>2. iter[1..k] = S[k][iter[1..(k - 1)]] /\ iter[1..(k - 1)] \in A
    BY <1>11, <2>1 DEF GoesAlong
  <2> QED
    BY <1>1, <1>4, <2>1, <2>2
<1>14. Cut!Only(w, I) = g[n]
  BY <1>2, <1>12
<1> HIDE DEF g
<1>15. OnlyAlong(g, T, w, I)
  BY <1>12, <1>13 DEF n, A, OnlyAlong
<1> QED
  BY <1>14, <1>15 DEF n

---------------------------------------------------------------------------------
(* Some of the members of a sequence *)

\* I and J have the same places up to the n-th.
SameUpTo(n, I, J) == \A i \in 1..n : i \in I <=> i \in J

\* One more member is taken or not.
LEMMA OnlyAppend ==
    ASSUME NEW T, NEW w \in Seq(T), NEW x \in T, NEW I, NEW J, SameUpTo(Len(w), I, J)
    PROVE  /\ Cut!Only(w, I) \in Seq(T)
           /\ Cut!Only(Append(w, x), J) =
                IF Len(w) + 1 \in J THEN Append(Cut!Only(w, I), x) ELSE Cut!Only(w, I)
<1> DEFINE n == Len(w)
           v == Append(w, x)
<1>1. v \in Seq(T) /\ Len(v) = n + 1 /\ n \in Nat /\ v[n + 1] = x /\ \A i \in 1..n : v[i] = w[i]
  BY AppendProperties
<1> HIDE DEF v
<1>a. PICK g : OnlyAlong(g, T, w, I) /\ Cut!Only(w, I) = g[Len(w)]
  BY OnlyUnfolds
<1>b. PICK h : OnlyAlong(h, T, v, J) /\ Cut!Only(v, J) = h[Len(v)]
  BY <1>1, OnlyUnfolds
<1>2. /\ g \in [0..n -> Seq(T)] /\ g[0] = <<>> /\ Cut!Only(w, I) = g[n]
      /\ \A k \in 1..n : g[k] = Taking(g[k - 1], w, I, k)
  BY <1>a DEF OnlyAlong
<1>3. /\ h \in [0..Len(v) -> Seq(T)] /\ h[0] = <<>> /\ Cut!Only(v, J) = h[Len(v)]
      /\ \A k \in 1..Len(v) : h[k] = Taking(h[k - 1], v, J, k)
  BY <1>b DEF OnlyAlong
<1> HIDE DEF n
<1> DEFINE U == {k \in 0..n : g[k] = h[k]}
<1>4. 0 \in Int /\ n \in Int /\ 0 \in U
  BY <1>1, <1>2, <1>3
<1>5. ASSUME NEW k \in 0..n, k \in U, k + 1 \in 0..n PROVE k + 1 \in U
  <2>1. k + 1 \in 1..n /\ k + 1 \in 1..(n + 1) /\ (k + 1) - 1 = k /\ g[k] = h[k]
    BY <1>1, <1>5
  <2>2. g[k + 1] = Taking(g[k], w, I, k + 1) /\ h[k + 1] = Taking(h[k], v, J, k + 1)
    BY <1>1, <1>2, <1>3, <2>1
  <2>3. v[k + 1] = w[k + 1] /\ (k + 1 \in I <=> k + 1 \in J)
    BY <1>1, <2>1 DEF n, SameUpTo
  <2> QED
    BY <1>5, <2>1, <2>2, <2>3 DEF Taking
<1> HIDE DEF U
<1>6. \A k \in 0..n : k \in U
  BY <1>4, <1>5, Upwards
<1>7. g[n] = h[n]
  BY <1>1, <1>6 DEF U
<1>8. h[n + 1] = Taking(h[n], v, J, n + 1)
  <2>1. n + 1 \in 1..Len(v) /\ (n + 1) - 1 = n
    BY <1>1
  <2> QED
    BY <1>3, <2>1
<1>9. Cut!Only(v, J) = IF n + 1 \in J THEN Append(Cut!Only(w, I), x) ELSE Cut!Only(w, I)
  BY <1>1, <1>2, <1>3, <1>7, <1>8 DEF Taking
<1> QED
  BY <1>1, <1>2, <1>9 DEF n, v

\* Of nothing, nothing.
LEMMA OnlyEmpty == ASSUME NEW I PROVE Cut!Only(<<>>, I) = <<>>
<1>1. <<>> \in Seq({}) /\ Len(<<>>) = 0
  OBVIOUS
<1>2. PICK g : OnlyAlong(g, {}, <<>>, I) /\ Cut!Only(<<>>, I) = g[Len(<<>>)]
  BY <1>1, OnlyUnfolds
<1> QED
  BY <1>1, <1>2 DEF OnlyAlong

Heads(w) == Cut!Only(w, {k \in DOMAIN w : w[k].kind = "header"})
Rest(w)  == Cut!Only(w, {k \in DOMAIN w : w[k].kind # "header"})

\* A line more is a header more, or not.
LEMMA SortedAppend ==
    ASSUME NEW w \in Seq(Lines), NEW l \in Lines
    PROVE  /\ Heads(w) \in Seq(Lines) /\ Rest(w) \in Seq(Lines)
           /\ Heads(Append(w, l)) = IF l.kind = "header" THEN Append(Heads(w), l) ELSE Heads(w)
           /\ Rest(Append(w, l)) = IF l.kind = "header" THEN Rest(w) ELSE Append(Rest(w), l)
<1> DEFINE v == Append(w, l)
<1>1. v \in Seq(Lines) /\ Len(v) = Len(w) + 1 /\ Len(w) \in Nat /\ v[Len(w) + 1] = l /\ \A i \in 1..Len(w) : v[i] = w[i]
  BY AppendProperties
<1>2. DOMAIN v = 1..(Len(w) + 1) /\ DOMAIN w = 1..Len(w)
  BY <1>1
<1> HIDE DEF v
<1> DEFINE IH == {k \in DOMAIN w : w[k].kind = "header"}
           JH == {k \in DOMAIN v : v[k].kind = "header"}
           IR == {k \in DOMAIN w : w[k].kind # "header"}
           JR == {k \in DOMAIN v : v[k].kind # "header"}
<1>3. /\ SameUpTo(Len(w), IH, JH) /\ SameUpTo(Len(w), IR, JR)
      /\ Len(w) + 1 \in JH <=> l.kind = "header"
      /\ Len(w) + 1 \in JR <=> l.kind # "header"
  BY <1>1, <1>2 DEF SameUpTo
<1> HIDE DEF IH, JH, IR, JR
<1>4. /\ Cut!Only(w, IH) \in Seq(Lines)
      /\ Cut!Only(Append(w, l), JH) = IF Len(w) + 1 \in JH THEN Append(Cut!Only(w, IH), l) ELSE Cut!Only(w, IH)
  BY <1>3, OnlyAppend
<1>5. /\ Cut!Only(w, IR) \in Seq(Lines)
      /\ Cut!Only(Append(w, l), JR) = IF Len(w) + 1 \in JR THEN Append(Cut!Only(w, IR), l) ELSE Cut!Only(w, IR)
  BY <1>3, OnlyAppend
<1>6. Heads(w) = Cut!Only(w, IH) /\ Rest(w) = Cut!Only(w, IR)
  BY DEF Heads, Rest, IH, IR
<1>7. Heads(v) = Cut!Only(v, JH) /\ Rest(v) = Cut!Only(v, JR)
  BY DEF Heads, Rest, JH, JR
<1> QED
  BY <1>3, <1>4, <1>5, <1>6, <1>7 DEF v


\* Of nothing, nothing.
LEMMA SortedNone == Heads(<<>>) = <<>> /\ Rest(<<>>) = <<>>
  BY OnlyEmpty DEF Heads, Rest

\* Headers and the rest are lines.
LEMMA SortedTyped == ASSUME NEW w \in Seq(Lines) PROVE Heads(w) \in Seq(Lines) /\ Rest(w) \in Seq(Lines)
<1>1. Cut!Header(0) \in Lines
  BY CaptionAssumption DEF Cut!Header, Lines, Texts
<1> QED
  BY <1>1, SortedAppend

\* Only headers.
HeadersOnly == {w \in Seq(Lines) : \A i \in 1..Len(w) : w[i].kind = "header"}

\* Headers put behind are headers more, and nothing else.
LEMMA SortedBehind ==
    ASSUME NEW w \in Seq(Lines), NEW h \in HeadersOnly
    PROVE  Heads(w \o h) = Heads(w) \o h /\ Rest(w \o h) = Rest(w)
<1> DEFINE T == {x \in Seq(Lines) : x \in HeadersOnly => Heads(w \o x) = Heads(w) \o x /\ Rest(w \o x) = Rest(w)}
<1>1. <<>> \in T
  <2>1. Heads(w) \in Seq(Lines)
    BY SortedTyped
  <2>2. w \o <<>> = w /\ Heads(w) \o <<>> = Heads(w)
    BY <2>1, ConcatEmptySeq
  <2>3. Heads(w \o <<>>) = Heads(w) \o <<>> /\ Rest(w \o <<>>) = Rest(w)
    BY <2>2, Zenon
  <2>4. <<>> \in Seq(Lines)
    OBVIOUS
  <2> QED
    BY <2>3, <2>4, Zenon
<1>2. ASSUME NEW x \in Seq(Lines), NEW l \in Lines, x \in T PROVE Append(x, l) \in T
  <2>0. Append(x, l) \in Seq(Lines)
    BY AppendProperties
  <2> SUFFICES ASSUME Append(x, l) \in HeadersOnly
               PROVE  Heads(w \o Append(x, l)) = Heads(w) \o Append(x, l) /\ Rest(w \o Append(x, l)) = Rest(w)
    BY <2>0
  <2>1. x \in HeadersOnly /\ l.kind = "header"
    <3> DEFINE v == Append(x, l)
    <3>1. /\ Len(x) \in Nat /\ Len(v) = Len(x) + 1 /\ v[Len(x) + 1] = l
          /\ \A i \in 1..Len(x) : v[i] = x[i]
      BY AppendProperties
    <3>2. \A i \in 1..Len(v) : v[i].kind = "header"
      BY DEF HeadersOnly
    <3> HIDE DEF v
    <3> QED
      BY <3>1, <3>2 DEF HeadersOnly
  <2>2. w \o Append(x, l) = Append(w \o x, l)
    BY Behind
  <2>3. Heads(w) \in Seq(Lines)
    BY SortedTyped
  <2>4. Heads(w) \o Append(x, l) = Append(Heads(w) \o x, l)
    BY <2>3, Behind
  <2>5. w \o x \in Seq(Lines)
    BY ConcatProperties
  <2>6. Heads(Append(w \o x, l)) = Append(Heads(w \o x), l) /\ Rest(Append(w \o x, l)) = Rest(w \o x)
    BY <2>1, <2>5, SortedAppend
  <2> QED
    BY <1>2, <2>1, <2>2, <2>4, <2>6
<1> HIDE DEF T
<1>3. h \in T
  BY <1>1, <1>2, Sequentially DEF HeadersOnly
<1> QED
  BY <1>3 DEF T

\* Without a header all is rest.
LEMMA AllRest ==
    ASSUME NEW w \in Seq(Lines), \A i \in 1..Len(w) : w[i].kind # "header"
    PROVE  Heads(w) = <<>> /\ Rest(w) = w
<1> DEFINE T == {x \in Seq(Lines) : (\A i \in 1..Len(x) : x[i].kind # "header") => Heads(x) = <<>> /\ Rest(x) = x}
<1>1. <<>> \in T
  BY SortedNone
<1>2. ASSUME NEW x \in Seq(Lines), NEW l \in Lines, x \in T PROVE Append(x, l) \in T
  <2>1. /\ Append(x, l) \in Seq(Lines)
        /\ Len(x) \in Nat /\ Len(Append(x, l)) = Len(x) + 1 /\ Append(x, l)[Len(x) + 1] = l
        /\ \A i \in 1..Len(x) : Append(x, l)[i] = x[i]
    BY AppendProperties
  <2> SUFFICES ASSUME \A i \in 1..Len(Append(x, l)) : Append(x, l)[i].kind # "header"
               PROVE  Heads(Append(x, l)) = <<>> /\ Rest(Append(x, l)) = Append(x, l)
    BY <2>1
  <2>2. l.kind # "header" /\ \A i \in 1..Len(x) : x[i].kind # "header"
    BY <2>1
  <2> QED
    BY <1>2, <2>2, SortedAppend
<1> HIDE DEF T
<1>3. w \in T
  BY <1>1, <1>2, Sequentially
<1> QED
  BY <1>3 DEF T

\* The lines that say something in a text with stamps.
Voiced(w) == Cut!Only(w, {k \in DOMAIN w : Cut!Utters(w[k])})

\* A line more says something, or not.
LEMMA VoicedAppend ==
    ASSUME NEW w \in Seq(Lines), NEW l \in Lines
    PROVE  /\ Voiced(w) \in Seq(Lines)
           /\ Voiced(Append(w, l)) = IF Cut!Utters(l) THEN Append(Voiced(w), l) ELSE Voiced(w)
<1> DEFINE v == Append(w, l)
<1>1. v \in Seq(Lines) /\ Len(v) = Len(w) + 1 /\ Len(w) \in Nat /\ v[Len(w) + 1] = l /\ \A i \in 1..Len(w) : v[i] = w[i]
  BY AppendProperties
<1>2. DOMAIN v = 1..(Len(w) + 1) /\ DOMAIN w = 1..Len(w)
  BY <1>1
<1> HIDE DEF v
<1> DEFINE I == {k \in DOMAIN w : Cut!Utters(w[k])}
           J == {k \in DOMAIN v : Cut!Utters(v[k])}
<1>3. SameUpTo(Len(w), I, J) /\ (Len(w) + 1 \in J <=> Cut!Utters(l))
  BY <1>1, <1>2 DEF SameUpTo
<1> HIDE DEF I, J
<1>4. /\ Cut!Only(w, I) \in Seq(Lines)
      /\ Cut!Only(Append(w, l), J) = IF Len(w) + 1 \in J THEN Append(Cut!Only(w, I), l) ELSE Cut!Only(w, I)
  BY <1>3, OnlyAppend
<1>5. Voiced(w) = Cut!Only(w, I) /\ Voiced(v) = Cut!Only(v, J)
  BY DEF Voiced, I, J
<1> QED
  BY <1>3, <1>4, <1>5 DEF v

\* Of nothing, nothing.
LEMMA VoicedNone == Voiced(<<>>) = <<>>
  BY OnlyEmpty DEF Voiced

\* Headers say nothing: what is said is what the rest says.
LEMMA VoicedRest == ASSUME NEW w \in Seq(Lines) PROVE Voiced(w) \in Seq(Lines) /\ Voiced(w) = Voiced(Rest(w))
<1> DEFINE T == {x \in Seq(Lines) : Voiced(x) \in Seq(Lines) /\ Voiced(x) = Voiced(Rest(x))}
<1>1. <<>> \in T
  <2>1. <<>> \in Seq(Lines)
    OBVIOUS
  <2> QED
    BY <2>1, VoicedNone, SortedNone
<1>2. ASSUME NEW x \in Seq(Lines), NEW l \in Lines, x \in T PROVE Append(x, l) \in T
  <2>1. Append(x, l) \in Seq(Lines) /\ Rest(x) \in Seq(Lines) /\ Voiced(x) = Voiced(Rest(x)) /\ Voiced(x) \in Seq(Lines)
    BY <1>2, AppendProperties, SortedTyped
  <2>2. /\ Voiced(Append(x, l)) = IF Cut!Utters(l) THEN Append(Voiced(x), l) ELSE Voiced(x)
        /\ Voiced(Append(Rest(x), l)) = IF Cut!Utters(l) THEN Append(Voiced(Rest(x)), l) ELSE Voiced(Rest(x))
    BY <2>1, VoicedAppend
  <2>3. Rest(Append(x, l)) = IF l.kind = "header" THEN Rest(x) ELSE Append(Rest(x), l)
    BY SortedAppend
  <2>4. l.kind = "header" => ~Cut!Utters(l)
    BY DEF Cut!Utters
  <2>5. Voiced(Append(x, l)) \in Seq(Lines)
    BY <2>1, <2>2, AppendProperties
  <2>6. Voiced(Append(x, l)) = Voiced(Rest(Append(x, l)))
    <3>1. CASE l.kind = "header"
      <4>1. Voiced(Append(x, l)) = Voiced(x) /\ Rest(Append(x, l)) = Rest(x)
        BY <2>2, <2>3, <2>4, <3>1
      <4> QED
        BY <2>1, <4>1
    <3>2. CASE l.kind # "header"
      <4>1. Rest(Append(x, l)) = Append(Rest(x), l)
        BY <2>3, <3>2
      <4> QED
        BY <2>1, <2>2, <4>1
    <3> QED
      BY <3>1, <3>2
  <2> QED
    BY <2>1, <2>5, <2>6
<1> HIDE DEF T
<1>3. w \in T
  BY <1>1, <1>2, Sequentially
<1> QED
  BY <1>3 DEF T

\* Stamped lines that never go back.
Level(w) ==
    /\ \A i \in 1..Len(w) : w[i].kind = "stamped"
    /\ \A i, k \in 1..Len(w) : i <= k => w[i].at <= w[k].at

\* The lines of r are lines of w.
Among(r, w) == \A i \in 1..Len(r) : \E k \in 1..Len(w) : r[i] = w[k]

\* One more keeps the others in order, and stands behind them.
LEMMA LevelBefore ==
    ASSUME NEW w \in Seq(Lines), NEW l \in Lines
    PROVE  Level(Append(w, l)) <=> Level(w) /\ l.kind = "stamped" /\ \A k \in 1..Len(w) : w[k].at <= l.at
<1> DEFINE v == Append(w, l)
           n == Len(w)
<1>1. n \in Nat /\ Len(v) = n + 1 /\ v[n + 1] = l /\ \A i \in 1..n : v[i] = w[i]
  BY AppendProperties
<1>2. l.kind = "stamped" => l.at <= l.at
  BY DEF Lines
<1> HIDE DEF v, n
<1>3. \A i \in 1..(n + 1) : i \in 1..n \/ i = n + 1
  BY <1>1
<1>4. \A i \in 1..n : i \in 1..(n + 1) /\ i <= n + 1 /\ ~(n + 1 <= i)
  BY <1>1
<1>5. n + 1 \in 1..(n + 1)
  BY <1>1
<1>6. Level(w) <=> (\A i \in 1..n : w[i].kind = "stamped") /\ (\A i, k \in 1..n : i <= k => w[i].at <= w[k].at)
  BY DEF Level, n
<1>7. Level(v) <=> /\ \A i \in 1..(n + 1) : v[i].kind = "stamped"
                   /\ \A i, k \in 1..(n + 1) : i <= k => v[i].at <= v[k].at
  BY <1>1 DEF Level
<1>8. (\A i \in 1..(n + 1) : v[i].kind = "stamped") <=> (\A i \in 1..n : w[i].kind = "stamped") /\ l.kind = "stamped"
  BY <1>1, <1>3, <1>4, <1>5
<1>9. ASSUME l.kind = "stamped"
      PROVE  (\A i, k \in 1..(n + 1) : i <= k => v[i].at <= v[k].at) <=>
             (\A i, k \in 1..n : i <= k => w[i].at <= w[k].at) /\ (\A k \in 1..n : w[k].at <= l.at)
  <2>1. ASSUME \A i, k \in 1..(n + 1) : i <= k => v[i].at <= v[k].at
        PROVE  (\A i, k \in 1..n : i <= k => w[i].at <= w[k].at) /\ (\A k \in 1..n : w[k].at <= l.at)
    BY <1>1, <1>4, <1>5, <2>1
  <2>2. ASSUME \A i, k \in 1..n : i <= k => w[i].at <= w[k].at, \A k \in 1..n : w[k].at <= l.at,
               NEW i \in 1..(n + 1), NEW k \in 1..(n + 1), i <= k
        PROVE  v[i].at <= v[k].at
    BY <1>1, <1>2, <1>3, <1>4, <1>9, <2>2
  <2> QED
    BY <2>1, <2>2
<1>10. Level(v) <=> Level(w) /\ l.kind = "stamped" /\ \A k \in 1..n : w[k].at <= l.at
  BY <1>6, <1>7, <1>8, <1>9
<1> QED
  BY <1>10 DEF v, n

\* What is said in order is in order.
LEMMA VoicedLevel == ASSUME NEW w \in Seq(Lines), Level(w) PROVE Level(Voiced(w))
<1> DEFINE T == {x \in Seq(Lines) : Level(x) => Level(Voiced(x)) /\ Among(Voiced(x), x)}
<1>1. <<>> \in T
  <2>1. <<>> \in Seq(Lines) /\ Len(<<>>) = 0
    OBVIOUS
  <2> QED
    BY <2>1, VoicedNone DEF Among
<1>2. ASSUME NEW x \in Seq(Lines), NEW l \in Lines, x \in T PROVE Append(x, l) \in T
  <2> DEFINE v == Append(x, l)
             r == Voiced(x)
  <2>1. /\ v \in Seq(Lines) /\ Len(x) \in Nat /\ Len(v) = Len(x) + 1 /\ v[Len(x) + 1] = l
        /\ \A i \in 1..Len(x) : v[i] = x[i]
    BY AppendProperties
  <2> SUFFICES ASSUME Level(v) PROVE Level(Voiced(v)) /\ Among(Voiced(v), v)
    BY <2>1
  <2>2. r \in Seq(Lines) /\ Voiced(v) = IF Cut!Utters(l) THEN Append(r, l) ELSE r
    BY VoicedAppend
  <2>3. Level(x) /\ l.kind = "stamped" /\ \A k \in 1..Len(x) : x[k].at <= l.at
    BY LevelBefore
  <2>4. Level(r) /\ Among(r, x)
    BY <1>2, <2>3
  <2> HIDE DEF v, r
  <2>5. Among(r, v)
    <3> SUFFICES ASSUME NEW i \in 1..Len(r) PROVE \E k \in 1..Len(v) : r[i] = v[k]
      BY DEF Among
    <3>1. PICK k \in 1..Len(x) : r[i] = x[k]
      BY <2>4 DEF Among
    <3>2. k \in 1..Len(v) /\ v[k] = x[k]
      BY <2>1
    <3> QED
      BY <3>1, <3>2
  <2>6. \A i \in 1..Len(r) : r[i].at <= l.at
    BY <2>3, <2>4 DEF Among
  <2>7. Level(Append(r, l))
    BY <2>2, <2>3, <2>4, <2>6, LevelBefore
  <2>8. Among(Append(r, l), v)
    <3>1. /\ Len(r) \in Nat /\ Len(Append(r, l)) = Len(r) + 1 /\ Append(r, l)[Len(r) + 1] = l
          /\ \A i \in 1..Len(r) : Append(r, l)[i] = r[i]
      BY <2>2, AppendProperties
    <3> SUFFICES ASSUME NEW i \in 1..(Len(r) + 1) PROVE \E k \in 1..Len(v) : Append(r, l)[i] = v[k]
      BY <3>1 DEF Among
    <3>2. CASE i = Len(r) + 1
      BY <2>1, <3>1, <3>2
    <3>3. CASE i \in 1..Len(r)
      BY <2>5, <3>1, <3>3 DEF Among
    <3> QED
      BY <3>1, <3>2, <3>3
  <2> QED
    BY <2>2, <2>4, <2>5, <2>7, <2>8
<1> HIDE DEF T
<1>3. w \in T
  BY <1>1, <1>2, Sequentially
<1> QED
  BY <1>3 DEF T

---------------------------------------------------------------------------------
(* TranscriptText: what is read *)

\* A file whose cues have stamps that never go back.
InTime(w) ==
    /\ \A k \in 1..Len(w) : w[k].at # None
    /\ \A i, k \in 1..Len(w) : i <= k => w[i].at <= w[k].at

\* Lines whose stamps, of which each is one of w, never go back.
StampsRise(r, w) ==
    /\ \A i \in 1..Len(r) : r[i].kind = "stamped" /\ \E k \in 1..Len(w) : r[i].at = w[k].at
    /\ \A i, k \in 1..Len(r) : i <= k => r[i].at <= r[k].at

\* The lines r that are read from w have its texts, each once.
Read(r, w) ==
    /\ \A i \in 1..Len(r) : r[i].kind # "header" /\ r[i].text # Blank
    /\ \A i, k \in 1..Len(r) : r[i].text = r[k].text => i = k
    /\ \A i \in 1..Len(r) : \E k \in 1..Len(w) : w[k].text = r[i].text
    /\ \A k \in 1..Len(w) : w[k].text # Blank => \E i \in 1..Len(r) : r[i].text = w[k].text
    /\ InTime(w) => StampsRise(r, w)

\* A cue more.
LEMMA ReadOn ==
    ASSUME NEW w \in Seq(Cues), NEW c \in Cues, NEW q \in Seq(Lines), Read(q, w)
    PROVE  Read(Cued(q, c), Append(w, c))
<1> DEFINE v == Append(w, c)
           n == Len(w)
           m == Len(q)
<1>1. n \in Nat /\ Len(v) = n + 1 /\ v[n + 1] = c /\ \A k \in 1..n : v[k] = w[k]
  BY AppendProperties
<1>2. m \in Nat /\ DOMAIN q = 1..m /\ \A i \in 1..m : q[i] \in Lines
  OBVIOUS
<1> HIDE DEF v
<1>3. InTime(v) => InTime(w) /\ c.at # None /\ \A k \in 1..n : w[k].at <= c.at
  <2> SUFFICES ASSUME InTime(v) PROVE InTime(w) /\ c.at # None /\ \A k \in 1..n : w[k].at <= c.at
    OBVIOUS
  <2>1. \A k \in 1..(n + 1) : v[k].at # None
    BY <1>1 DEF InTime
  <2>2. \A i, k \in 1..(n + 1) : i <= k => v[i].at <= v[k].at
    BY <1>1 DEF InTime
  <2>3. \A k \in 1..n : k \in 1..(n + 1) /\ k <= n + 1
    BY <1>1
  <2>4. n + 1 \in 1..(n + 1)
    BY <1>1
  <2>5. InTime(w)
    BY <1>1, <2>1, <2>2, <2>3 DEF InTime
  <2>6. \A k \in 1..n : w[k].at <= c.at
    BY <1>1, <2>2, <2>3, <2>4
  <2> QED
    BY <1>1, <2>1, <2>4, <2>5, <2>6
<1>4. CASE c.text = Blank \/ \E i \in DOMAIN q : q[i].text = c.text
  <2>1. Cued(q, c) = q
    BY <1>4 DEF Cued
  <2>2. \A k \in 1..(n + 1) : v[k].text # Blank => \E i \in 1..m : q[i].text = v[k].text
    <3> SUFFICES ASSUME NEW k \in 1..(n + 1), v[k].text # Blank PROVE \E i \in 1..m : q[i].text = v[k].text
      OBVIOUS
    <3>1. CASE k \in 1..n
      <4>1. w[k].text # Blank /\ v[k] = w[k]
        BY <1>1, <3>1
      <4>2. \E i \in 1..m : q[i].text = w[k].text
        BY <3>1, <4>1 DEF Read
      <4> QED
        BY <4>1, <4>2
    <3>2. CASE k = n + 1
      BY <1>1, <1>2, <1>4, <3>2
    <3> QED
      BY <1>1, <3>1, <3>2
  <2>3. \A i \in 1..m : \E k \in 1..(n + 1) : v[k].text = q[i].text
    <3> SUFFICES ASSUME NEW i \in 1..m PROVE \E k \in 1..(n + 1) : v[k].text = q[i].text
      OBVIOUS
    <3>1. PICK k \in 1..n : w[k].text = q[i].text
      BY DEF Read
    <3> QED
      BY <1>1, <3>1
  <2>4. InTime(v) => StampsRise(q, v)
    <3> SUFFICES ASSUME InTime(v) PROVE StampsRise(q, v)
      OBVIOUS
    <3>1. StampsRise(q, w)
      BY <1>3 DEF Read
    <3>2. \A i \in 1..m : \E k \in 1..(n + 1) : q[i].at = v[k].at
      <4> SUFFICES ASSUME NEW i \in 1..m PROVE \E k \in 1..(n + 1) : q[i].at = v[k].at
        OBVIOUS
      <4>1. PICK k \in 1..n : q[i].at = w[k].at
        BY <3>1 DEF StampsRise
      <4> QED
        BY <1>1, <4>1
    <3> QED
      BY <1>1, <3>1, <3>2 DEF StampsRise
  <2> QED
    BY <1>1, <2>1, <2>2, <2>3, <2>4 DEF Read, v
<1>5. CASE c.text # Blank /\ ~\E i \in DOMAIN q : q[i].text = c.text
  <2> DEFINE l == IF c.at = None THEN Cut!Plain(c.text) ELSE Cut!Stamped(c.at, c.text)
             r == Append(q, l)
  <2>1. l \in Lines /\ l.kind # "header" /\ l.text = c.text /\ (c.at # None => l.kind = "stamped" /\ l.at = c.at)
    BY <1>5 DEF Cues, Lines, Texts, Cut!Plain, Cut!Stamped
  <2>2. Cued(q, c) = r
    BY <1>5 DEF Cued
  <2> HIDE DEF l
  <2>3. Len(r) = m + 1 /\ r[m + 1] = l /\ \A i \in 1..m : r[i] = q[i]
    BY <2>1, AppendProperties
  <2> HIDE DEF r
  <2>4. \A i \in 1..(m + 1) : i \in 1..m \/ i = m + 1
    BY <1>2
  <2>5. \A i \in 1..(m + 1) : r[i].kind # "header" /\ r[i].text # Blank
    BY <1>5, <2>1, <2>3, <2>4 DEF Read
  <2>6. \A i, k \in 1..(m + 1) : r[i].text = r[k].text => i = k
    <3>1. \A i \in 1..m : q[i].text # c.text
      BY <1>2, <1>5
    <3>2. \A i, k \in 1..m : q[i].text = q[k].text => i = k
      BY DEF Read
    <3> QED
      BY <2>1, <2>3, <2>4, <3>1, <3>2
  <2>7. \A i \in 1..(m + 1) : \E k \in 1..(n + 1) : v[k].text = r[i].text
    <3> SUFFICES ASSUME NEW i \in 1..(m + 1) PROVE \E k \in 1..(n + 1) : v[k].text = r[i].text
      OBVIOUS
    <3>1. CASE i \in 1..m
      <4>1. PICK k \in 1..n : w[k].text = q[i].text
        BY <3>1 DEF Read
      <4> QED
        BY <1>1, <2>3, <3>1, <4>1
    <3>2. CASE i = m + 1
      BY <1>1, <2>1, <2>3, <3>2
    <3> QED
      BY <2>4, <3>1, <3>2
  <2>8. \A k \in 1..(n + 1) : v[k].text # Blank => \E i \in 1..(m + 1) : r[i].text = v[k].text
    <3> SUFFICES ASSUME NEW k \in 1..(n + 1), v[k].text # Blank PROVE \E i \in 1..(m + 1) : r[i].text = v[k].text
      OBVIOUS
    <3>1. CASE k \in 1..n
      <4>1. PICK i \in 1..m : q[i].text = w[k].text
        BY <1>1, <3>1 DEF Read
      <4> QED
        BY <1>1, <1>2, <2>3, <3>1, <4>1
    <3>2. CASE k = n + 1
      BY <1>1, <1>2, <2>1, <2>3, <3>2
    <3> QED
      BY <1>1, <3>1, <3>2
  <2>9. InTime(v) => StampsRise(r, v)
    <3> SUFFICES ASSUME InTime(v) PROVE StampsRise(r, v)
      OBVIOUS
    <3>1. StampsRise(q, w) /\ l.kind = "stamped" /\ l.at = c.at /\ \A k \in 1..n : w[k].at <= c.at
      BY <1>3, <2>1 DEF Read
    <3>2. \A i \in 1..m : q[i].at <= c.at
      <4> SUFFICES ASSUME NEW i \in 1..m PROVE q[i].at <= c.at
        OBVIOUS
      <4>1. PICK k \in 1..n : q[i].at = w[k].at
        BY <3>1 DEF StampsRise
      <4> QED
        BY <3>1, <4>1
    <3>3. \A i \in 1..(m + 1) : r[i].kind = "stamped" /\ \E k \in 1..(n + 1) : r[i].at = v[k].at
      <4> SUFFICES ASSUME NEW i \in 1..(m + 1)
                   PROVE  r[i].kind = "stamped" /\ \E k \in 1..(n + 1) : r[i].at = v[k].at
        OBVIOUS
      <4>1. CASE i \in 1..m
        <5>1. PICK k \in 1..n : q[i].at = w[k].at
          BY <3>1, <4>1 DEF StampsRise
        <5>2. q[i].kind = "stamped"
          BY <3>1, <4>1 DEF StampsRise
        <5> QED
          BY <1>1, <2>3, <4>1, <5>1, <5>2
      <4>2. CASE i = m + 1
        BY <1>1, <2>3, <3>1, <4>2
      <4> QED
        BY <2>4, <4>1, <4>2
    <3>4. \A i, k \in 1..(m + 1) : i <= k => r[i].at <= r[k].at
      <4> SUFFICES ASSUME NEW i \in 1..(m + 1), NEW k \in 1..(m + 1), i <= k PROVE r[i].at <= r[k].at
        OBVIOUS
      <4>1. CASE i \in 1..m /\ k \in 1..m
        BY <2>3, <3>1, <4>1 DEF StampsRise
      <4>2. CASE i \in 1..m /\ k = m + 1
        BY <2>3, <3>1, <3>2, <4>2
      <4>3. CASE i = m + 1
        <5>1. k = m + 1 /\ c.at \in Nat
          BY <1>2, <1>3, <4>3 DEF Cues
        <5> QED
          BY <2>3, <3>1, <4>3, <5>1
      <4> QED
        BY <2>4, <4>1, <4>2, <4>3
    <3> QED
      BY <1>1, <2>3, <3>3, <3>4 DEF StampsRise
  <2> QED
    BY <1>1, <2>2, <2>3, <2>5, <2>6, <2>7, <2>8, <2>9 DEF Read, v
<1> QED
  BY <1>4, <1>5

\* What is read from a file.
LEMMA ReadIs == ASSUME NEW w \in Seq(Cues) PROVE Cut!Parse(w) \in Seq(Lines) /\ Read(Cut!Parse(w), w)
<1> DEFINE Got(r, x) == Result(r, x, Seq(Lines), <<>>, Parsing)
           T == {x \in Seq(Cues) : \A r : Got(r, x) => r \in Seq(Lines) /\ Read(r, x)}
<1>1. <<>> \in T
  <2> SUFFICES ASSUME NEW r, Got(r, <<>>) PROVE r \in Seq(Lines) /\ Read(r, <<>>)
    OBVIOUS
  <2>1. r = <<>>
    BY ResultOfNone
  <2>2. Len(<<>>) = 0 /\ <<>> \in Seq(Lines)
    OBVIOUS
  <2> QED
    BY <2>1, <2>2 DEF Read, StampsRise
<1>2. ASSUME NEW x \in Seq(Cues), NEW c \in Cues, x \in T PROVE Append(x, c) \in T
  <2> SUFFICES ASSUME NEW r, Got(r, Append(x, c)) PROVE r \in Seq(Lines) /\ Read(r, Append(x, c))
    BY AppendProperties
  <2>1. PICK q \in Seq(Lines) : Got(q, x) /\ r = Parsing[c][q]
    BY ResultOfMore
  <2>2. r = Cued(q, c) /\ Read(q, x)
    BY <1>2, <2>1, ParsingTyped
  <2> QED
    BY <2>2, CuedTyped, ReadOn
<1> HIDE DEF T
<1>3. w \in T
  BY <1>1, <1>2, Sequentially
<1>4. PICK r : Got(r, w) /\ Cut!Parse(w) = r
  BY ParseIs
<1> QED
  BY <1>3, <1>4 DEF T

---------------------------------------------------------------------------------
(* TranscriptText: where the chapters are put *)

Rising(c) == \A i, k \in 1..Len(c) : i <= k => c[i] <= c[k]

\* A header in s stands behind what is said before it, and what is said next comes later.
Stands(s, i) ==
    /\ \A k \in 1..Len(s) : (s[k].kind = "stamped" /\ k < i) => s[k].at < s[i].at
    /\ \E m \in 1..Len(s) : /\ s[m].kind = "stamped" /\ m > i /\ s[m].at >= s[i].at
                            /\ \A k \in 1..Len(s) : (i < k /\ k < m) => s[k].kind # "stamped"

\* What is put in, and what is left, of the chapters c in the lines w.
Placed(q, w, c) ==
    /\ Heads(q.out) \o Cut!Headers(q.left) = Cut!Headers(c) /\ Rest(q.out) = w
    /\ Rising(q.left)
    /\ \A k \in 1..Len(q.out), j \in 1..Len(q.left) : q.out[k].kind = "stamped" => q.out[k].at < q.left[j]
    /\ \A i \in 1..Len(q.out) : q.out[i].kind = "header" => Stands(q.out, i)

\* t is s and more.
GoesOn(t, s) ==
    Len(s) \in Nat /\ Len(t) \in Nat /\ Len(s) <= Len(t) /\ \A k \in 1..Len(s) : t[k] = s[k]

\* What a header is.
LEMMA HeaderIs == ASSUME NEW x PROVE Cut!Header(x).kind = "header" /\ Cut!Header(x).at = x
  BY DEF Cut!Header

\* A header that stands goes on standing when more is put behind.
LEMMA StandsOn ==
    ASSUME NEW s, NEW t, GoesOn(t, s), NEW i \in 1..Len(s), Stands(s, i)
    PROVE  Stands(t, i)
<1> DEFINE n == Len(s)
           m == Len(t)
<1>0. n \in Nat /\ m \in Nat /\ n <= m /\ \A k \in 1..n : t[k] = s[k]
  BY DEF GoesOn
<1>1. \A k \in 1..n : (s[k].kind = "stamped" /\ k < i) => s[k].at < s[i].at
  BY DEF Stands
<1>2. PICK x \in 1..n : /\ s[x].kind = "stamped" /\ x > i /\ s[x].at >= s[i].at
                        /\ \A k \in 1..n : (i < k /\ k < x) => s[k].kind # "stamped"
  BY DEF Stands
<1>3. \A k \in 1..m : (t[k].kind = "stamped" /\ k < i) => t[k].at < t[i].at
  BY <1>0, <1>1
<1>4. x \in 1..m /\ t[x].kind = "stamped" /\ x > i /\ t[x].at >= t[i].at
  BY <1>0, <1>2
<1>5. \A k \in 1..m : (i < k /\ k < x) => t[k].kind # "stamped"
  BY <1>0, <1>2
<1> QED
  BY <1>3, <1>4, <1>5 DEF Stands

\* The headers of a sequence of chapters are those of its beginning and of what is left.
LEMMA HeadersSplit ==
    ASSUME NEW c \in Seq(Nat), NEW d \in 0..Len(c)
    PROVE  Cut!Headers(SubSeq(c, 1, d)) \o Cut!Headers(SubSeq(c, d + 1, Len(c))) = Cut!Headers(c)
<1> DEFINE a == SubSeq(c, 1, d)
           b == SubSeq(c, d + 1, Len(c))
           n == Len(c)
<1>1. n \in Nat /\ d \in Nat /\ d <= n
  OBVIOUS
<1>2. a \in Seq(Nat) /\ Len(a) = d /\ \A i \in 1..d : a[i] = c[i]
  BY Beginnings
<1>3. b \in Seq(Nat) /\ Len(b) = n - d /\ \A i \in 1..(n - d) : b[i] = c[d + i]
  BY LeftIs
<1> HIDE DEF a, b, n
<1> DEFINE A == Cut!Headers(a)
           B == Cut!Headers(b)
           C == Cut!Headers(c)
<1>4. A \in Seq(Lines) /\ Len(A) = d /\ \A i \in 1..d : A[i] = Cut!Header(c[i])
  BY <1>2, HeadersAre
<1>5. B \in Seq(Lines) /\ Len(B) = n - d /\ \A i \in 1..(n - d) : B[i] = Cut!Header(c[d + i])
  BY <1>3, HeadersAre
<1>6. C \in Seq(Lines) /\ Len(C) = n /\ \A i \in 1..n : C[i] = Cut!Header(c[i])
  BY HeadersAre DEF n
<1> HIDE DEF A, B, C
<1>7. /\ A \o B \in Seq(Lines) /\ Len(A \o B) = Len(A) + Len(B)
      /\ \A i \in 1..(Len(A) + Len(B)) : (A \o B)[i] = IF i <= Len(A) THEN A[i] ELSE B[i - Len(A)]
  BY <1>4, <1>5, ConcatProperties
<1> DEFINE D == A \o B
<1>8. D \in Seq(Lines) /\ Len(D) = n
  BY <1>1, <1>4, <1>5, <1>7
<1>9. \A i \in 1..n : D[i] = IF i <= d THEN A[i] ELSE B[i - d]
  BY <1>1, <1>4, <1>5, <1>7
<1> HIDE DEF D
<1>10. ASSUME NEW i \in 1..n PROVE D[i] = C[i]
  <2>1. CASE i <= d
    BY <1>1, <1>4, <1>6, <1>9, <2>1
  <2>2. CASE ~(i <= d)
    <3>1. i - d \in 1..(n - d) /\ d + (i - d) = i
      BY <1>1, <2>2
    <3> QED
      BY <1>5, <1>6, <1>9, <2>2, <3>1
  <2> QED
    BY <2>1, <2>2
<1>11. D = C
  BY <1>6, <1>8, <1>10, SeqEqual
<1> QED
  BY <1>11 DEF A, B, C, D, a, b, n

\* Lines may be joined in any order.
LEMMA LinesJoined ==
    \A a, b, c \in Seq(Lines) : (a \o b) \o c = a \o (b \o c)
  BY ConcatAssociative

\* A line put behind, without a header before it.
LEMMA PutPlain ==
    ASSUME NEW q \in Placing, NEW w \in Seq(Lines), NEW c \in Seq(Nat), Placed(q, w, c),
           NEW l \in Lines, l.kind \notin {"header", "stamped"}
    PROVE  Placed(Put(q, l), Append(w, l), c)
<1> DEFINE s == q.out
           t == Append(s, l)
<1>1. q.left \in Seq(Nat) /\ s \in Seq(Lines) /\ Put(q, l) = [left |-> q.left, out |-> t]
  BY DEF Placing, Put
<1>2. Heads(t) = Heads(s) /\ Rest(t) = Append(Rest(s), l)
  BY <1>1, SortedAppend
<1>3. Len(s) \in Nat /\ Len(t) = Len(s) + 1 /\ t[Len(s) + 1] = l /\ \A k \in 1..Len(s) : t[k] = s[k]
  BY <1>1, AppendProperties
<1> HIDE DEF s, t
<1>4. \A k \in 1..Len(t) : k \in 1..Len(s) \/ k = Len(s) + 1
  BY <1>3
<1>5. \A k \in 1..Len(t), j \in 1..Len(q.left) : t[k].kind = "stamped" => t[k].at < q.left[j]
  BY <1>3, <1>4 DEF Placed, s
<1>6. ASSUME NEW i \in 1..Len(t), t[i].kind = "header" PROVE Stands(t, i)
  <2>1. i \in 1..Len(s) /\ s[i].kind = "header"
    BY <1>3, <1>4, <1>6
  <2>2. Stands(s, i)
    BY <2>1 DEF Placed, s
  <2> QED
    BY <1>3, <2>1, <2>2, StandsOn DEF GoesOn
<1>7. Heads(t) \o Cut!Headers(q.left) = Cut!Headers(c) /\ Rest(t) = Append(w, l) /\ Rising(q.left)
  BY <1>2 DEF Placed, s
<1> DEFINE p == Put(q, l)
<1>8. p.left = q.left /\ p.out = t
  BY <1>1
<1> HIDE DEF p
<1>9. Placed(p, Append(w, l), c)
  BY <1>5, <1>6, <1>7, <1>8 DEF Placed
<1> QED
  BY <1>9 DEF p

\* A stamped line, with the headers of the chapters begun before it.
LEMMA PutStamped ==
    ASSUME NEW q \in Placing, NEW w \in Seq(Lines), NEW c \in Seq(Nat), Placed(q, w, c),
           NEW l \in Lines, l.kind = "stamped"
    PROVE  Placed(Put(q, l), Append(w, l), c)
<1> DEFINE s == q.out
           x == q.left
           n == Len(s)
           due == Due(x, l.at)
           H == Cut!Headers(due)
<1>1. x \in Seq(Nat) /\ s \in Seq(Lines) /\ n \in Nat /\ l.at \in Nat /\ Len(x) \in Nat
  BY DEF Placing, Lines
<1>2. PICK d \in 0..Len(x) : /\ due = SubSeq(x, 1, d) /\ Len(due) = d /\ due \in Seq(Nat)
                             /\ \A i \in 1..d : x[i] <= l.at /\ due[i] = x[i]
                             /\ d < Len(x) => x[d + 1] > l.at
  BY <1>1, DueIs
<1> DEFINE y == SubSeq(x, d + 1, Len(x))
           u == s \o H
           t == Append(u, l)
<1>3. Put(q, l) = [left |-> y, out |-> t]
  <2>1. Put(q, l) = [left |-> SubSeq(q.left, Len(Due(q.left, l.at)) + 1, Len(q.left)),
                     out  |-> Append(q.out \o Cut!Headers(Due(q.left, l.at)), l)]
    BY DEF Put
  <2> HIDE DEF Due
  <2> QED
    BY <1>2, <2>1
<1> HIDE DEF due
<1>4. H \in Seq(Lines) /\ Len(H) = d /\ \A i \in 1..d : H[i] = Cut!Header(x[i])
  BY <1>2, HeadersAre
<1>5. y \in Seq(Nat) /\ Len(y) = Len(x) - d /\ \A i \in 1..(Len(x) - d) : y[i] = x[d + i]
  BY <1>1, LeftIs
<1>6. H \o Cut!Headers(y) = Cut!Headers(x)
  BY <1>1, <1>2, HeadersSplit
<1>7. Cut!Headers(y) \in Seq(Lines)
  BY <1>5, HeadersAre
<1> HIDE DEF H, y, x, s
<1>8. H \in HeadersOnly
  BY <1>4 DEF HeadersOnly, Cut!Header
<1>9. Heads(u) = Heads(s) \o H /\ Rest(u) = Rest(s) /\ u \in Seq(Lines)
  BY <1>1, <1>4, <1>8, SortedBehind, ConcatProperties
<1>10. Len(u) = n + d /\ \A k \in 1..(n + d) : u[k] = IF k <= n THEN s[k] ELSE H[k - n]
  BY <1>1, <1>4, ConcatProperties
<1> HIDE DEF u
<1>11. Heads(t) = Heads(u) /\ Rest(t) = Append(Rest(u), l)
  BY <1>9, SortedAppend
<1>12. Len(t) = n + d + 1 /\ t[n + d + 1] = l /\ \A k \in 1..(n + d) : t[k] = u[k]
  <2>1. Len(t) = Len(u) + 1 /\ t[Len(u) + 1] = l /\ \A k \in 1..Len(u) : t[k] = u[k]
    BY <1>9, AppendProperties
  <2> HIDE DEF t
  <2> QED
    BY <1>10, <2>1
<1> HIDE DEF t, n
<1>a. n \in Nat /\ d \in Nat /\ d <= Len(x) /\ Len(x) \in Nat
  BY <1>1, <1>2 DEF n
<1>13. /\ \A k \in 1..n : t[k] = s[k]
       /\ \A j \in 1..d : t[n + j] = Cut!Header(x[j])
  <2>1. \A k \in 1..n : k \in 1..(n + d) /\ k <= n
    BY <1>1, <1>2
  <2>2. \A j \in 1..d : n + j \in 1..(n + d) /\ ~(n + j <= n) /\ (n + j) - n = j
    BY <1>1, <1>2
  <2>3. \A k \in 1..n : t[k] = s[k]
    BY <1>10, <1>12, <2>1
  <2>4. \A j \in 1..d : t[n + j] = u[n + j] /\ u[n + j] = H[(n + j) - n]
    BY <1>10, <1>12, <2>2
  <2> QED
    BY <1>4, <2>2, <2>3, <2>4
<1>14. \A k \in 1..(n + d + 1) : k \in 1..n \/ k = n + d + 1 \/ \E j \in 1..d : k = n + j
  <2> SUFFICES ASSUME NEW k \in 1..(n + d + 1), k \notin 1..n, k # n + d + 1 PROVE \E j \in 1..d : k = n + j
    OBVIOUS
  <2>1. k - n \in 1..d /\ k = n + (k - n)
    BY <1>1, <1>2
  <2> QED
    BY <2>1
<1>15. Heads(t) \o Cut!Headers(y) = Cut!Headers(c)
  <2>1. Heads(s) \in Seq(Lines)
    BY <1>1, SortedTyped
  <2>2. (Heads(s) \o H) \o Cut!Headers(y) = Heads(s) \o (H \o Cut!Headers(y))
    <3> DEFINE a == Heads(s)
               b == Cut!Headers(y)
    <3>1. a \in Seq(Lines) /\ b \in Seq(Lines) /\ H \in Seq(Lines)
      BY <1>4, <1>7, <2>1
    <3> HIDE DEF a, b
    <3>2. (a \o H) \o b = a \o (H \o b)
      BY <3>1, LinesJoined
    <3> QED
      BY <3>2 DEF a, b
  <2>3. Heads(s) \o Cut!Headers(x) = Cut!Headers(c)
    BY DEF Placed, s, x
  <2> QED
    BY <1>6, <1>9, <1>11, <2>2, <2>3
<1>16. Rest(t) = Append(w, l)
  BY <1>9, <1>11 DEF Placed, s
<1>17. Rising(x) /\ \A k \in 1..n, j \in 1..Len(x) : s[k].kind = "stamped" => s[k].at < x[j]
  BY DEF Placed, s, x, n
<1>18. \A j \in 1..(Len(x) - d) : d + j \in 1..Len(x) /\ x[d + j] > l.at /\ x[d + j] \in Nat
  <2> SUFFICES ASSUME NEW j \in 1..(Len(x) - d) PROVE d + j \in 1..Len(x) /\ x[d + j] > l.at /\ x[d + j] \in Nat
    OBVIOUS
  <2>1. d + j \in 1..Len(x) /\ d + 1 \in 1..Len(x) /\ d + 1 <= d + j /\ d < Len(x)
    BY <1>1, <1>2
  <2>2. x[d + 1] <= x[d + j]
    BY <1>17, <2>1 DEF Rising
  <2>3. x[d + 1] \in Nat /\ x[d + j] \in Nat
    BY <1>1, <2>1
  <2> QED
    BY <1>1, <1>2, <2>1, <2>2, <2>3
<1>19. Rising(y)
  <2> SUFFICES ASSUME NEW i \in 1..Len(y), NEW k \in 1..Len(y), i <= k PROVE y[i] <= y[k]
    BY DEF Rising
  <2>1. d + i \in 1..Len(x) /\ d + k \in 1..Len(x) /\ d + i <= d + k
    BY <1>1, <1>2, <1>5
  <2>2. x[d + i] <= x[d + k]
    BY <1>17, <2>1 DEF Rising
  <2> QED
    BY <1>5, <2>2
<1>20. ASSUME NEW k \in 1..Len(t), NEW j \in 1..Len(y), t[k].kind = "stamped" PROVE t[k].at < y[j]
  <2>1. y[j] = x[d + j] /\ d + j \in 1..Len(x) /\ x[d + j] > l.at /\ x[d + j] \in Nat
    BY <1>5, <1>18
  <2>2. CASE k \in 1..n
    BY <1>13, <1>17, <1>20, <2>1, <2>2
  <2>3. CASE k = n + d + 1
    BY <1>1, <1>12, <2>1, <2>3
  <2>4. ASSUME NEW i \in 1..d, k = n + i PROVE FALSE
    BY <1>13, <1>20, <2>4, HeaderIs
  <2> QED
    BY <1>12, <1>14, <2>2, <2>3, <2>4
<1>21. ASSUME NEW i \in 1..Len(t), t[i].kind = "header" PROVE Stands(t, i)
  <2>1. CASE i \in 1..n
    <3>1. s[i].kind = "header"
      BY <1>13, <1>21, <2>1
    <3>2. Stands(s, i)
      BY <2>1, <3>1 DEF Placed, s, n
    <3>3. n + d + 1 \in Nat /\ n <= n + d + 1 /\ Len(s) = n
      BY <1>1, <1>2 DEF n
    <3> QED
      <4>1. GoesOn(t, s) /\ i \in 1..Len(s)
        BY <1>a, <1>12, <1>13, <2>1, <3>3 DEF GoesOn
      <4> QED
        BY <3>2, <4>1, StandsOn
  <2>2. ASSUME NEW j \in 1..d, i = n + j PROVE Stands(t, i)
    <3>1. t[i].at = x[j] /\ x[j] <= l.at /\ j \in 1..Len(x) /\ x[j] \in Nat
      <4>1. t[n + j] = Cut!Header(x[j]) /\ x[j] <= l.at
        BY <1>2, <1>13
      <4>2. j \in 1..Len(x)
        BY <1>a
      <4>3. t[i].at = x[j]
        BY <2>2, <4>1, HeaderIs, Zenon
      <4>4. x[j] \in Nat
        BY <1>1, <4>2
      <4> QED
        BY <4>1, <4>2, <4>3, <4>4, Zenon
    <3>2. \A k \in 1..Len(t) : (t[k].kind = "stamped" /\ k < i) => t[k].at < t[i].at
      <4> SUFFICES ASSUME NEW k \in 1..Len(t), t[k].kind = "stamped", k < i PROVE t[k].at < t[i].at
        OBVIOUS
      <4>1. CASE k \in 1..n
        BY <1>13, <1>17, <3>1, <4>1
      <4>2. CASE k = n + d + 1
        BY <1>1, <1>2, <2>2, <4>2
      <4>3. ASSUME NEW g \in 1..d, k = n + g PROVE FALSE
        BY <1>13, <4>3, HeaderIs
      <4> QED
        BY <1>12, <1>14, <4>1, <4>2, <4>3
    <3>3. /\ n + d + 1 \in 1..Len(t) /\ t[n + d + 1].kind = "stamped" /\ n + d + 1 > i
          /\ t[n + d + 1].at >= t[i].at
      <4>1. n + d + 1 \in 1..(n + d + 1) /\ n + d + 1 > n + j
        BY <1>a
      <4> QED
        BY <1>1, <1>12, <2>2, <3>1, <4>1
    <3>4. ASSUME NEW k \in 1..Len(t), i < k, k < n + d + 1 PROVE t[k].kind # "stamped"
      <4>1. k - n \in 1..d /\ n + (k - n) = k
        BY <1>a, <1>12, <2>2, <3>4
      <4>2. t[n + (k - n)] = Cut!Header(x[k - n])
        BY <1>13, <4>1
      <4> QED
        BY <4>1, <4>2, HeaderIs
    <3> QED
      BY <3>2, <3>3, <3>4 DEF Stands
  <2>3. i # n + d + 1
    BY <1>12, <1>21
  <2> QED
    BY <1>12, <1>14, <2>1, <2>2, <2>3
<1> DEFINE p == Put(q, l)
<1>22. p.left = y /\ p.out = t
  BY <1>3
<1> HIDE DEF p
<1>23. Placed(p, Append(w, l), c)
  BY <1>15, <1>16, <1>19, <1>20, <1>21, <1>22 DEF Placed
<1> QED
  BY <1>23 DEF p

\* Lines as they are read.
Headless(w) == \A i \in 1..Len(w) : w[i].kind # "header"

\* All headers stand behind what is said before, and before what is said next.
InPlace(s) ==
    \A i \in 1..Len(s) : s[i].kind = "header" =>
        /\ \A k \in 1..Len(s) : (s[k].kind = "stamped" /\ k < i) => s[k].at < s[i].at
        /\ \A k \in 1..Len(s) :
             (s[k].kind = "stamped" /\ k > i /\ \A m \in 1..Len(s) : (s[m].kind = "stamped" /\ m > i) => m >= k) =>
                 s[k].at >= s[i].at

\* What is left behind the last line is put there.
LEMMA AllPlaced ==
    ASSUME NEW q \in Placing, NEW w, NEW c, Placed(q, w, c)
    PROVE  InPlace(q.out \o Cut!Headers(q.left))
<1> DEFINE s == q.out
           x == q.left
           n == Len(s)
           d == Len(x)
           H == Cut!Headers(x)
           v == s \o H
<1>1. x \in Seq(Nat) /\ s \in Seq(Lines) /\ n \in Nat /\ d \in Nat
  BY DEF Placing
<1>2. H \in Seq(Lines) /\ Len(H) = d /\ \A i \in 1..d : H[i] = Cut!Header(x[i])
  BY <1>1, HeadersAre
<1>3. /\ \A k \in 1..n, j \in 1..d : s[k].kind = "stamped" => s[k].at < x[j]
      /\ \A i \in 1..n : s[i].kind = "header" => Stands(s, i)
  BY DEF Placed
<1> HIDE DEF H, s, x
<1>4. Len(v) = n + d /\ \A k \in 1..(n + d) : v[k] = IF k <= n THEN s[k] ELSE H[k - n]
  <2>1. /\ Len(v) = Len(s) + Len(H)
        /\ \A k \in 1..(Len(s) + Len(H)) : v[k] = IF k <= Len(s) THEN s[k] ELSE H[k - Len(s)]
    BY <1>1, <1>2, ConcatProperties
  <2> HIDE DEF v
  <2> QED
    BY <1>2, <2>1
<1> HIDE DEF v
<1>5. \A k \in 1..n : k \in 1..Len(v) /\ v[k] = s[k]
  BY <1>1, <1>4
<1>6. ASSUME NEW k \in 1..Len(v), ~(k <= n) PROVE k - n \in 1..d /\ v[k] = Cut!Header(x[k - n])
  <2>1. k - n \in 1..d
    BY <1>1, <1>4, <1>6
  <2> QED
    BY <1>2, <1>4, <1>6, <2>1
<1>7. ASSUME NEW k \in 1..Len(v), v[k].kind = "stamped" PROVE k \in 1..n /\ s[k].kind = "stamped"
  <2>1. k <= n
    BY <1>6, <1>7, HeaderIs
  <2> QED
    BY <1>1, <1>5, <1>7, <2>1
<1>8. ASSUME NEW i \in 1..Len(v), v[i].kind = "header"
      PROVE  /\ \A k \in 1..Len(v) : (v[k].kind = "stamped" /\ k < i) => v[k].at < v[i].at
             /\ \A k \in 1..Len(v) :
                  (v[k].kind = "stamped" /\ k > i /\ \A m \in 1..Len(v) : (v[m].kind = "stamped" /\ m > i) => m >= k) =>
                      v[k].at >= v[i].at
  <2>1. CASE i <= n
    <3>1. i \in 1..n /\ s[i].kind = "header" /\ Stands(s, i)
      BY <1>1, <1>3, <1>5, <1>8, <2>1
    <3>2. Stands(v, i)
      <4>1. GoesOn(v, s)
        BY <1>1, <1>4, <1>5 DEF GoesOn
      <4> QED
        BY <3>1, <4>1, StandsOn
    <3>3. \A k \in 1..Len(v) : (v[k].kind = "stamped" /\ k < i) => v[k].at < v[i].at
      BY <3>2 DEF Stands
    <3>4. PICK m \in 1..Len(v) : /\ v[m].kind = "stamped" /\ m > i /\ v[m].at >= v[i].at
                                 /\ \A k \in 1..Len(v) : (i < k /\ k < m) => v[k].kind # "stamped"
      BY <3>2 DEF Stands
    <3>5. ASSUME NEW k \in 1..Len(v), v[k].kind = "stamped", k > i,
                 \A g \in 1..Len(v) : (v[g].kind = "stamped" /\ g > i) => g >= k
          PROVE  v[k].at >= v[i].at
      <4>1. m >= k /\ ~(k < m)
        BY <3>4, <3>5
      <4>2. k = m
        BY <1>1, <4>1
      <4> QED
        BY <3>4, <4>2
    <3> QED
      BY <3>3, <3>5
  <2>2. CASE ~(i <= n)
    <3>1. i - n \in 1..d /\ v[i].at = x[i - n]
      BY <1>6, <2>2, HeaderIs
    <3>2. ASSUME NEW k \in 1..Len(v), v[k].kind = "stamped" PROVE v[k].at < v[i].at /\ ~(k > i)
      <4>1. k \in 1..n /\ s[k].kind = "stamped" /\ v[k] = s[k]
        BY <1>5, <1>7, <3>2
      <4> QED
        BY <1>1, <1>3, <2>2, <3>1, <4>1
    <3> QED
      BY <3>2
  <2> QED
    BY <2>1, <2>2
<1>9. InPlace(v)
  BY <1>8 DEF InPlace
<1> QED
  BY <1>9 DEF v, s, H, x

\* Chapters are put in once and in order, where they begin, and nothing else changes.
LEMMA EmbedPlaces ==
    ASSUME NEW w \in Seq(Lines), Headless(w), NEW c \in Seq(Nat), Rising(c)
    PROVE  /\ Cut!Embed(w, c) \in Seq(Lines)
           /\ Heads(Cut!Embed(w, c)) = Cut!Headers(c) /\ Rest(Cut!Embed(w, c)) = w /\ InPlace(Cut!Embed(w, c))
<1> DEFINE a == [left |-> c, out |-> <<>>]
           Got(r, x) == Result(r, x, Placing, a, Putting)
           T == {x \in Seq(Lines) : \A r : (Headless(x) /\ Got(r, x)) => r \in Placing /\ Placed(r, x, c)}
<1>1. <<>> \in T
  <2> SUFFICES ASSUME NEW r, Got(r, <<>>) PROVE r \in Placing /\ Placed(r, <<>>, c)
    OBVIOUS
  <2>1. r = a
    BY ResultOfNone
  <2>2. r \in Placing /\ r.left = c /\ r.out = <<>>
    BY <2>1, PuttingTyped
  <2>3. Heads(<<>>) = <<>> /\ Rest(<<>>) = <<>> /\ Len(<<>>) = 0
    BY SortedNone
  <2>4. <<>> \o Cut!Headers(c) = Cut!Headers(c)
    BY HeadersAre, ConcatEmptySeq
  <2>5. Heads(r.out) \o Cut!Headers(r.left) = Cut!Headers(c) /\ Rest(r.out) = <<>>
    BY <2>2, <2>3, <2>4, Zenon
  <2> QED
    BY <2>2, <2>3, <2>5 DEF Placed
<1>2. ASSUME NEW x \in Seq(Lines), NEW l \in Lines, x \in T PROVE Append(x, l) \in T
  <2> DEFINE v == Append(x, l)
  <2>0. v \in Seq(Lines) /\ Len(x) \in Nat /\ Len(v) = Len(x) + 1 /\ v[Len(x) + 1] = l
        /\ \A i \in 1..Len(x) : v[i] = x[i]
    BY AppendProperties
  <2> SUFFICES ASSUME NEW r, Headless(v), Got(r, v) PROVE r \in Placing /\ Placed(r, v, c)
    BY <2>0
  <2>1. PICK q \in Placing : Got(q, x) /\ r = Putting[l][q]
    BY ResultOfMore
  <2>2. Headless(x) /\ l.kind # "header"
    <3> HIDE DEF v
    <3> QED
      BY <2>0 DEF Headless
  <2>3. r = Put(q, l) /\ Placed(q, x, c)
    BY <1>2, <2>1, <2>2, PuttingTyped
  <2>4. r \in Placing
    BY <2>3, PutTyped
  <2>5. Placed(Put(q, l), v, c)
    BY <2>2, <2>3, PutPlain, PutStamped
  <2> QED
    BY <2>3, <2>4, <2>5
<1> HIDE DEF T
<1>3. w \in T
  BY <1>1, <1>2, Sequentially
<1>4. PICK r : Got(r, w) /\ Cut!Embed(w, c) = r.out \o Cut!Headers(r.left)
  BY EmbedIs
<1>5. r \in Placing /\ Placed(r, w, c)
  BY <1>3, <1>4 DEF T
<1>6. r.out \in Seq(Lines) /\ r.left \in Seq(Nat)
  BY <1>5 DEF Placing
<1>7. Cut!Headers(r.left) \in Seq(Lines) /\ Cut!Headers(r.left) \in HeadersOnly
  <2>1. /\ Cut!Headers(r.left) \in Seq(Lines) /\ Len(Cut!Headers(r.left)) = Len(r.left)
        /\ \A i \in 1..Len(r.left) : Cut!Headers(r.left)[i] = Cut!Header(r.left[i])
    BY <1>6, HeadersAre
  <2> QED
    BY <2>1, HeaderIs DEF HeadersOnly
<1>8. /\ r.out \o Cut!Headers(r.left) \in Seq(Lines)
      /\ Heads(r.out \o Cut!Headers(r.left)) = Heads(r.out) \o Cut!Headers(r.left)
      /\ Rest(r.out \o Cut!Headers(r.left)) = Rest(r.out)
  BY <1>6, <1>7, SortedBehind, ConcatProperties
<1>9. Heads(r.out) \o Cut!Headers(r.left) = Cut!Headers(c) /\ Rest(r.out) = w
  BY <1>5 DEF Placed
<1>10. InPlace(r.out \o Cut!Headers(r.left))
  BY <1>5, AllPlaced
<1> QED
  BY <1>4, <1>8, <1>9, <1>10

---------------------------------------------------------------------------------
(* TranscriptText: what is said, and when *)

\* The entries e are those of the lines r.
Tells(e, r) ==
    /\ Len(e) = Len(r)
    /\ \A i \in 1..Len(r) : e[i].text = r[i].text /\ (r[i].kind = "stamped" => e[i].at = r[i].at)

\* An entry more for a line more.
LEMMA TellsOn ==
    ASSUME NEW e \in Seq(Word), NEW r \in Seq(Lines), Tells(e, r), NEW z \in Word, NEW l \in Lines,
           z.text = l.text, l.kind = "stamped" => z.at = l.at
    PROVE  Append(e, z) \in Seq(Word) /\ Tells(Append(e, z), Append(r, l))
<1> DEFINE a == Append(e, z)
           b == Append(r, l)
           n == Len(r)
<1>1. Len(e) = n /\ \A i \in 1..n : e[i].text = r[i].text /\ (r[i].kind = "stamped" => e[i].at = r[i].at)
  BY DEF Tells
<1>2. a \in Seq(Word) /\ Len(a) = Len(e) + 1 /\ a[Len(e) + 1] = z /\ \A i \in 1..Len(e) : a[i] = e[i]
  BY AppendProperties
<1>3. n \in Nat /\ Len(b) = n + 1 /\ b[n + 1] = l /\ \A i \in 1..n : b[i] = r[i]
  BY AppendProperties
<1> HIDE DEF a, b, n
<1>4. \A i \in 1..(n + 1) : i \in 1..n \/ i = n + 1
  BY <1>3
<1>5. Tells(a, b)
  BY <1>1, <1>2, <1>3, <1>4 DEF Tells
<1> QED
  BY <1>2, <1>5 DEF a, b

\* The entries of lines are what they have to say, in their order, at their stamps.
LEMMA EntriesTell ==
    ASSUME NEW w \in Seq(Lines)
    PROVE  Cut!Entries(w) \in Seq(Word) /\ Tells(Cut!Entries(w), Voiced(w))
<1> DEFINE a == [last |-> 0, out |-> <<>>]
           Got(r, x) == Result(r, x, Hearing, a, Saying)
           T == {x \in Seq(Lines) : \A r : Got(r, x) => r.out \in Seq(Word) /\ Tells(r.out, Voiced(x))}
<1>1. <<>> \in T
  <2> SUFFICES ASSUME NEW r, Got(r, <<>>) PROVE r.out \in Seq(Word) /\ Tells(r.out, Voiced(<<>>))
    OBVIOUS
  <2>1. r = a
    BY ResultOfNone
  <2>2. r.out = <<>> /\ Voiced(<<>>) = <<>> /\ <<>> \in Seq(Word) /\ Len(<<>>) = 0
    BY <2>1, VoicedNone
  <2>3. Tells(<<>>, <<>>)
    BY <2>2 DEF Tells
  <2> QED
    BY <2>2, <2>3
<1>2. ASSUME NEW x \in Seq(Lines), NEW l \in Lines, x \in T PROVE Append(x, l) \in T
  <2>0. Append(x, l) \in Seq(Lines)
    BY AppendProperties
  <2> SUFFICES ASSUME NEW r, Got(r, Append(x, l))
               PROVE  r.out \in Seq(Word) /\ Tells(r.out, Voiced(Append(x, l)))
    BY <2>0
  <2>1. PICK q \in Hearing : Got(q, x) /\ r = Saying[l][q]
    BY ResultOfMore
  <2>2. r = Uttered(q, l) /\ q.out \in Seq(Word) /\ Tells(q.out, Voiced(x)) /\ q.last \in Nat
    BY <1>2, <2>1, SayingTyped DEF Hearing
  <2>3. Voiced(x) \in Seq(Lines) /\ Voiced(Append(x, l)) = IF Cut!Utters(l) THEN Append(Voiced(x), l) ELSE Voiced(x)
    BY VoicedAppend
  <2>4. ASSUME r.out = q.out, ~Cut!Utters(l) PROVE r.out \in Seq(Word) /\ Tells(r.out, Voiced(Append(x, l)))
    BY <2>2, <2>3, <2>4
  <2>5. ASSUME NEW z \in Word, z.text = l.text, l.kind = "stamped" => z.at = l.at, r.out = Append(q.out, z),
               Cut!Utters(l)
        PROVE  r.out \in Seq(Word) /\ Tells(r.out, Voiced(Append(x, l)))
    BY <2>2, <2>3, <2>5, TellsOn
  <2>6. CASE l.kind = "header"
    <3>1. r.out = q.out /\ ~Cut!Utters(l)
      BY <2>2, <2>6 DEF Uttered, Cut!Utters
    <3> QED
      BY <2>4, <3>1
  <2>7. CASE l.kind = "stamped" /\ l.text = Blank
    <3>1. r.out = q.out /\ ~Cut!Utters(l)
      BY <2>2, <2>7 DEF Uttered, Cut!Utters
    <3> QED
      BY <2>4, <3>1
  <2>8. CASE l.kind = "stamped" /\ l.text # Blank
    <3> DEFINE z == [at |-> l.at, text |-> l.text]
    <3>1. r.out = Append(q.out, z) /\ Cut!Utters(l)
      BY <2>2, <2>8 DEF Uttered, Cut!Utters
    <3>2. z \in Word /\ z.text = l.text /\ z.at = l.at
      BY <2>8 DEF Word, Lines, Texts
    <3> HIDE DEF z
    <3> QED
      BY <2>5, <3>1, <3>2
  <2>9. CASE l.kind \notin {"stamped", "header"} /\ l.text \in Meta
    <3>1. r.out = q.out /\ ~Cut!Utters(l)
      BY <2>2, <2>9 DEF Uttered, Cut!Utters
    <3> QED
      BY <2>4, <3>1
  <2>10. CASE l.kind \notin {"stamped", "header"} /\ l.text \notin Meta
    <3> DEFINE z == [at |-> q.last, text |-> l.text]
    <3>1. Uttered(q, l) = [q EXCEPT !.out = Append(q.out, z)]
      BY <2>10 DEF Uttered
    <3>2. r.out = Append(q.out, z)
      BY <2>2, <3>1 DEF Hearing
    <3>3. z \in Word /\ z.text = l.text
      BY <2>2, <2>10 DEF Word, Lines
    <3>4. Cut!Utters(l)
      BY <2>10 DEF Lines, Cut!Utters
    <3> HIDE DEF z
    <3> QED
      BY <2>5, <2>10, <3>2, <3>3, <3>4
  <2> QED
    BY <2>6, <2>7, <2>8, <2>9, <2>10
<1> HIDE DEF T
<1>3. w \in T
  BY <1>1, <1>2, Sequentially
<1>4. PICK r : Got(r, w) /\ Cut!Entries(w) = r.out
  BY EntriesAre
<1> QED
  BY <1>3, <1>4 DEF T

\* The entries of lines without stamps: all of them, at the beginning.
Untold(w)  == [i \in DOMAIN w |-> [at |-> 0, text |-> w[i].text]]

\* A text without stamps is cut as it is, headers and all.
LEMMA UntimedTell ==
    ASSUME NEW w \in Seq(Lines), \A i \in 1..Len(w) : w[i].kind # "stamped"
    PROVE  /\ Untold(w) \in Seq(Word) /\ Tells(Untold(w), w)
           /\ \A i \in 1..Len(Untold(w)) : Untold(w)[i].at = 0
<1> DEFINE n == Len(w)
           u == [i \in 1..n |-> [at |-> 0, text |-> w[i].text]]
<1>1. n \in Nat /\ DOMAIN w = 1..n /\ \A i \in 1..n : w[i] \in Lines
  OBVIOUS
<1>2. \A i \in 1..n : [at |-> 0, text |-> w[i].text] \in Word
  BY <1>1 DEF Lines, Word
<1>3. Untold(w) = u
  BY <1>1 DEF Untold
<1> HIDE DEF n
<1>4. u \in Seq(Word) /\ Len(u) = n /\ \A i \in 1..n : u[i].text = w[i].text /\ u[i].at = 0
  BY <1>1, <1>2
<1> HIDE DEF u
<1>5. Tells(u, w)
  BY <1>4 DEF Tells, n
<1> QED
  BY <1>3, <1>4, <1>5

---------------------------------------------------------------------------------
(* Sequences one after the other *)

\* One more is put behind the others.
LEMMA FlattenMore ==
    ASSUME NEW X, NEW s \in Seq(Seq(X)), NEW x \in Seq(X)
    PROVE  /\ Cut!FlattenSeq(Append(s, x)) = Cut!FlattenSeq(s) \o x
           /\ Cut!FlattenSeq(s) \in Seq(X) /\ Cut!FlattenSeq(Append(s, x)) \in Seq(X)
<1> DEFINE v == Append(s, x)
           n == Len(s)
<1>0. \A u : Cut!FlattenSeq(u) = Summary!FlattenSeq(u)
  BY DEF Cut!FlattenSeq, Summary!FlattenSeq
<1>1. v \in Seq(Seq(X)) /\ n \in Nat /\ Len(v) = n + 1 /\ v[n + 1] = x /\ \A i \in 1..n : v[i] = s[i]
  BY AppendProperties
<1> HIDE DEF v
<1>2. PICK h : Joins(h, X, v) /\ Cut!FlattenSeq(v) = h[n + 1]
  <2>1. Len(v) # 0
    BY <1>1
  <2> QED
    BY <1>0, <1>1, <2>1, FlattenUnfolds
<1>3. h \in [1..(n + 1) -> Seq(X)] /\ \A i \in 1..(n + 1) : h[i] = IF i = 1 THEN v[i] ELSE h[i - 1] \o v[i]
  BY <1>1, <1>2 DEF Joins
<1>4. CASE n = 0
  <2>1. s = <<>>
    BY <1>4, EmptySeq
  <2>2. Cut!FlattenSeq(s) = <<>>
    BY <1>4, <2>1 DEF Cut!FlattenSeq
  <2>3. h[n + 1] = x
    BY <1>1, <1>3, <1>4
  <2>4. <<>> \o x = x /\ <<>> \in Seq(X)
    BY ConcatEmptySeq
  <2>5. Cut!FlattenSeq(s) \o x = x /\ Cut!FlattenSeq(s) \in Seq(X)
    BY <2>2, <2>4, Zenon
  <2> QED
    BY <1>2, <2>3, <2>5 DEF v
<1>5. CASE n # 0
  <2>1. PICK g : Joins(g, X, s) /\ Cut!FlattenSeq(s) = g[n]
    BY <1>0, <1>5, FlattenUnfolds
  <2>2. g \in [1..n -> Seq(X)] /\ \A i \in 1..n : g[i] = IF i = 1 THEN s[i] ELSE g[i - 1] \o s[i]
    BY <2>1 DEF Joins
  <2> HIDE DEF n
  <2> DEFINE U == {i \in 1..n : g[i] = h[i]}
  <2>3. 1 \in Int /\ n \in Int /\ (1 <= n => 1 \in U)
    <3>1. n \in Nat /\ 1 \in 1..n /\ 1 \in 1..(n + 1) /\ v[1] = s[1]
      BY <1>1, <1>5
    <3>2. g[1] = s[1] /\ h[1] = v[1]
      BY <1>3, <2>2, <3>1
    <3> QED
      BY <3>1, <3>2
  <2>4. ASSUME NEW i \in 1..n, i \in U, i + 1 \in 1..n PROVE i + 1 \in U
    <3>1. i + 1 \in 1..(n + 1) /\ (i + 1) - 1 = i /\ i + 1 # 1
      BY <1>1, <2>4
    <3>2. g[i + 1] = g[i] \o s[i + 1]
      BY <2>2, <2>4, <3>1
    <3>3. h[i + 1] = h[i] \o v[i + 1]
      BY <1>3, <3>1
    <3> QED
      BY <1>1, <2>4, <3>2, <3>3
  <2> HIDE DEF U
  <2>5. \A i \in 1..n : i \in U
    BY <2>3, <2>4, Upwards
  <2>6. g[n] = h[n] /\ g[n] \in Seq(X)
    BY <1>1, <1>5, <2>2, <2>5 DEF U
  <2>7. h[n + 1] = h[n] \o x
    <3>1. n + 1 \in 1..(n + 1) /\ (n + 1) - 1 = n /\ n + 1 # 1
      BY <1>1, <1>5
    <3> QED
      BY <1>1, <1>3, <3>1
  <2>8. h[n + 1] \in Seq(X)
    BY <1>1, <1>3
  <2> QED
    BY <1>2, <2>1, <2>6, <2>7, <2>8 DEF v
<1> QED
  BY <1>4, <1>5

---------------------------------------------------------------------------------
(* TranscriptText: the segments *)

TextsOf(p) == [i \in DOMAIN p |-> p[i].texts]
Say(e)     == [i \in 1..Len(e) |-> e[i].text]
Climbs(e)  == \A i, k \in 1..Len(e) : i <= k => e[i].at <= e[k].at

\* No piece of several texts is longer than the limit.
Sized(p) == \A i \in 1..Len(p) : Len(p[i].texts) > 1 => p[i].size <= MaxLength

\* The pieces p follow each other, and the last ends with e.
Follow(p, e) ==
    /\ \A i \in 1..Len(p) : p[i].from <= p[i].to
    /\ \A i \in 1..(Len(p) - 1) : p[i].to <= p[i + 1].from
    /\ Len(p) # 0 => p[Len(p)].to = e[Len(e)].at

\* The pieces p say what the entries e say.
Carries(p, e) ==
    /\ Len(p) = 0 <=> Len(e) = 0
    /\ Cut!FlattenSeq(TextsOf(p)) = Say(e)
    /\ Sized(p)
    /\ Climbs(e) => Follow(p, e)

\* The texts of segments, one more.
LEMMA TextsMore ==
    ASSUME NEW p \in Seq(Pieces), NEW x \in Pieces
    PROVE  TextsOf(p) \in Seq(Seq(Texts)) /\ TextsOf(Append(p, x)) = Append(TextsOf(p), x.texts) /\ x.texts \in Seq(Texts)
<1> DEFINE v == Append(p, x)
           n == Len(p)
           a == TextsOf(v)
           b == Append(TextsOf(p), x.texts)
<1>1. v \in Seq(Pieces) /\ n \in Nat /\ Len(v) = n + 1 /\ v[n + 1] = x /\ \A i \in 1..n : v[i] = p[i]
  BY AppendProperties
<1>2. DOMAIN v = 1..(n + 1) /\ DOMAIN p = 1..n /\ \A i \in 1..n : p[i] \in Pieces
  BY <1>1
<1>3. x.texts \in Seq(Texts) /\ \A i \in 1..n : p[i].texts \in Seq(Texts)
  BY <1>2 DEF Pieces
<1> HIDE DEF v
<1>4. TextsOf(p) \in Seq(Seq(Texts)) /\ Len(TextsOf(p)) = n /\ \A i \in 1..n : TextsOf(p)[i] = p[i].texts
  BY <1>1, <1>2, <1>3 DEF TextsOf
<1>5. b \in Seq(Seq(Texts)) /\ Len(b) = n + 1 /\ b[n + 1] = x.texts /\ \A i \in 1..n : b[i] = p[i].texts
  BY <1>3, <1>4, AppendProperties
<1>6. a = [i \in 1..(n + 1) |-> v[i].texts]
  BY <1>2 DEF TextsOf
<1>7. \A i \in 1..(n + 1) : v[i].texts \in Seq(Texts) /\ (i \in 1..n \/ i = n + 1)
  BY <1>1, <1>3
<1>8. a \in Seq(Seq(Texts)) /\ Len(a) = n + 1 /\ \A i \in 1..(n + 1) : a[i] = v[i].texts
  BY <1>1, <1>6, <1>7
<1> HIDE DEF a, b, n
<1>9. \A i \in 1..Len(a) : a[i] = b[i]
  BY <1>1, <1>5, <1>7, <1>8
<1>10. a = b
  BY <1>5, <1>8, <1>9, SeqEqual
<1> QED
  BY <1>3, <1>4, <1>10 DEF a, b, v

\* What entries say, one more.
LEMMA SayMore ==
    ASSUME NEW e \in Seq(Word), NEW z \in Word
    PROVE  Say(Append(e, z)) = Append(Say(e), z.text) /\ Say(e) \in Seq(Texts) /\ z.text \in Texts
<1> DEFINE v == Append(e, z)
           n == Len(e)
           c == [i \in 1..n |-> e[i].text]
           a == [i \in 1..Len(v) |-> v[i].text]
           b == Append(c, z.text)
<1>1. v \in Seq(Word) /\ n \in Nat /\ Len(v) = n + 1 /\ v[n + 1] = z /\ \A i \in 1..n : v[i] = e[i] /\ e[i] \in Word
  BY AppendProperties
<1>2. z.text \in Texts /\ \A i \in 1..n : e[i].text \in Texts
  BY <1>1 DEF Word, Texts
<1>9. n \in Nat /\ Len(v) = n + 1
  BY <1>1
<1> HIDE DEF v, n
<1>3. c \in Seq(Texts) /\ Len(c) = n /\ \A i \in 1..n : c[i] = e[i].text
  BY <1>1, <1>2
<1> HIDE DEF c
<1>4. b \in Seq(Texts) /\ Len(b) = n + 1 /\ b[n + 1] = z.text /\ \A i \in 1..n : b[i] = c[i]
  BY <1>2, <1>3, AppendProperties
<1>5. \A i \in 1..(n + 1) : v[i].text \in Texts /\ (i \in 1..n \/ i = n + 1)
  BY <1>1, <1>2
<1>6. a \in Seq(Texts) /\ Len(a) = n + 1 /\ \A i \in 1..(n + 1) : a[i] = v[i].text
  BY <1>1, <1>5
<1> HIDE DEF a, b, c
<1>7. \A i \in 1..Len(a) : a[i] = b[i]
  <2> SUFFICES ASSUME NEW i \in 1..(n + 1) PROVE a[i] = b[i]
    BY <1>6
  <2>1. CASE i \in 1..n
    BY <1>1, <1>3, <1>4, <1>6, <2>1
  <2>2. CASE i = n + 1
    BY <1>1, <1>4, <1>6, <2>2
  <2> QED
    BY <1>1, <2>1, <2>2
<1>8. a = b
  BY <1>4, <1>6, <1>7, SeqEqual
<1> QED
  BY <1>2, <1>3, <1>8 DEF a, b, c, v, n, Say

\* What rises with one more rises without it, and up to it.
LEMMA ClimbsBefore ==
    ASSUME NEW e \in Seq(Word), NEW z \in Word, Climbs(Append(e, z))
    PROVE  Climbs(e) /\ (Len(e) # 0 => e[Len(e)].at <= z.at)
<1> DEFINE v == Append(e, z)
           n == Len(e)
<1>1. n \in Nat /\ Len(v) = n + 1 /\ v[n + 1] = z /\ \A i \in 1..n : v[i] = e[i] /\ i \in 1..(n + 1)
  BY AppendProperties
<1>2. \A i, k \in 1..(n + 1) : i <= k => v[i].at <= v[k].at
  BY <1>1 DEF Climbs
<1> HIDE DEF v
<1>3. ASSUME NEW i \in 1..n, NEW k \in 1..n, i <= k PROVE e[i].at <= e[k].at
  BY <1>1, <1>2, <1>3
<1>4. ASSUME n # 0 PROVE e[n].at <= z.at
  <2>1. n \in 1..n /\ n \in 1..(n + 1) /\ n + 1 \in 1..(n + 1) /\ n <= n + 1
    BY <1>1, <1>4
  <2> QED
    BY <1>1, <1>2, <2>1
<1> QED
  BY <1>3, <1>4 DEF Climbs

\* A piece of one text begins behind the others.
LEMMA Begins ==
    ASSUME NEW p \in Seq(Pieces), NEW e \in Seq(Word), Carries(p, e), NEW z \in Word,
           NEW b \in Pieces, b.texts = <<z.text>>, b.from = z.at, b.to = z.at
    PROVE  Carries(Append(p, b), Append(e, z))
<1> DEFINE q == Append(p, b)
           v == Append(e, z)
           n == Len(p)
           m == Len(e)
<1>1. /\ q \in Seq(Pieces) /\ n \in Nat /\ Len(q) = n + 1 /\ q[n + 1] = b
      /\ \A i \in 1..n : q[i] = p[i] /\ p[i] \in Pieces
  BY AppendProperties
<1>2. m \in Nat /\ Len(v) = m + 1 /\ v[m + 1] = z
  BY AppendProperties
<1>3. (n = 0 <=> m = 0) /\ Cut!FlattenSeq(TextsOf(p)) = Say(e) /\ Sized(p) /\ (Climbs(e) => Follow(p, e))
  BY DEF Carries
<1>4. /\ TextsOf(p) \in Seq(Seq(Texts)) /\ TextsOf(q) = Append(TextsOf(p), b.texts) /\ b.texts \in Seq(Texts)
      /\ Say(v) = Append(Say(e), z.text) /\ Say(e) \in Seq(Texts) /\ z.text \in Texts
  BY TextsMore, SayMore
<1> HIDE DEF q, v, n, m
<1>5. Cut!FlattenSeq(TextsOf(q)) = Say(v)
  <2>1. Cut!FlattenSeq(TextsOf(q)) = Say(e) \o b.texts
    <3>1. Cut!FlattenSeq(Append(TextsOf(p), b.texts)) = Cut!FlattenSeq(TextsOf(p)) \o b.texts
      BY <1>4, FlattenMore
    <3> QED
      BY <1>3, <1>4, <3>1, Zenon
  <2>2. Say(e) \o <<z.text>> = Append(Say(e), z.text)
    BY <1>4, AppendIsConcat
  <2> QED
    BY <1>4, <2>1, <2>2, Zenon
<1>6. ASSUME NEW i \in 1..(n + 1) PROVE Len(q[i].texts) > 1 => q[i].size <= MaxLength
  <2>1. CASE i \in 1..n
    BY <1>1, <1>3, <2>1 DEF Sized, n
  <2>2. CASE i = n + 1
    <3>1. Len(b.texts) = 1
      OBVIOUS
    <3>2. q[i] = b
      BY <1>1, <2>2
    <3>3. ~(1 > 1)
      OBVIOUS
    <3> QED
      BY <3>1, <3>2, <3>3, Zenon
  <2> QED
    BY <1>1, <2>1, <2>2
<1>7. ASSUME Climbs(v) PROVE Follow(q, v)
  <2>1. Climbs(e) /\ (m # 0 => e[m].at <= z.at)
    BY <1>7, ClimbsBefore DEF v, m
  <2>2. /\ \A i \in 1..n : p[i].from <= p[i].to
        /\ \A i \in 1..(n - 1) : p[i].to <= p[i + 1].from
        /\ n # 0 => p[n].to = e[m].at
    BY <1>3, <2>1 DEF Follow, n, m
  <2>3. z.at <= z.at
    BY DEF Word
  <2>4. ASSUME NEW i \in 1..(n + 1) PROVE q[i].from <= q[i].to
    <3>1. i \in 1..n \/ i = n + 1
      BY <1>1
    <3> QED
      BY <1>1, <2>2, <2>3, <3>1
  <2>5. ASSUME NEW i \in 1..n PROVE q[i].to <= q[i + 1].from
    <3>1. CASE i = n
      BY <1>1, <1>3, <2>1, <2>2, <3>1
    <3>2. CASE i # n
      <4>1. i \in 1..(n - 1) /\ i + 1 \in 1..n
        BY <1>1, <3>2
      <4> QED
        BY <1>1, <2>2, <4>1
    <3> QED
      BY <3>1, <3>2
  <2>6. q[n + 1].to = v[m + 1].at
    BY <1>1, <1>2
  <2>7. (n + 1) - 1 = n
    BY <1>1
  <2> QED
    BY <1>1, <1>2, <2>4, <2>5, <2>6, <2>7 DEF Follow
<1>8. Sized(q)
  BY <1>1, <1>6 DEF Sized
<1>9. Len(q) = 0 <=> Len(v) = 0
  BY <1>1, <1>2
<1> QED
  BY <1>5, <1>7, <1>8, <1>9 DEF Carries, q, v

\* The last piece takes one text more.
LEMMA Grows ==
    ASSUME NEW f \in Seq(Pieces), NEW l \in Pieces, NEW e \in Seq(Word), Carries(Append(f, l), e), NEW z \in Word,
           NEW b \in Pieces, b.texts = Append(l.texts, z.text), b.from = l.from, b.to = z.at, b.size <= MaxLength
    PROVE  Carries(Append(f, b), Append(e, z))
<1> DEFINE p == Append(f, l)
           q == Append(f, b)
           v == Append(e, z)
           n == Len(f)
           m == Len(e)
<1>1. /\ p \in Seq(Pieces) /\ n \in Nat /\ Len(p) = n + 1 /\ p[n + 1] = l
      /\ \A i \in 1..n : p[i] = f[i] /\ f[i] \in Pieces
  BY AppendProperties
<1>2. q \in Seq(Pieces) /\ Len(q) = n + 1 /\ q[n + 1] = b /\ \A i \in 1..n : q[i] = f[i]
  BY AppendProperties
<1>3. m \in Nat /\ Len(v) = m + 1 /\ v[m + 1] = z
  BY AppendProperties
<1>4. (Len(p) = 0 <=> m = 0) /\ Cut!FlattenSeq(TextsOf(p)) = Say(e) /\ Sized(p) /\ (Climbs(e) => Follow(p, e))
  BY DEF Carries
<1>5. /\ TextsOf(f) \in Seq(Seq(Texts)) /\ TextsOf(q) = Append(TextsOf(f), b.texts) /\ b.texts \in Seq(Texts)
      /\ TextsOf(p) = Append(TextsOf(f), l.texts) /\ l.texts \in Seq(Texts)
      /\ Say(v) = Append(Say(e), z.text) /\ z.text \in Texts
  BY TextsMore, SayMore
<1> HIDE DEF p, q, v, n, m
<1>6. Cut!FlattenSeq(TextsOf(q)) = Say(v)
  <2> DEFINE said == Cut!FlattenSeq(TextsOf(f))
  <2>1. Cut!FlattenSeq(Append(TextsOf(f), b.texts)) = said \o b.texts /\ said \in Seq(Texts)
    BY <1>5, FlattenMore
  <2>2. Cut!FlattenSeq(Append(TextsOf(f), l.texts)) = said \o l.texts
    BY <1>5, FlattenMore
  <2> HIDE DEF said
  <2>3. l.texts \in Seq(Texts) /\ said \in Seq(Texts) /\ z.text \in Texts
    BY <1>5, <2>1
  <2>4. said \o Append(l.texts, z.text) = Append(said \o l.texts, z.text)
    BY <2>3, Behind
  <2>5. said \o l.texts = Say(e)
    BY <1>4, <1>5, <2>2, Zenon
  <2> QED
    BY <1>5, <2>1, <2>4, <2>5, Zenon
<1>7. ASSUME NEW i \in 1..(n + 1) PROVE Len(q[i].texts) > 1 => q[i].size <= MaxLength
  <2>1. CASE i \in 1..n
    <3>1. i \in 1..Len(p) /\ q[i] = p[i]
      BY <1>1, <1>2, <2>1
    <3> QED
      BY <1>4, <3>1 DEF Sized
  <2>2. CASE i = n + 1
    BY <1>2, <2>2
  <2> QED
    BY <1>1, <2>1, <2>2
<1>8. ASSUME Climbs(v) PROVE Follow(q, v)
  <2>1. Climbs(e) /\ m # 0 /\ e[m].at <= z.at
    <3>1. Len(p) # 0
      BY <1>1
    <3> QED
      BY <1>4, <1>8, <3>1, ClimbsBefore DEF v, m
  <2>2. /\ \A i \in 1..(n + 1) : p[i].from <= p[i].to
        /\ \A i \in 1..n : p[i].to <= p[i + 1].from
        /\ p[n + 1].to = e[m].at
    <3>1. Follow(p, e) /\ Len(p) # 0 /\ Len(p) - 1 = n
      BY <1>1, <1>4, <2>1
    <3> QED
      BY <1>1, <3>1 DEF Follow, m
  <2>3. l.from <= l.to /\ l.to = e[m].at
    <3>1. n + 1 \in 1..(n + 1)
      BY <1>1
    <3> QED
      BY <1>1, <2>2, <3>1
  <2>4. l.from <= z.at
    <3>1. l.from \in Nat /\ l.to \in Nat /\ z.at \in Nat
      BY DEF Pieces, Word
    <3> QED
      BY <2>1, <2>3, <3>1
  <2>5. ASSUME NEW i \in 1..(n + 1) PROVE q[i].from <= q[i].to
    <3>1. CASE i \in 1..n
      BY <1>1, <1>2, <2>2, <3>1
    <3>2. CASE i = n + 1
      BY <1>2, <2>4, <3>2
    <3> QED
      BY <1>1, <3>1, <3>2
  <2>6. ASSUME NEW i \in 1..n PROVE q[i].to <= q[i + 1].from
    <3>1. p[i].to <= p[i + 1].from /\ q[i] = p[i]
      BY <1>1, <1>2, <2>2
    <3>2. CASE i = n
      BY <1>1, <1>2, <3>1, <3>2
    <3>3. CASE i # n
      <4>1. i + 1 \in 1..n
        BY <1>1, <3>3
      <4> QED
        BY <1>1, <1>2, <3>1, <4>1
    <3> QED
      BY <3>2, <3>3
  <2>7. q[n + 1].to = v[m + 1].at /\ (n + 1) - 1 = n
    BY <1>1, <1>2, <1>3
  <2> QED
    BY <1>2, <1>3, <2>5, <2>6, <2>7 DEF Follow
<1>9. Sized(q)
  BY <1>2, <1>7 DEF Sized
<1>10. Len(q) = 0 <=> Len(v) = 0
  BY <1>1, <1>2, <1>3
<1> QED
  BY <1>6, <1>8, <1>9, <1>10 DEF Carries, q, v

\* Whatever is cut next, the pieces say what was to be said.
LEMMA CutStep ==
    ASSUME NEW p \in Seq(Pieces), NEW e \in Seq(Word), Carries(p, e), NEW z \in Word, NEW slack \in Int
    PROVE  Carries(Cutting(p, z, slack), Append(e, z))
<1>1. z.at \in Nat /\ z.text \in Texts /\ Length[z.text] \in Nat /\ MaxLength \in Int
  BY CaptionAssumption DEF Word, Texts
<1>2. <<z.text>> \in Seq(Texts)
  BY <1>1
<1> DEFINE New(y) == [texts |-> <<z.text>>, from |-> z.at, to |-> z.at, size |-> y]
<1>3. ASSUME NEW y \in Int PROVE Carries(Append(p, New(y)), Append(e, z))
  <2>1. New(y) \in Pieces
    BY <1>1, <1>2, PieceIs
  <2>2. New(y).texts = <<z.text>> /\ New(y).from = z.at /\ New(y).to = z.at
    OBVIOUS
  <2> HIDE DEF New
  <2> QED
    BY <2>1, <2>2, Begins
<1>4. CASE p = <<>>
  <2>1. [Cut!Begun(z) EXCEPT !.size = @ + slack] = New(Length[z.text] + slack)
    BY DEF Cut!Begun
  <2>2. Length[z.text] + slack \in Int
    BY <1>1
  <2> HIDE DEF New
  <2>3. Cutting(p, z, slack) = <<New(Length[z.text] + slack)>>
    BY <1>4, <2>1 DEF Cutting
  <2>4. \A y : <<y>> = Append(<<>>, y)
    OBVIOUS
  <2> QED
    BY <1>3, <1>4, <2>2, <2>3, <2>4, Zenon
<1>5. CASE p # <<>> /\ Cut!Full(Cut!Last(p), z)
  <2>1. Cut!Begun(z) = New(Length[z.text])
    BY DEF Cut!Begun
  <2> HIDE DEF New
  <2>2. Cutting(p, z, slack) = Append(p, New(Length[z.text]))
    BY <1>5, <2>1 DEF Cutting
  <2>3. Length[z.text] \in Int
    BY <1>1
  <2> QED
    BY <1>3, <2>2, <2>3, Zenon
<1>6. CASE p # <<>> /\ ~Cut!Full(Cut!Last(p), z)
  <2> DEFINE f == Cut!Front(p)
             l == Cut!Last(p)
             b == Cut!Grown(l, z)
  <2>1. f \in Seq(Pieces) /\ l \in Pieces /\ p = Append(f, l)
    BY <1>6, FrontLast
  <2> HIDE DEF f, l
  <2>2. l.texts \in Seq(Texts) /\ l.from \in Nat /\ l.to \in Nat /\ l.size \in Int
    BY <2>1 DEF Pieces
  <2>3. b = [texts |-> Append(l.texts, z.text), from |-> l.from, to |-> z.at, size |-> l.size + Length[z.text] + 1]
    <3>1. l = [texts |-> l.texts, from |-> l.from, to |-> l.to, size |-> l.size]
      BY <2>1 DEF Pieces
    <3>2. b = [l EXCEPT !.texts = Append(l.texts, z.text), !.to = z.at, !.size = l.size + Length[z.text] + 1]
      BY DEF Cut!Grown
    <3> QED
      BY <3>1, <3>2, Zenon
  <2> HIDE DEF b
  <2>4. Append(l.texts, z.text) \in Seq(Texts) /\ l.size + Length[z.text] + 1 \in Int
    BY <1>1, <2>2, AppendProperties
  <2>5. b \in Pieces
    BY <1>1, <2>2, <2>3, <2>4, PieceIs
  <2>6. l.size + Length[z.text] + 1 <= MaxLength
    BY <1>1, <1>6, <2>2 DEF Cut!Full, l
  <2>7. b.texts = Append(l.texts, z.text) /\ b.from = l.from /\ b.to = z.at /\ b.size <= MaxLength
    BY <2>3, <2>6
  <2>8. Carries(Append(f, b), Append(e, z))
    BY <2>1, <2>5, <2>7, Grows
  <2>9. Cutting(p, z, slack) = Append(f, b)
    BY <1>6 DEF Cutting, f, l, b
  <2> QED
    BY <2>8, <2>9, Zenon
<1> QED
  BY <1>4, <1>5, <1>6

\* Nothing says nothing.
LEMMA CarriesNone == Carries(<<>>, <<>>)
<1>1. TextsOf(<<>>) = <<>> /\ Say(<<>>) = <<>> /\ Len(<<>>) = 0
  BY DEF TextsOf, Say
<1>2. Cut!FlattenSeq(<<>>) = <<>>
  BY DEF Cut!FlattenSeq
<1>3. Sized(<<>>) /\ Follow(<<>>, <<>>)
  BY DEF Sized, Follow
<1> QED
  BY <1>1, <1>2, <1>3 DEF Carries

\* What is cut from entries says what they say, in bounded pieces that follow each other.
LEMMA CutCarries ==
    ASSUME NEW e \in Seq(Word), NEW slack \in Int
    PROVE  Cut!Cut(e, slack) \in Seq(Pieces) /\ Carries(Cut!Cut(e, slack), e)
<1> DEFINE Good(w) == \A r : Result(r, w, Seq(Pieces), <<>>, Cuts(slack)) => r \in Seq(Pieces) /\ Carries(r, w)
           T == {w \in Seq(Word) : Good(w)}
<1>1. <<>> \in T
  <2>1. <<>> \in Seq(Word) /\ <<>> \in Seq(Pieces)
    OBVIOUS
  <2>2. ASSUME NEW r, Result(r, <<>>, Seq(Pieces), <<>>, Cuts(slack)) PROVE r \in Seq(Pieces) /\ Carries(r, <<>>)
    <3>1. r = <<>>
      BY <2>2, ResultOfNone
    <3> QED
      BY <2>1, <3>1, CarriesNone, Zenon
  <2> QED
    BY <2>1, <2>2
<1>2. ASSUME NEW w \in Seq(Word), NEW z \in Word, w \in T PROVE Append(w, z) \in T
  <2>1. Append(w, z) \in Seq(Word)
    BY AppendProperties
  <2>2. ASSUME NEW r, Result(r, Append(w, z), Seq(Pieces), <<>>, Cuts(slack))
        PROVE  r \in Seq(Pieces) /\ Carries(r, Append(w, z))
    <3>1. PICK q \in Seq(Pieces) : Result(q, w, Seq(Pieces), <<>>, Cuts(slack)) /\ r = Cuts(slack)[z][q]
      BY <2>2, ResultOfMore
    <3>2. Carries(q, w)
      BY <1>2, <3>1
    <3>3. r = Cutting(q, z, slack)
      BY <3>1, CutsTyped
    <3> QED
      BY <3>1, <3>2, <3>3, CutStep, CuttingTyped
  <2> QED
    BY <2>1, <2>2
<1> HIDE DEF T
<1>3. e \in T
  BY <1>1, <1>2, Sequentially
<1>4. PICK r : Result(r, e, Seq(Pieces), <<>>, Cuts(slack)) /\ Cut!Cut(e, slack) = r
  BY CutIs
<1> QED
  BY <1>3, <1>4 DEF T

\* How the transcript is cut when it is saved.
Saved(t) == IF Cut!HasStamps(t) THEN Cut!Cut(Cut!Entries(t), 1) ELSE Cut!Untimed(t)

\* The pieces g carry what the transcript has to say; without stamps all is at the beginning.
Segmented(g, t) ==
    \E e \in Seq(Word) :
        /\ Tells(e, Cut!Told(t)) /\ g \in Seq(Pieces) /\ Carries(g, e)
        /\ ~Cut!HasStamps(t) => \A i \in 1..Len(e) : e[i].at = 0

\* What the transcript has to say is cut.
LEMMA SavedSays == ASSUME NEW t \in Seq(Lines) PROVE Segmented(Saved(t), t)
<1>1. CASE Cut!HasStamps(t)
  <2>1. Cut!Entries(t) \in Seq(Word) /\ Tells(Cut!Entries(t), Voiced(t))
    BY EntriesTell
  <2>2. Cut!Cut(Cut!Entries(t), 1) \in Seq(Pieces) /\ Carries(Cut!Cut(Cut!Entries(t), 1), Cut!Entries(t))
    BY <2>1, CutCarries
  <2>3. Saved(t) = Cut!Cut(Cut!Entries(t), 1) /\ Cut!Told(t) = Voiced(t)
    BY <1>1 DEF Saved, Cut!Told, Voiced
  <2> QED
    BY <1>1, <2>1, <2>2, <2>3, Zenon DEF Segmented
<1>2. CASE ~Cut!HasStamps(t)
  <2> DEFINE e == Untold(t)
  <2>1. \A i \in 1..Len(t) : t[i].kind # "stamped"
    BY <1>2 DEF Cut!HasStamps
  <2>2. e \in Seq(Word) /\ Tells(e, t) /\ \A i \in 1..Len(e) : e[i].at = 0
    BY <2>1, UntimedTell
  <2>3. Saved(t) = Cut!Cut(e, 0) /\ Cut!Told(t) = t
    BY <1>2 DEF Saved, Cut!Untimed, Untold, Cut!Told
  <2> HIDE DEF e
  <2>4. Cut!Cut(e, 0) \in Seq(Pieces) /\ Carries(Cut!Cut(e, 0), e)
    BY <2>2, CutCarries
  <2> QED
    BY <2>2, <2>3, <2>4, Zenon DEF Segmented
<1> QED
  BY <1>1, <1>2

\* Segments that carry what tells t say it.
LEMMA SaidIs ==
    ASSUME NEW t \in Seq(Lines), NEW e \in Seq(Word), Tells(e, t), NEW g \in Seq(Pieces), Carries(g, e)
    PROVE  Cut!Said(g) = Cut!Words(t) /\ Sized(g)
<1>1. Cut!Said(g) = Say(e) /\ Sized(g)
  BY DEF Cut!Said, TextsOf, Carries
<1>2. Len(e) = Len(t) /\ Len(t) \in Nat /\ DOMAIN t = 1..Len(t) /\ \A i \in 1..Len(t) : e[i].text = t[i].text
  BY DEF Tells
<1>3. Say(e) = Cut!Words(t)
  BY <1>2 DEF Say, Cut!Words
<1> QED
  BY <1>1, <1>3

\* What is read of a file is each of its texts once.
LEMMA ReadOnce ==
    ASSUME NEW r \in Seq(Lines), NEW w \in Seq(Cues), Read(r, w)
    PROVE  /\ Cut!Range(Cut!Words(r)) = {w[i].text : i \in DOMAIN w} \ {Blank}
           /\ Cut!IsInjective(Cut!Words(r))
<1> DEFINE n == Len(r)
           y == Cut!Words(r)
<1>1. n \in Nat /\ DOMAIN r = 1..n /\ DOMAIN w = 1..Len(w)
  OBVIOUS
<1>2. y = [i \in 1..n |-> r[i].text]
  BY <1>1 DEF Cut!Words
<1> HIDE DEF y, n
<1>3. /\ \A i \in 1..n : r[i].text # Blank
      /\ \A i, k \in 1..n : r[i].text = r[k].text => i = k
      /\ \A i \in 1..n : \E k \in 1..Len(w) : w[k].text = r[i].text
      /\ \A k \in 1..Len(w) : w[k].text # Blank => \E i \in 1..n : r[i].text = w[k].text
  BY DEF Read, n
<1>4. Cut!Range(y) = {r[i].text : i \in 1..n}
  BY <1>2 DEF Cut!Range
<1>5. ASSUME NEW i \in 1..n PROVE r[i].text \in {w[k].text : k \in 1..Len(w)} \ {Blank}
  <2>1. PICK k \in 1..Len(w) : w[k].text = r[i].text
    BY <1>3
  <2>2. r[i].text # Blank
    BY <1>3
  <2> QED
    BY <2>1, <2>2
<1>6. ASSUME NEW k \in 1..Len(w), w[k].text # Blank PROVE w[k].text \in {r[i].text : i \in 1..n}
  BY <1>3, <1>6, Zenon
<1>7. {r[i].text : i \in 1..n} = {w[k].text : k \in 1..Len(w)} \ {Blank}
  BY <1>5, <1>6, Zenon
<1>8. Cut!Range(y) = {w[i].text : i \in DOMAIN w} \ {Blank}
  BY <1>1, <1>4, <1>7, Zenon
<1>9. Cut!IsInjective(y)
  BY <1>2, <1>3 DEF Cut!IsInjective
<1> QED
  BY <1>8, <1>9 DEF y

\* Of lines whose stamps rise, wherever headers stand, the segments follow each other.
LEMMA SavedInTime ==
    ASSUME NEW t \in Seq(Lines), Level(Rest(t)), NEW e \in Seq(Word), Tells(e, Cut!Told(t)),
           ~Cut!HasStamps(t) => \A i \in 1..Len(e) : e[i].at = 0,
           NEW g \in Seq(Pieces), Carries(g, e)
    PROVE  Follow(g, e)
<1>1. CASE Cut!HasStamps(t)
  <2> DEFINE r == Voiced(t)
  <2>1. Cut!Told(t) = r
    BY <1>1 DEF Cut!Told, Voiced
  <2>2. Level(r) /\ Len(e) = Len(r)
    BY <2>1, VoicedRest, VoicedLevel, SortedTyped DEF Tells
  <2>3. \A i \in 1..Len(r) : e[i].at = r[i].at
    BY <2>1, <2>2 DEF Tells, Level
  <2> HIDE DEF r
  <2>4. Climbs(e)
    BY <2>2, <2>3 DEF Climbs, Level
  <2> QED
    BY <2>4 DEF Carries
<1>2. CASE ~Cut!HasStamps(t)
  <2>1. Climbs(e)
    BY <1>2 DEF Climbs
  <2> QED
    BY <2>1 DEF Carries
<1> QED
  BY <1>1, <1>2

\* The headers in a transcript, if there are any, are those of the chapters, in their places.
Headed(t, c) == t \in Seq(Lines) /\ (Heads(t) = <<>> \/ (Heads(t) = Cut!Headers(c) /\ InPlace(t)))

\* What is read: of a file, of the snippets of the platform, of a spoken text.
ReadFrom(from) == CASE from.kind = "file"   -> Cut!Parse(from.of)
                 [] from.kind = "native" -> [i \in DOMAIN from.of |-> Cut!Stamped(from.of[i].at, from.of[i].text)]
                 [] OTHER                -> [i \in DOMAIN from.of |-> Cut!Plain(from.of[i])]

Inputs == {[kind |-> "file", of |-> f] : f \in Files}
          \cup {[kind |-> "native", of |-> f] : f \in {q \in Files : Cut!Snippets(q)}}
          \cup {[kind |-> "spoken", of |-> x] : x \in Spoken}

\* The inductive invariant: what is read stays, between the headers that are put in, and is
\* carried by the segments.
CutInv ==
    /\ input \in Inputs /\ chapters \in ChapterSets
    /\ done \in {"read", "chapters", "save", "done"}
    /\ done = "read" => segments = <<>>
    /\ done # "read" => Headed(transcript, chapters) /\ Rest(transcript) = ReadFrom(input)
    /\ done = "chapters" => Headless(transcript)
    /\ done \in {"chapters", "save"} => segments = <<>>
    /\ done = "done" => Segmented(segments, transcript)

\* Snippets are cues with stamps.
Snips == [at : Nat, text : Texts]

\* A file is cues, snippets have stamps, a spoken text is texts.
LEMMA InputIs ==
    ASSUME NEW f \in Inputs
    PROVE  /\ f.kind \in {"file", "native", "spoken"}
           /\ f.kind = "file" => f.of \in Seq(Cues)
           /\ f.kind = "native" => f.of \in Seq(Snips)
           /\ f.kind = "spoken" => f.of \in Seq(DOMAIN Length)
<1>1. /\ f.kind \in {"file", "native", "spoken"} /\ (f.kind = "file" => f.of \in Files)
      /\ (f.kind = "native" => f.of \in Files /\ Cut!Snippets(f.of)) /\ (f.kind = "spoken" => f.of \in Spoken)
  BY DEF Inputs
<1>2. Files \subseteq Seq(Cues) /\ Spoken \subseteq Seq(DOMAIN Length)
  BY CaptionAssumption DEF Cues, Texts
<1>3. ASSUME NEW q \in Seq(Cues), Cut!Snippets(q) PROVE q \in Seq(Snips)
  <2>1. DOMAIN q = 1..Len(q) /\ Len(q) \in Nat /\ \A i \in 1..Len(q) : q[i] \in Cues /\ q[i].at # None
    BY <1>3 DEF Cut!Snippets
  <2>2. \A i \in 1..Len(q) : q[i] \in Snips
    BY <2>1 DEF Cues, Snips
  <2>3. q = [i \in 1..Len(q) |-> q[i]]
    BY <2>1
  <2> QED
    BY <2>1, <2>2, <2>3
<1> QED
  BY <1>1, <1>2, <1>3

\* Chapters rise.
LEMMA ChaptersRise == ASSUME NEW c \in ChapterSets PROVE c \in Seq(Nat) /\ Rising(c)
<1>1. c \in Seq(Nat) /\ \A i, k \in DOMAIN c : i <= k => c[i] <= c[k]
  BY CaptionAssumption
<1>2. DOMAIN c = 1..Len(c)
  BY <1>1
<1> QED
  BY <1>1, <1>2 DEF Rising

\* Lines without headers are the rest of themselves.
LEMMA NoHeads == ASSUME NEW t \in Seq(Lines), Headless(t), NEW c PROVE Headed(t, c) /\ Rest(t) = t
  BY AllRest DEF Headless, Headed

\* Nothing is said of an empty transcript.
LEMMA NothingSaid == Segmented(<<>>, <<>>)
<1>1. <<>> \in Seq(Word) /\ <<>> \in Seq(Pieces) /\ <<>> \in Seq(Lines) /\ Len(<<>>) = 0
  OBVIOUS
<1>2. Cut!Told(<<>>) = <<>>
  BY DEF Cut!Told, Cut!HasStamps
<1>3. Tells(<<>>, <<>>)
  BY <1>1 DEF Tells
<1>4. \A i \in 1..Len(<<>>) : <<>>[i].at = 0
  BY <1>1
<1>5. Tells(<<>>, Cut!Told(<<>>)) /\ Carries(<<>>, <<>>)
  BY <1>2, <1>3, CarriesNone
<1> QED
  BY <1>1, <1>4, <1>5, Zenon DEF Segmented

\* What is read of snippets: each a line with its stamp.
LEMMA NativeLines ==
    ASSUME NEW q \in Seq(Snips)
    PROVE  LET w == [i \in DOMAIN q |-> Cut!Stamped(q[i].at, q[i].text)]
           IN  /\ w \in Seq(Lines) /\ Len(w) = Len(q)
               /\ \A i \in 1..Len(w) : w[i].kind = "stamped" /\ w[i].at = q[i].at
<1> DEFINE n == Len(q)
           u == [i \in 1..n |-> Cut!Stamped(q[i].at, q[i].text)]
<1>1. n \in Nat /\ DOMAIN q = 1..n /\ \A i \in 1..n : q[i] \in Snips
  OBVIOUS
<1>2. \A i \in 1..n : Cut!Stamped(q[i].at, q[i].text) \in Lines
  BY <1>1 DEF Cut!Stamped, Lines, Snips
<1>3. \A i \in 1..n : Cut!Stamped(q[i].at, q[i].text).kind = "stamped" /\ Cut!Stamped(q[i].at, q[i].text).at = q[i].at
  BY DEF Cut!Stamped
<1>4. u \in Seq(Lines) /\ Len(u) = n /\ \A i \in 1..n : u[i].kind = "stamped" /\ u[i].at = q[i].at
  BY <1>1, <1>2, <1>3
<1>5. [i \in DOMAIN q |-> Cut!Stamped(q[i].at, q[i].text)] = u
  BY <1>1
<1> QED
  BY <1>4, <1>5

\* What is read of a spoken text: each a line without a stamp.
LEMMA SpokenLines ==
    ASSUME NEW q \in Seq(DOMAIN Length)
    PROVE  LET w == [i \in DOMAIN q |-> Cut!Plain(q[i])]
           IN  w \in Seq(Lines) /\ \A i \in 1..Len(w) : w[i].kind = "plain"
<1> DEFINE n == Len(q)
           u == [i \in 1..n |-> Cut!Plain(q[i])]
<1>1. n \in Nat /\ DOMAIN q = 1..n /\ \A i \in 1..n : q[i] \in DOMAIN Length
  OBVIOUS
<1>2. \A i \in 1..n : Cut!Plain(q[i]) \in Lines
  BY <1>1 DEF Cut!Plain, Lines, Texts
<1>3. \A i \in 1..n : Cut!Plain(q[i]).kind = "plain"
  BY DEF Cut!Plain
<1>4. u \in Seq(Lines) /\ \A i \in 1..Len(u) : u[i].kind = "plain"
  BY <1>1, <1>2, <1>3
<1>5. [i \in DOMAIN q |-> Cut!Plain(q[i])] = u
  BY <1>1
<1> QED
  BY <1>4, <1>5

\* What is read are lines without headers.
LEMMA ReadLines == ASSUME NEW f \in Inputs PROVE ReadFrom(f) \in Seq(Lines) /\ Headless(ReadFrom(f))
<1>1. CASE f.kind = "file"
  <2>1. Cut!Parse(f.of) \in Seq(Lines) /\ Read(Cut!Parse(f.of), f.of)
    BY <1>1, InputIs, ReadIs
  <2> QED
    BY <1>1, <2>1 DEF ReadFrom, Headless, Read
<1>2. CASE f.kind = "native"
  <2> DEFINE w == [i \in DOMAIN f.of |-> Cut!Stamped(f.of[i].at, f.of[i].text)]
  <2>0. f.of \in Seq(Snips)
    BY <1>2, InputIs
  <2>1. w \in Seq(Lines) /\ \A i \in 1..Len(w) : w[i].kind = "stamped"
    BY <2>0, NativeLines
  <2>2. ReadFrom(f) = w
    BY <1>2 DEF ReadFrom
  <2> HIDE DEF w
  <2> QED
    BY <2>1, <2>2 DEF Headless
<1>3. CASE f.kind = "spoken"
  <2> DEFINE w == [i \in DOMAIN f.of |-> Cut!Plain(f.of[i])]
  <2>1. w \in Seq(Lines) /\ \A i \in 1..Len(w) : w[i].kind = "plain"
    BY <1>3, InputIs, SpokenLines
  <2>2. ReadFrom(f) = w
    BY <1>3 DEF ReadFrom
  <2> HIDE DEF w
  <2> QED
    BY <2>1, <2>2 DEF Headless
<1> QED
  BY <1>1, <1>2, <1>3, InputIs

\* Read keeps it.
LEMMA CutInvRead == ASSUME CutInv, Cut!Read PROVE CutInv'
<1>1. /\ done = "read" /\ done' = IF transcript' = <<>> THEN "done" ELSE "chapters"
      /\ input' = input /\ chapters' = chapters /\ segments' = segments /\ transcript' = ReadFrom(input)
  BY DEF Cut!Read, ReadFrom
<1>2. input \in Inputs /\ chapters \in ChapterSets /\ segments = <<>>
  BY <1>1 DEF CutInv
<1>3. transcript' \in Seq(Lines) /\ Headless(transcript')
  BY <1>1, <1>2, ReadLines
<1>4. Headed(transcript', chapters) /\ Rest(transcript') = transcript'
  BY <1>3, NoHeads
<1>5. transcript' = <<>> => Segmented(segments', transcript')
  BY <1>1, <1>2, NothingSaid
<1> QED
  BY <1>1, <1>2, <1>3, <1>4, <1>5 DEF CutInv

\* PutChapters keeps it.
LEMMA CutInvPut == ASSUME CutInv, Cut!PutChapters PROVE CutInv'
<1>1. /\ done = "chapters" /\ done' = "save"
      /\ transcript' = Cut!Embed(transcript, chapters) \/ transcript' = transcript
      /\ input' = input /\ chapters' = chapters /\ segments' = segments
  BY DEF Cut!PutChapters
<1>2. /\ input \in Inputs /\ chapters \in ChapterSets /\ segments = <<>>
      /\ transcript \in Seq(Lines) /\ Headless(transcript) /\ Headed(transcript, chapters)
      /\ Rest(transcript) = ReadFrom(input)
  BY <1>1 DEF CutInv, Headed
<1>3. Rest(transcript) = transcript
  BY <1>2, NoHeads
<1>4. Headed(transcript', chapters) /\ Rest(transcript') = transcript
  <2>1. CASE transcript' = Cut!Embed(transcript, chapters)
    <3>1. chapters \in Seq(Nat) /\ Rising(chapters)
      BY <1>2, ChaptersRise
    <3>2. /\ Cut!Embed(transcript, chapters) \in Seq(Lines)
          /\ Heads(Cut!Embed(transcript, chapters)) = Cut!Headers(chapters)
          /\ Rest(Cut!Embed(transcript, chapters)) = transcript /\ InPlace(Cut!Embed(transcript, chapters))
      BY <1>2, <3>1, EmbedPlaces
    <3> QED
      BY <2>1, <3>2 DEF Headed
  <2>2. CASE transcript' = transcript
    BY <1>2, <1>3, <2>2
  <2> QED
    BY <1>1, <2>1, <2>2
<1>5. Rest(transcript') = ReadFrom(input)
  BY <1>2, <1>3, <1>4
<1> QED
  BY <1>1, <1>2, <1>4, <1>5 DEF CutInv

\* Save keeps it.
LEMMA CutInvSave == ASSUME CutInv, Cut!Save PROVE CutInv'
<1>1. /\ done = "save" /\ done' = "done" /\ segments' = Saved(transcript)
      /\ input' = input /\ chapters' = chapters /\ transcript' = transcript
  BY DEF Cut!Save, Saved
<1>2. /\ input \in Inputs /\ chapters \in ChapterSets /\ transcript \in Seq(Lines)
      /\ Headed(transcript, chapters) /\ Rest(transcript) = ReadFrom(input)
  BY <1>1 DEF CutInv, Headed
<1>3. Segmented(Saved(transcript), transcript)
  BY <1>2, SavedSays
<1> QED
  BY <1>1, <1>2, <1>3 DEF CutInv

\* Every step of the component keeps it.
LEMMA CutInvKept == CutInv /\ [Cut!Next]_(Cut!vars) => CutInv'
<1> SUFFICES ASSUME CutInv, [Cut!Next]_(Cut!vars) PROVE CutInv'
  OBVIOUS
<1>1. CASE UNCHANGED Cut!vars
  BY <1>1 DEF Cut!vars, CutInv
<1> QED
  BY <1>1, CutInvRead, CutInvPut, CutInvSave DEF Cut!Next

\* It holds at first.
LEMMA CutInvInit == Init /\ part = "cut" => CutInv
  BY DEF Init, Cut!Init, CutInv, Inputs

\* Only the component of the transcripts moves in its part.
LEMMA CutApart ==
    /\ part = "cut" /\ [Next]_vars => (part = "cut")' /\ [Cut!Next]_(Cut!vars)
    /\ ~(part = "cut") /\ [Next]_vars => ~(part = "cut")'
<1>1. part = "cut" /\ [Next]_vars => (part = "cut")' /\ [Cut!Next]_(Cut!vars)
  BY DEF Next, vars, cutVars, Cut!vars
<1>2. ~(part = "cut") /\ [Next]_vars => ~(part = "cut")'
  BY DEF Next, vars
<1> QED
  BY <1>1, <1>2

\* What a transcript has to say are lines of it.
LEMMA ToldTyped == ASSUME NEW t \in Seq(Lines) PROVE Cut!Told(t) \in Seq(Lines)
<1>1. Voiced(t) \in Seq(Lines)
  BY VoicedRest
<1>2. Cut!Told(t) = IF Cut!HasStamps(t) THEN Voiced(t) ELSE t
  BY DEF Cut!Told, Voiced
<1> QED
  BY <1>1, <1>2

\* The segments say what the transcript has to say, in its order and within the limit, and
\* the transcript of a file has each of its texts once.
THEOREM SegmentsFaithful == Spec => []SegmentsSayAll
<1>1. CutInv => Cut!SegmentsSayAll
  <2> SUFFICES ASSUME CutInv, done = "done" PROVE Cut!SegmentsSayAll
    BY DEF Cut!SegmentsSayAll
  <2>1. /\ input \in Inputs /\ transcript \in Seq(Lines) /\ Segmented(segments, transcript)
        /\ Rest(transcript) = ReadFrom(input)
    BY DEF CutInv, Headed
  <2>2. PICK e \in Seq(Word) : Tells(e, Cut!Told(transcript)) /\ segments \in Seq(Pieces) /\ Carries(segments, e)
    BY <2>1 DEF Segmented
  <2>3. Cut!Told(transcript) \in Seq(Lines)
    BY <2>1, ToldTyped
  <2>4. Cut!Said(segments) = Cut!Words(Cut!Told(transcript)) /\ Sized(segments)
    BY <2>2, <2>3, SaidIs
  <2>5. DOMAIN segments = 1..Len(segments)
    BY <2>2
  <2>6. ASSUME input.kind = "file"
        PROVE  /\ Cut!IsInjective(Cut!Words(Rest(transcript)))
               /\ Cut!Range(Cut!Words(Rest(transcript))) = {input.of[i].text : i \in DOMAIN input.of} \ {Blank}
    <3>1. input.of \in Seq(Cues) /\ Rest(transcript) = Cut!Parse(input.of)
      BY <2>1, <2>6, InputIs DEF ReadFrom
    <3>2. Rest(transcript) \in Seq(Lines) /\ Read(Rest(transcript), input.of)
      BY <3>1, ReadIs
    <3> QED
      BY <3>1, <3>2, ReadOnce
  <2>7. \A i \in DOMAIN segments : Len(segments[i].texts) > 1 => segments[i].size <= MaxLength
    BY <2>4, <2>5 DEF Sized
  <2> QED
    BY <2>4, <2>6, <2>7 DEF Cut!SegmentsSayAll, Rest
<1> QED
  BY <1>1, CutInvInit, CutApart, CutInvKept, PTL DEF Spec, SegmentsSayAll

\* What is read of cues or snippets in order of time is level.
LEMMA ReadLevel ==
    ASSUME NEW f \in Inputs, f.kind # "spoken", Cut!Snippets(f.of),
           \A i, k \in DOMAIN f.of : i <= k => f.of[i].at <= f.of[k].at
    PROVE  Level(ReadFrom(f))
<1>1. CASE f.kind = "file"
  <2>1. f.of \in Seq(Cues)
    BY <1>1, InputIs
  <2>2. DOMAIN f.of = 1..Len(f.of)
    BY <2>1
  <2>3. InTime(f.of)
    BY <2>2 DEF InTime, Cut!Snippets
  <2>4. StampsRise(Cut!Parse(f.of), f.of)
    BY <2>1, <2>3, ReadIs DEF Read
  <2> QED
    BY <1>1, <2>4 DEF StampsRise, Level, ReadFrom
<1>2. CASE f.kind = "native"
  <2> DEFINE w == [i \in DOMAIN f.of |-> Cut!Stamped(f.of[i].at, f.of[i].text)]
  <2>1. f.of \in Seq(Snips)
    BY <1>2, InputIs
  <2>2. Len(w) = Len(f.of) /\ \A i \in 1..Len(w) : w[i].kind = "stamped" /\ w[i].at = f.of[i].at
    BY <2>1, NativeLines
  <2>3. ReadFrom(f) = w /\ DOMAIN f.of = 1..Len(f.of)
    BY <1>2, <2>1 DEF ReadFrom
  <2> HIDE DEF w
  <2> QED
    BY <2>2, <2>3 DEF Level
<1> QED
  BY <1>1, <1>2, InputIs

\* From captions in order of time, segments follow one another in time.
THEOREM SegmentsFollow == Spec => []SegmentsInTime
<1>1. CutInv => Cut!SegmentsInTime
  <2> SUFFICES ASSUME CutInv, done = "done", input.kind # "spoken", Cut!Snippets(input.of),
                      \A i, k \in DOMAIN input.of : i <= k => input.of[i].at <= input.of[k].at
               PROVE  /\ \A i \in DOMAIN segments : segments[i].from <= segments[i].to
                      /\ \A i \in 1..(Len(segments) - 1) : segments[i].to <= segments[i + 1].from
    BY DEF Cut!SegmentsInTime
  <2>1. /\ input \in Inputs /\ transcript \in Seq(Lines) /\ Segmented(segments, transcript)
        /\ Rest(transcript) = ReadFrom(input)
    BY DEF CutInv, Headed
  <2>2. Level(Rest(transcript))
    BY <2>1, ReadLevel
  <2>3. PICK e \in Seq(Word) : /\ Tells(e, Cut!Told(transcript)) /\ segments \in Seq(Pieces) /\ Carries(segments, e)
                               /\ ~Cut!HasStamps(transcript) => \A i \in 1..Len(e) : e[i].at = 0
    BY <2>1 DEF Segmented
  <2>4. Follow(segments, e)
    BY <2>1, <2>2, <2>3, SavedInTime
  <2>5. DOMAIN segments = 1..Len(segments)
    BY <2>3
  <2> QED
    BY <2>4, <2>5 DEF Follow
<1> QED
  BY <1>1, CutInvInit, CutApart, CutInvKept, PTL DEF Spec, SegmentsInTime

\* Every chapter stands in the transcript once, in order and where it begins.
THEOREM ChaptersStand == Spec => []ChaptersInPlace
<1>1. CutInv => Cut!ChaptersInPlace
  <2> SUFFICES ASSUME CutInv, done = "save", Heads(transcript) # <<>> PROVE Cut!ChaptersInPlace
    BY DEF Cut!ChaptersInPlace, Heads
  <2>1. transcript \in Seq(Lines) /\ Heads(transcript) = Cut!Headers(chapters) /\ InPlace(transcript)
    BY DEF CutInv, Headed
  <2>2. DOMAIN transcript = 1..Len(transcript)
    BY <2>1
  <2> QED
    BY <2>1, <2>2 DEF Cut!ChaptersInPlace, Heads, InPlace
<1> QED
  BY <1>1, CutInvInit, CutApart, CutInvKept, PTL DEF Spec, ChaptersInPlace
=================================================================================
