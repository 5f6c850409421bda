------------------------------ MODULE Induction ------------------------------
(***************************************************************************)
(* Induction, and what needs it: facts on numbers and on sorted sets which *)
(* the proofs about recursive functions share.  The induction theorems of  *)
(* the library have a predicate for a parameter; here it is a set, and the *)
(* ground is that every set of naturals has a least element (WFMin).       *)
(***************************************************************************)
EXTENDS Integers, SequencesExt, FiniteSetTheorems, SequenceTheorems, TLAPS

(* A set of naturals has a least element.                                  *)
LEMMA LeastElement ==
  ASSUME NEW T \in SUBSET Nat, T # {}
  PROVE  \E x \in T : \A y \in T : x <= y
<1> DEFINE R == OpToRel(<, Nat)
<1>1. IsWellFoundedOn(R, Nat)
  BY NatLessThanWellFounded
<1>2. \A x, y \in Nat : x < y <=> <<x, y>> \in R
  BY DEF OpToRel
<1> HIDE DEF R
<1>3. PICK x \in T : \A y \in T : ~ (<<y, x>> \in R)
  BY <1>1, WFMin
<1>4. ASSUME NEW y \in T PROVE x <= y
  <2>1. x \in Nat /\ y \in Nat
    OBVIOUS
  <2>2. ~ (y < x)
    BY <1>2, <1>3, <2>1
  <2>3. QED
    BY <2>1, <2>2
<1>5. QED
  BY <1>4

(* What holds at the first of some numbers, and at the next when it holds  *)
(* at one, holds at all.                                                   *)
LEMMA Upwards ==
  ASSUME NEW n \in Int, NEW S, 0 \in S, \A i \in 0 .. n - 1 : i \in S => i + 1 \in S
  PROVE  \A i \in 0 .. n : i \in S
<1> SUFFICES ASSUME NEW k \in 0 .. n, k \notin S PROVE FALSE
  OBVIOUS
<1> DEFINE T == {i \in 0 .. n : i \notin S}
<1>1. T \in SUBSET Nat /\ T # {}
  OBVIOUS
<1>2. PICK x \in T : \A y \in T : x <= y
  BY <1>1, LeastElement
<1>3. x \in 0 .. n /\ x \notin S /\ x # 0
  OBVIOUS
<1>4. x - 1 \in 0 .. n - 1 /\ x - 1 \in 0 .. n /\ ~(x <= x - 1)
  BY <1>3
<1>5. x - 1 \in S
  BY <1>2, <1>4
<1>6. (x - 1) + 1 = x
  BY <1>3
<1>7. QED
  BY <1>3, <1>4, <1>5, <1>6

(* What holds at a number when it holds at all that are less, holds.       *)
LEMMA Strongly ==
  ASSUME NEW S, \A n \in Nat : (\A m \in 0 .. n - 1 : m \in S) => n \in S
  PROVE  \A n \in Nat : n \in S
<1> SUFFICES ASSUME NEW k \in Nat, k \notin S PROVE FALSE
  OBVIOUS
<1> DEFINE T == {i \in Nat : i \notin S}
<1>1. T \in SUBSET Nat /\ T # {}
  OBVIOUS
<1>2. PICK x \in T : \A y \in T : x <= y
  BY <1>1, LeastElement
<1>3. x \in Nat /\ x \notin S
  OBVIOUS
<1>4. \A m \in 0 .. x - 1 : m \in S
  <2> SUFFICES ASSUME NEW m \in 0 .. x - 1, m \notin S PROVE FALSE
    OBVIOUS
  <2>1. m \in Nat /\ ~(x <= m)
    BY <1>3
  <2>2. QED
    BY <1>2, <2>1
<1>5. QED
  BY <1>3, <1>4

(* The least and the greatest of some numbers are among them.             *)
LEMMA MinIsLeast ==
  ASSUME NEW T \in SUBSET Nat, T # {}
  PROVE  Min(T) \in T /\ \A y \in T : Min(T) <= y
BY LeastElement DEF Min

LEMMA MaxIsGreatest ==
  ASSUME NEW n \in Nat, NEW T \in SUBSET (0 .. n), T # {}
  PROVE  Max(T) \in T /\ \A y \in T : y <= Max(T)
<1> DEFINE U == {n - x : x \in T}
<1>1. U \in SUBSET Nat /\ U # {}
  OBVIOUS
<1>2. PICK z \in U : \A y \in U : z <= y
  BY <1>1, LeastElement
<1>3. PICK x \in T : z = n - x
  BY <1>2
<1>4. ASSUME NEW y \in T PROVE x >= y
  <2>1. n - y \in U /\ x \in Int /\ y \in Int
    OBVIOUS
  <2>2. n - x <= n - y
    BY <1>2, <1>3, <2>1
  <2>3. QED
    BY <2>1, <2>2
<1> HIDE DEF U
<1>5. \E w \in T : \A y \in T : w >= y
  BY <1>4
<1>6. Max(T) \in T /\ \A y \in T : Max(T) >= y
  BY <1>5 DEF Max
<1>7. QED
  BY <1>6

(* A function on the numbers from 1 is a sequence.                         *)
LEMMA FunctionIsSeq ==
  ASSUME NEW S, NEW n \in Nat, NEW f \in [1 .. n -> S]
  PROVE  f \in Seq(S) /\ Len(f) = n
<1>1. f \in Seq(S)
  BY SeqDef
<1>2. Len(f) \in Nat /\ 1 .. Len(f) = 1 .. n
  BY <1>1, LenProperties
<1>3. \A i, j \in Nat : 1 .. i = 1 .. j => i = j
  <2> SUFFICES ASSUME NEW i \in Nat, NEW j \in Nat, 1 .. i = 1 .. j PROVE i = j
    OBVIOUS
  <2>1. i >= 1 => i \in 1 .. j
    OBVIOUS
  <2>2. j >= 1 => j \in 1 .. i
    OBVIOUS
  <2>3. QED
    BY <2>1, <2>2
<1>4. QED
  BY <1>1, <1>2, <1>3

(* Nothing changes where a function has no value.                          *)
LEMMA ExceptOutside ==
  ASSUME NEW D, NEW S, NEW f \in [D -> S], NEW k, k \notin D, NEW v
  PROVE  [f EXCEPT ![k] = v] = f
OBVIOUS

(* f begins with q and goes on by steps.                                   *)
Follows(f, q, step) == f[0] = q /\ \A n \in Nat : f[n + 1] = step[<<f[n], n>>]

(* A function may be defined by recursion.                                 *)
LEMMA Recursion ==
  ASSUME NEW S, NEW q \in S, NEW step \in [S \X Nat -> S]
  PROVE  \E f \in [Nat -> S] : Follows(f, q, step)
<1> DEFINE Run(g, n) ==
             /\ g \in [0 .. n -> S] /\ g[0] = q
             /\ \A i \in 0 .. n - 1 : g[i + 1] = step[<<g[i], i>>]
<1>1. ASSUME NEW n \in Nat, NEW g, NEW m \in Nat, NEW h, Run(g, n), Run(h, m), n <= m
      PROVE  \A i \in 0 .. n : g[i] = h[i]
  <2> DEFINE T == {i \in 0 .. n : g[i] = h[i]}
  <2>1. 0 \in T
    BY <1>1
  <2>2. ASSUME NEW i \in 0 .. n - 1, i \in T PROVE i + 1 \in T
    <3>1. i \in 0 .. m - 1 /\ i + 1 \in 0 .. n /\ g[i] = h[i]
      BY <1>1, <2>2
    <3>2. g[i + 1] = step[<<g[i], i>>] /\ h[i + 1] = step[<<h[i], i>>]
      BY <1>1, <3>1
    <3>3. QED
      BY <3>1, <3>2
  <2> HIDE DEF T
  <2>3. \A i \in 0 .. n : i \in T
    BY <2>1, <2>2, Upwards
  <2>4. QED
    BY <2>3 DEF T
<1>2. \A n \in Nat : \E g : Run(g, n)
  <2> SUFFICES ASSUME NEW n \in Nat PROVE \E g : Run(g, n)
    OBVIOUS
  <2> DEFINE T == {i \in 0 .. n : \E g : Run(g, i)}
  <2>1. 0 \in T
    <3> DEFINE g == [i \in 0 .. 0 |-> q]
    <3>1. g \in [0 .. 0 -> S] /\ g[0] = q /\ 0 .. 0 - 1 = {}
      OBVIOUS
    <3> HIDE DEF g
    <3>2. Run(g, 0)
      BY <3>1
    <3> HIDE DEF Run
    <3>3. QED
      BY <3>2
  <2>2. ASSUME NEW i \in 0 .. n - 1, i \in T PROVE i + 1 \in T
    <3>1. PICK g : Run(g, i)
      BY <2>2
    <3> DEFINE h == [k \in 0 .. i + 1 |-> IF k <= i THEN g[k] ELSE step[<<g[i], i>>]]
    <3>2. g[i] \in S /\ step[<<g[i], i>>] \in S
      BY <3>1
    <3>3. h \in [0 .. i + 1 -> S] /\ h[0] = q
      BY <3>1, <3>2
    <3>4. ASSUME NEW k \in 0 .. i PROVE h[k + 1] = step[<<h[k], k>>]
      <4>1. k + 1 \in 0 .. i + 1 /\ k \in 0 .. i + 1 /\ h[k] = g[k]
        OBVIOUS
      <4>2. CASE k = i
        BY <4>1, <4>2
      <4>3. CASE k # i
        <5>1. k \in 0 .. i - 1 /\ h[k + 1] = g[k + 1]
          BY <4>1, <4>3
        <5>2. QED
          BY <3>1, <4>1, <5>1
      <4>4. QED
        BY <4>2, <4>3
    <3> HIDE DEF h
    <3>5. (i + 1) - 1 = i
      OBVIOUS
    <3>6. Run(h, i + 1)
      BY <3>3, <3>4, <3>5
    <3> HIDE DEF Run
    <3>7. i + 1 \in 0 .. n
      OBVIOUS
    <3>8. QED
      BY <3>6, <3>7
  <2> HIDE DEF T
  <2>3. \A i \in 0 .. n : i \in T
    BY <2>1, <2>2, Upwards
  <2>4. QED
    BY <2>3 DEF T
<1> DEFINE run(n) == CHOOSE g : Run(g, n)
           f == [n \in Nat |-> run(n)[n]]
<1>3. \A n \in Nat : Run(run(n), n)
  BY <1>2
<1> HIDE DEF run
<1>4. f \in [Nat -> S] /\ f[0] = q
  BY <1>3
<1>5. ASSUME NEW n \in Nat PROVE f[n + 1] = step[<<f[n], n>>]
  <2>1. Run(run(n), n) /\ Run(run(n + 1), n + 1)
    BY <1>3
  <2> HIDE DEF Run
  <2>2. \A i \in 0 .. n : run(n)[i] = run(n + 1)[i]
    BY <1>1, <2>1
  <2>3. run(n)[n] = run(n + 1)[n]
    BY <2>2
  <2>4. run(n + 1)[n + 1] = step[<<run(n + 1)[n], n>>]
    BY <2>1 DEF Run
  <2>5. QED
    BY <2>3, <2>4
<1>6. QED
  BY <1>4, <1>5 DEF Follows

(* Multiplying c by b, again and again.                                    *)
Multiplies(f, b, c) == f = [n \in Nat |-> IF n = 0 THEN c ELSE b * f[n - 1]]

LEMMA Multiplied ==
  ASSUME NEW b \in Nat, NEW c \in Nat
  PROVE  \E f : Multiplies(f, b, c)
<1> DEFINE times == [x \in Nat \X Nat |-> b * x[1]]
<1>1. times \in [Nat \X Nat -> Nat]
  OBVIOUS
<1>2. \A x, y \in Nat : times[<<x, y>>] = b * x
  OBVIOUS
<1> HIDE DEF times
<1>3. PICK g \in [Nat -> Nat] : Follows(g, c, times)
  BY <1>1, Recursion
<1>4. g[0] = c /\ \A n \in Nat : g[n + 1] = b * g[n]
  BY <1>2, <1>3 DEF Follows
<1>5. \A n \in Nat : g[n] = IF n = 0 THEN c ELSE b * g[n - 1]
  <2> SUFFICES ASSUME NEW n \in Nat, n # 0 PROVE g[n] = b * g[n - 1]
    BY <1>4
  <2>1. n - 1 \in Nat /\ (n - 1) + 1 = n
    OBVIOUS
  <2>2. QED
    BY <1>4, <2>1
<1>6. g = [n \in Nat |-> g[n]]
  BY <1>3
<1>7. QED
  BY <1>5, <1>6 DEF Multiplies

LEMMA MultipliedProperties ==
  ASSUME NEW b \in Nat, NEW c \in Nat, NEW f, Multiplies(f, b, c)
  PROVE  /\ f \in [Nat -> Nat] /\ f[0] = c
         /\ \A n \in Nat : f[n + 1] = b * f[n]
<1>1. f[0] = c /\ \A n \in Nat : f[n + 1] = b * f[n]
  <2>1. f[0] = c
    BY DEF Multiplies
  <2>2. ASSUME NEW n \in Nat PROVE f[n + 1] = b * f[n]
    <3>1. n + 1 \in Nat /\ n + 1 # 0 /\ (n + 1) - 1 = n
      OBVIOUS
    <3>2. f[n + 1] = b * f[(n + 1) - 1]
      BY <3>1 DEF Multiplies
    <3>3. QED
      BY <3>1, <3>2
  <2>3. QED
    BY <2>1, <2>2
<1> DEFINE T == {n \in Nat : f[n] \in Nat}
<1>2. ASSUME NEW n \in Nat, \A m \in 0 .. n - 1 : m \in T PROVE n \in T
  <2>1. CASE n = 0
    BY <1>1, <2>1
  <2>2. CASE n # 0
    <3>1. n - 1 \in T /\ n - 1 \in Nat /\ (n - 1) + 1 = n
      BY <1>2, <2>2
    <3>2. f[n] = b * f[n - 1]
      BY <1>1, <3>1
    <3>3. b * f[n - 1] \in Nat
      BY <3>1
    <3>4. QED
      BY <3>2, <3>3
  <2>3. QED
    BY <2>1, <2>2
<1> HIDE DEF T
<1>3. \A n \in Nat : n \in T
  BY <1>2, Strongly
<1>4. f \in [Nat -> Nat]
  BY <1>3 DEF T, Multiplies
<1>5. QED
  BY <1>1, <1>4

(* f puts the sequences of ss behind one another.                          *)
Flattens(f, ss) == f = [i \in 1 .. Len(ss) |-> IF i = 1 THEN ss[i] ELSE f[i - 1] \o ss[i]]

(* The first i of a sequence.                                              *)
FirstOf(ss, i) == [k \in 1 .. i |-> ss[k]]

LEMMA FlattensExists ==
  ASSUME NEW S, NEW ss \in Seq(Seq(S)), ss # <<>>
  PROVE  \E f : Flattens(f, ss)
<1> DEFINE N == Len(ss)
           T == Seq(S)
           join(x, n) == IF n + 1 < N THEN x \o ss[n + 2] ELSE x
           step == [y \in T \X Nat |-> join(y[1], y[2])]
<1>1. ASSUME NEW x \in T, NEW n \in Nat PROVE join(x, n) \in T
  <2>1. n + 1 < N => n + 2 \in 1 .. Len(ss)
    OBVIOUS
  <2>2. QED
    BY <2>1
<1>2. ASSUME NEW y \in T \X Nat PROVE join(y[1], y[2]) \in T
  <2>1. y[1] \in T /\ y[2] \in Nat
    OBVIOUS
  <2> HIDE DEF join
  <2>2. QED
    BY <1>1, <2>1
<1>3. step \in [T \X Nat -> T] /\ \A x \in T, n \in Nat : step[<<x, n>>] = join(x, n)
  <2> HIDE DEF join, T
  <2>1. QED
    BY <1>2
<1>4. ss[1] \in T
  OBVIOUS
<1> HIDE DEF step, join, T
<1>5. PICK g \in [Nat -> T] : Follows(g, ss[1], step)
  BY <1>3, <1>4, Recursion
<1>6. g[0] = ss[1] /\ \A n \in Nat : g[n + 1] = join(g[n], n)
  BY <1>3, <1>5 DEF Follows
<1> DEFINE f == [i \in 1 .. N |-> g[i - 1]]
<1>7. ASSUME NEW i \in 1 .. N, i # 1 PROVE f[i] = f[i - 1] \o ss[i]
  <2>1. i - 2 \in Nat /\ (i - 2) + 1 = i - 1 /\ (i - 2) + 2 = i /\ i - 1 \in 1 .. N /\ (i - 2) + 1 < N
        /\ (i - 1) - 1 = i - 2
    BY <1>7
  <2>2. g[(i - 2) + 1] = join(g[i - 2], i - 2)
    BY <1>6, <2>1
  <2>3. f[i] = g[i - 1] /\ f[i - 1] = g[i - 2]
    BY <2>1
  <2>4. join(g[i - 2], i - 2) = g[i - 2] \o ss[i]
    BY <2>1 DEF join
  <2> HIDE DEF f
  <2>5. QED
    BY <2>1, <2>2, <2>3, <2>4
<1>8. f[1] = ss[1]
  <2>1. 1 \in 1 .. N /\ 1 - 1 = 0
    OBVIOUS
  <2>2. f[1] = g[1 - 1]
    BY <2>1
  <2> HIDE DEF f
  <2>3. QED
    BY <1>6, <2>1, <2>2
<1>9. f = [i \in 1 .. N |-> f[i]]
  OBVIOUS
<1> HIDE DEF f
<1>10. Flattens(f, ss)
  BY <1>7, <1>8, <1>9 DEF Flattens
<1>11. QED
  BY <1>10

LEMMA FlattensProperties ==
  ASSUME NEW S, NEW ss \in Seq(Seq(S)), NEW f, Flattens(f, ss)
  PROVE  /\ \A i \in 1 .. Len(ss) : f[i] = IF i = 1 THEN ss[i] ELSE f[i - 1] \o ss[i]
         /\ \A i \in 1 .. Len(ss) : f[i] \in Seq(S)
<1>1. \A i \in 1 .. Len(ss) : f[i] = IF i = 1 THEN ss[i] ELSE f[i - 1] \o ss[i]
  BY DEF Flattens
<1> DEFINE G == {i \in 0 .. Len(ss) : i > 0 => f[i] \in Seq(S)}
<1>2. 0 \in G
  OBVIOUS
<1>3. ASSUME NEW i \in 0 .. Len(ss) - 1, i \in G PROVE i + 1 \in G
  <2>1. i + 1 \in 1 .. Len(ss) /\ (i + 1) - 1 = i
    OBVIOUS
  <2>2. ss[i + 1] \in Seq(S) /\ (i > 0 => f[i] \in Seq(S))
    BY <1>3, <2>1
  <2>3. CASE i = 0
    <3>1. f[i + 1] = ss[i + 1]
      BY <1>1, <2>1, <2>3
    <3>2. QED
      BY <2>1, <2>2, <3>1
  <2>4. CASE i > 0
    <3>1. f[i + 1] = IF i + 1 = 1 THEN ss[i + 1] ELSE f[(i + 1) - 1] \o ss[i + 1]
      BY <1>1, <2>1
    <3>2. f[i] \o ss[i + 1] \in Seq(S)
      BY <2>2, <2>4
    <3>3. f[i + 1] \in Seq(S)
      BY <2>1, <2>4, <3>1, <3>2
    <3>4. QED
      BY <2>1, <3>3
  <2>5. QED
    BY <2>3, <2>4
<1> HIDE DEF G
<1>n. Len(ss) \in Int
  OBVIOUS
<1>4. \A i \in 0 .. Len(ss) : i \in G
  BY <1>2, <1>3, <1>n, Upwards
<1>5. \A i \in 1 .. Len(ss) : f[i] \in Seq(S)
  BY <1>4 DEF G
<1>6. QED
  BY <1>1, <1>5

LEMMA FlattenRuns ==
  ASSUME NEW S, NEW ss \in Seq(Seq(S)), ss # <<>>
  PROVE  \E f : Flattens(f, ss) /\ FlattenSeq(ss) = f[Len(ss)]
<1> DEFINE f == CHOOSE f : Flattens(f, ss)
<1>1. Flattens(f, ss)
  BY FlattensExists
<1>2. FlattenSeq(ss) = f[Len(ss)]
  BY DEF FlattenSeq, Flattens
<1>3. QED
  BY <1>1, <1>2

(* One more sequence is put at the end.                                    *)
LEMMA FlattenOneMore ==
  ASSUME NEW S, NEW ss \in Seq(Seq(S)), NEW i \in 1 .. Len(ss)
  PROVE  FlattenSeq(FirstOf(ss, i)) = FlattenSeq(FirstOf(ss, i - 1)) \o ss[i]
<1> DEFINE a == FirstOf(ss, i)
           b == FirstOf(ss, i - 1)
<1>1. a \in Seq(Seq(S)) /\ Len(a) = i /\ a # <<>> /\ a[i] = ss[i]
  <2>1. a \in [1 .. i -> Seq(S)] /\ i \in Nat
    BY DEF FirstOf
  <2>2. a \in Seq(Seq(S)) /\ Len(a) = i
    BY <2>1, FunctionIsSeq
  <2>3. a # <<>>
    <3> HIDE DEF a
    <3>1. QED
      BY <2>2
  <2>4. a[i] = ss[i]
    BY DEF FirstOf
  <2>5. QED
    BY <2>2, <2>3, <2>4
<1>2. b \in Seq(Seq(S)) /\ Len(b) = i - 1
  <2>1. b \in [1 .. i - 1 -> Seq(S)] /\ i - 1 \in Nat
    BY DEF FirstOf
  <2>2. QED
    BY <2>1, FunctionIsSeq
<1>3. \A k \in 1 .. i - 1 : a[k] = b[k]
  BY DEF FirstOf
<1> HIDE DEF a, b
<1>4. PICK f : Flattens(f, a) /\ FlattenSeq(a) = f[i]
  BY <1>1, FlattenRuns
<1>5. /\ \A k \in 1 .. i : f[k] = IF k = 1 THEN a[k] ELSE f[k - 1] \o a[k]
      /\ \A k \in 1 .. i : f[k] \in Seq(S)
  <2>1. /\ \A k \in 1 .. Len(a) : f[k] = IF k = 1 THEN a[k] ELSE f[k - 1] \o a[k]
        /\ \A k \in 1 .. Len(a) : f[k] \in Seq(S)
    BY <1>1, <1>4, FlattensProperties, Zenon
  <2>2. QED
    BY <1>1, <2>1
<1>6. ss[i] \in Seq(S)
  OBVIOUS
<1>7. CASE i = 1
  <2>1. FlattenSeq(b) = <<>>
    BY <1>2, <1>7 DEF FlattenSeq
  <2>2. FlattenSeq(a) = ss[i]
    BY <1>1, <1>4, <1>5, <1>7
  <2>3. <<>> \o ss[i] = ss[i]
    BY <1>6
  <2>4. QED
    BY <2>1, <2>2, <2>3 DEF a, b
<1>8. CASE i # 1
  <2>1. b # <<>> /\ i - 1 \in 1 .. i - 1 /\ i - 1 \in 1 .. i
    BY <1>2, <1>8
  <2>2. PICK g : Flattens(g, b) /\ FlattenSeq(b) = g[i - 1]
    BY <1>2, <2>1, FlattenRuns
  <2>3. \A k \in 1 .. i - 1 : g[k] = IF k = 1 THEN b[k] ELSE g[k - 1] \o b[k]
    <3>1. /\ \A k \in 1 .. Len(b) : g[k] = IF k = 1 THEN b[k] ELSE g[k - 1] \o b[k]
          /\ \A k \in 1 .. Len(b) : g[k] \in Seq(S)
      <4>1. b \in Seq(Seq(S)) /\ Flattens(g, b)
        BY <1>2, <2>2
      <4>2. QED
        BY <4>1, FlattensProperties, Zenon
    <3>2. QED
      BY <1>2, <3>1
  <2> DEFINE G == {k \in 0 .. i - 1 : k > 0 => f[k] = g[k]}
  <2>4. ASSUME NEW k \in 0 .. (i - 1) - 1, k \in G PROVE k + 1 \in G
    <3>1. k + 1 \in 1 .. i - 1 /\ k + 1 \in 1 .. i /\ (k + 1) - 1 = k /\ (k + 1 = 1 <=> k = 0)
      OBVIOUS
    <3>2. f[k + 1] = IF k = 0 THEN a[k + 1] ELSE f[k] \o a[k + 1]
      BY <1>5, <3>1
    <3>3. g[k + 1] = IF k = 0 THEN b[k + 1] ELSE g[k] \o b[k + 1]
      BY <2>3, <3>1
    <3>4. a[k + 1] = b[k + 1] /\ (k # 0 => f[k] = g[k])
      BY <1>3, <2>4, <3>1
    <3>5. QED
      BY <3>1, <3>2, <3>3, <3>4
  <2>5. 0 \in G
    BY <2>1
  <2> HIDE DEF G
  <2>6. \A k \in 0 .. i - 1 : k \in G
    <3>1. i - 1 \in Int
      OBVIOUS
    <3>2. QED
      BY <2>4, <2>5, <3>1, Upwards
  <2>7. f[i - 1] = g[i - 1]
    BY <2>1, <2>6 DEF G
  <2>8. f[i] = f[i - 1] \o a[i]
    <3>1. i \in 1 .. i
      OBVIOUS
    <3>2. f[i] = IF i = 1 THEN a[i] ELSE f[i - 1] \o a[i]
      BY <1>5, <3>1
    <3>3. QED
      BY <1>8, <3>2
  <2>9. QED
    BY <1>1, <1>4, <2>2, <2>7, <2>8 DEF a, b
<1>9. QED
  BY <1>7, <1>8

(* What is put together begins with what its first parts are, and each     *)
(* part is where the parts before it end.                                  *)
LEMMA FlattenParts ==
  ASSUME NEW S, NEW ss \in Seq(Seq(S))
  PROVE  /\ FlattenSeq(FirstOf(ss, 0)) = <<>>
         /\ \A i \in 0 .. Len(ss) : FlattenSeq(FirstOf(ss, i)) \in Seq(S)
         /\ \A i \in 1 .. Len(ss) :
              Len(FlattenSeq(FirstOf(ss, i))) = Len(FlattenSeq(FirstOf(ss, i - 1))) + Len(ss[i])
         /\ FirstOf(ss, Len(ss)) = ss
<1> DEFINE P(i) == FlattenSeq(FirstOf(ss, i))
<1>1. P(0) = <<>>
  <2>1. FirstOf(ss, 0) = <<>>
    BY DEF FirstOf
  <2>2. QED
    BY <2>1 DEF FlattenSeq
<1>2. \A i \in 1 .. Len(ss) : P(i) = P(i - 1) \o ss[i]
  BY FlattenOneMore
<1> HIDE DEF P
<1> DEFINE G == {i \in 0 .. Len(ss) : P(i) \in Seq(S)}
<1>3. 0 \in G
  <2>1. <<>> \in Seq(S) /\ 0 \in 0 .. Len(ss)
    OBVIOUS
  <2>2. P(0) \in Seq(S)
    BY <1>1, <2>1
  <2>3. QED
    BY <2>1, <2>2
<1>4. ASSUME NEW i \in 0 .. Len(ss) - 1, i \in G PROVE i + 1 \in G
  <2>1. i + 1 \in 1 .. Len(ss) /\ (i + 1) - 1 = i
    OBVIOUS
  <2>2. P(i + 1) = P((i + 1) - 1) \o ss[i + 1]
    BY <1>2, <2>1
  <2>3. P((i + 1) - 1) = P(i)
    BY <2>1
  <2>4. ss[i + 1] \in Seq(S) /\ P(i) \in Seq(S)
    BY <1>4, <2>1
  <2>5. P(i) \o ss[i + 1] \in Seq(S)
    BY <2>4
  <2>6. P(i + 1) \in Seq(S)
    BY <2>2, <2>3, <2>5
  <2>7. QED
    BY <2>1, <2>6
<1> HIDE DEF G
<1>n. Len(ss) \in Int
  OBVIOUS
<1>5. \A i \in 0 .. Len(ss) : i \in G
  BY <1>3, <1>4, <1>n, Upwards
<1>6. \A i \in 0 .. Len(ss) : P(i) \in Seq(S)
  BY <1>5 DEF G
<1>7. ASSUME NEW i \in 1 .. Len(ss) PROVE Len(P(i)) = Len(P(i - 1)) + Len(ss[i])
  <2>1. P(i - 1) \in Seq(S) /\ ss[i] \in Seq(S)
    BY <1>6
  <2>2. Len(P(i - 1) \o ss[i]) = Len(P(i - 1)) + Len(ss[i])
    BY <2>1
  <2>3. QED
    BY <1>2, <2>2
<1>8. FirstOf(ss, Len(ss)) = ss
  BY DEF FirstOf
<1>9. QED
  BY <1>1, <1>6, <1>7, <1>8 DEF P
=============================================================================
