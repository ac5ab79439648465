-------------------------- MODULE RecursionTheorems -------------------------
(***************************************************************************)
(* Induction over the numbers, and functions defined by recursion.  Both   *)
(* follow from a well-founded ordering of the library, and are stated for  *)
(* sets and functions, as the provers can use them.                        *)
(***************************************************************************)
EXTENDS Integers, FiniteSetTheorems, TLAPS

\* Every nonempty set of numbers has a least element.
LEMMA LeastNumber ==
  ASSUME NEW T \in SUBSET Nat, T # {}
  PROVE  \E x \in T : \A y \in T : x <= y
<1> DEFINE X == {0..t : t \in T}
<1>1. X \subseteq FiniteSubsetsOf(Nat) /\ X # {}
  <2>1. \A n \in Nat : IsFiniteSet(0..n) /\ 0..n \in SUBSET Nat
    BY FS_Interval
  <2> QED
    BY <2>1 DEF FiniteSubsetsOf
<1>2. PICK x \in X : \A y \in X : ~ (<<y, x>> \in StrictSubsetOrdering(Nat))
  <2> HIDE DEF X
  <2>1. IsWellFoundedOn(StrictSubsetOrdering(Nat), FiniteSubsetsOf(Nat))
    BY FS_StrictSubsetOrderingWellFounded
  <2> QED
    BY <1>1, <2>1, WFMin, Zenon
<1>3. PICK t \in T : x = 0..t
  BY <1>2
<1>4. ASSUME NEW s \in T, ~(t <= s) PROVE FALSE
  <2>1. 0..s \subseteq 0..t /\ t \in 0..t /\ t \notin 0..s
    BY <1>4
  <2>2. <<0..s, 0..t>> \in StrictSubsetOrdering(Nat)
    BY <2>1 DEF StrictSubsetOrdering
  <2> QED
    BY <1>2, <1>3, <2>2
<1> QED
  BY <1>4

\* Induction: a set of numbers with 0 and the successor of each member is all of them.
LEMMA Induction ==
  ASSUME NEW P \in SUBSET Nat, 0 \in P, \A n \in P : n + 1 \in P
  PROVE  P = Nat
<1>1. SUFFICES ASSUME Nat \ P # {} PROVE FALSE
  OBVIOUS
<1>2. PICK x \in Nat \ P : \A y \in Nat \ P : x <= y
  BY <1>1, LeastNumber
<1>3. x # 0 /\ x - 1 \in Nat /\ ~(x <= x - 1) /\ (x - 1) + 1 = x
  BY <1>2
<1> QED
  BY <1>2, <1>3

\* A function on the arguments in S by recursion: base at those in stop, elsewhere what
\* step makes of the argument and the value, in T, at the argument prev gives.
Equation(f, S, T, stop, base, prev, step) ==
  \A x \in S :
    IF x \in stop THEN f[x] = base[x]
    ELSE f[prev[x]] \in T => f[x] = step[<<x, f[prev[x]]>>]

\* A measure of the arguments that prev lessens.
Descends(S, stop, m, prev) ==
  m \in [S -> Nat] /\ prev \in [S -> S] /\ \A x \in S \ stop : m[prev[x]] < m[x]

\* f is the function the equation describes, and the only one.
Computes(f, S, T, stop, base, prev, step) ==
  /\ f \in [S -> T]
  /\ \A x \in S : f[x] = IF x \in stop THEN base[x] ELSE step[<<x, f[prev[x]]>>]
  /\ \A g : Equation(g, S, T, stop, base, prev, step) => \A x \in S : g[x] = f[x]

\* If prev lessens a measure there is such a function.
LEMMA Recursion ==
  ASSUME NEW S, NEW T, NEW stop, NEW m, NEW prev, Descends(S, stop, m, prev),
         NEW base \in [S -> T], NEW step \in [S \X T -> T]
  PROVE  \E f : Computes(f, S, T, stop, base, prev, step)
<1> SUFFICES ASSUME m \in [S -> Nat], prev \in [S -> S], \A x \in S \ stop : m[prev[x]] < m[x]
             PROVE  \E f : Computes(f, S, T, stop, base, prev, step)
  BY DEF Descends
<1> DEFINE Below(n) == {x \in S : m[x] < n}
           Good(f, n) == Equation(f, Below(n), T, stop, base, prev, step)
           P == {n \in Nat : \E f \in [S -> T] : Good(f, n)}
\* The values below n: from those below n - 1.
<1>1. P = Nat
  <2>1. 0 \in P
    <3>1. Below(0) = {}
      OBVIOUS
    <3>2. Good(base, 0)
      BY <3>1 DEF Equation
    <3> QED
      BY <3>2
  <2>2. ASSUME NEW n \in P PROVE n + 1 \in P
    <3>1. PICK f \in [S -> T] : Good(f, n)
      BY <2>2
    <3> DEFINE h == [x \in S |-> IF x \in stop THEN base[x] ELSE step[<<x, f[prev[x]]>>]]
    <3>2. h \in [S -> T]
      OBVIOUS
    <3>3. ASSUME NEW x \in Below(n + 1), x \notin stop PROVE h[x] = step[<<x, h[prev[x]]>>]
      <4>1. prev[x] \in Below(n)
        BY <3>3
      <4>2. f[prev[x]] = h[prev[x]]
        BY <3>1, <4>1 DEF Equation
      <4> QED
        BY <3>3, <4>2
    <3>4. Good(h, n + 1)
      <4>1. \A x \in Below(n + 1) : x \in S /\ (x \in stop => h[x] = base[x])
        OBVIOUS
      <4> HIDE DEF h, Below
      <4> QED
        BY <3>3, <4>1 DEF Equation
    <3>5. n + 1 \in Nat
      OBVIOUS
    <3> HIDE DEF h, Good
    <3> QED
      BY <3>2, <3>4, <3>5
  <2>3. P \in SUBSET Nat
    OBVIOUS
  <2> HIDE DEF P
  <2> QED
    BY <2>1, <2>2, <2>3, Induction
\* Two functions agree below n.
<1>2. ASSUME NEW f \in [S -> T], NEW g, NEW n \in Nat, Good(f, n), Good(g, n), NEW x \in Below(n)
      PROVE  g[x] = f[x]
  <2> DEFINE Q == {k \in Nat : \E y \in Below(n) : m[y] = k /\ g[y] # f[y]}
  <2>1. SUFFICES ASSUME Q # {} PROVE FALSE
    BY <1>2
  <2>2. PICK k \in Q : \A j \in Q : k <= j
    <3> HIDE DEF Q
    <3>1. Q \in SUBSET Nat
      BY DEF Q
    <3> QED
      BY <2>1, <3>1, LeastNumber
  <2>3. PICK y \in Below(n) : m[y] = k /\ g[y] # f[y]
    BY <2>2
  <2>4. y \notin stop
    BY <1>2, <2>3 DEF Equation
  <2>5. prev[y] \in Below(n) /\ m[prev[y]] < k /\ m[prev[y]] \in Nat /\ k \in Nat
    BY <2>3, <2>4
  <2>6. g[prev[y]] = f[prev[y]]
    <3>1. SUFFICES ASSUME g[prev[y]] # f[prev[y]] PROVE FALSE
      OBVIOUS
    <3>2. m[prev[y]] \in Q
      BY <2>5, <3>1
    <3> QED
      BY <2>2, <2>5, <3>2
  <2>7. f[prev[y]] \in T
    OBVIOUS
  <2> QED
    BY <1>2, <2>3, <2>4, <2>6, <2>7 DEF Equation
<1> DEFINE pick == [n \in Nat |-> CHOOSE f \in [S -> T] : Good(f, n)]
           F == [x \in S |-> pick[m[x] + 1][x]]
<1>3. \A n \in Nat : pick[n] \in [S -> T] /\ Good(pick[n], n)
  BY <1>1
<1> HIDE DEF pick
<1>4. F \in [S -> T]
  <2>1. \A x \in S : m[x] + 1 \in Nat
    OBVIOUS
  <2> QED
    BY <1>3, <2>1
<1>5. ASSUME NEW x \in S
      PROVE  IF x \in stop THEN F[x] = base[x] ELSE F[x] = step[<<x, F[prev[x]]>>]
  <2> DEFINE p == pick[m[x] + 1]
  <2>1. p \in [S -> T] /\ Good(p, m[x] + 1) /\ x \in Below(m[x] + 1)
    <3>1. m[x] + 1 \in Nat /\ m[x] < m[x] + 1
      OBVIOUS
    <3> HIDE DEF Good
    <3> QED
      BY <1>3, <3>1
  <2>2. IF x \in stop THEN F[x] = base[x] ELSE F[x] = step[<<x, p[prev[x]]>>]
    BY <2>1 DEF Equation
  <2>3. ASSUME x \notin stop PROVE F[prev[x]] = p[prev[x]]
    <3> DEFINE k == m[prev[x]] + 1
    <3>1. prev[x] \in S /\ m[prev[x]] < m[x] /\ k \in Nat /\ m[x] \in Nat
      BY <2>3
    <3>2. prev[x] \in Below(k) /\ \A y \in Below(k) : y \in Below(m[x] + 1)
      BY <3>1
    <3>3. Good(p, k)
      BY <2>1, <3>2 DEF Equation
    <3>4. pick[k] \in [S -> T] /\ Good(pick[k], k)
      BY <1>3, <3>1
    <3>5. p[prev[x]] = pick[k][prev[x]]
      <4> HIDE DEF Good, Below, p, k
      <4> QED
        BY <1>2, <3>1, <3>2, <3>3, <3>4
    <3> QED
      BY <3>1, <3>5
  <2> QED
    BY <2>2, <2>3
<1> HIDE DEF F
<1>6. Equation(F, S, T, stop, base, prev, step)
  BY <1>5 DEF Equation
<1>7. ASSUME NEW g, Equation(g, S, T, stop, base, prev, step), NEW x \in S PROVE g[x] = F[x]
  <2>1. m[x] + 1 \in Nat /\ x \in Below(m[x] + 1)
    OBVIOUS
  <2>2. Good(F, m[x] + 1) /\ Good(g, m[x] + 1)
    BY <1>6, <1>7 DEF Equation
  <2> HIDE DEF Good, Below
  <2> QED
    BY <1>2, <1>4, <2>1, <2>2
<1> QED
  BY <1>4, <1>5, <1>7 DEF Computes
=============================================================================
