---------------------------- MODULE SequenceFolds ----------------------------
(***************************************************************************)
(* Facts about folds over a sequence, proved once for the modules that     *)
(* fold.  FoldLeft is a function that is recursive on the sets of indices: *)
(* to the provers a CHOOSE of some function that satisfies the recursion.  *)
(* That there is one, and what a fold returns, is shown by induction.      *)
(* Induction is used in the form of SetInduction, where the predicate is a *)
(* set of numbers: the provers instantiate sets, and not operators.        *)
(***************************************************************************)
EXTENDS Filters, FiniteSetTheorems, TLAPS

\* A set that holds 0 and the successor of each number in it holds every number: the
\* least number it lacks would follow one that it holds.
LEMMA SetInduction ==
    ASSUME NEW S, 0 \in S, \A n \in Nat : n \in S => n + 1 \in S
    PROVE  Nat \subseteq S
<1> DEFINE T == Nat \ S
           R == OpToRel(<, Nat)
<1> SUFFICES ASSUME T # {} PROVE FALSE
  OBVIOUS
<1>1. IsWellFoundedOn(R, Nat)
  BY NatLessThanWellFounded
<1>2. PICK x \in T : \A y \in T : ~(<<y, x>> \in R)
  <2> HIDE DEF R
  <2> QED BY <1>1, WFMin
<1>3. x # 0 /\ x - 1 \in Nat
  BY SMT
<1>4. x - 1 \in S
  <2>1. <<x - 1, x>> \in R
    BY <1>3 DEF OpToRel
  <2> QED BY <2>1, <1>2, <1>3
<1>5. (x - 1) + 1 = x
  BY <1>3
<1> QED BY <1>4, <1>5, <1>3

\* Max of a set of indices up to k + 1 that reaches k + 1.
LEMMA MaxOfInitial ==
    ASSUME NEW k \in Nat, NEW T \in SUBSET (1 .. k + 1), k + 1 \in T
    PROVE  Max(T) = k + 1
<1>1. k + 1 \in T /\ \A y \in T : k + 1 >= y
  OBVIOUS
<1>2. Max(T) \in T /\ \A y \in T : Max(T) >= y
  BY <1>1 DEF Max
<1>3. Max(T) \in 1 .. k + 1 /\ Max(T) >= k + 1
  BY <1>2
<1> HIDE DEF Max
<1> QED BY <1>3

\* Max of a set of numbers is one of them.
LEMMA MaxOfSome ==
    ASSUME NEW n \in Nat, NEW T \in SUBSET (1 .. n), T # {}
    PROVE  Max(T) \in T
<1> DEFINE Q == {k \in Nat : \A U \in SUBSET (1 .. k) : U # {} => \E x \in U : \A y \in U : x >= y}
<1>1. 0 \in Q
  <2>1. 1 .. 0 = {}
    OBVIOUS
  <2> QED BY <2>1
<1>2. ASSUME NEW k \in Nat, k \in Q PROVE k + 1 \in Q
  <2> SUFFICES ASSUME NEW U \in SUBSET (1 .. k + 1), U # {} PROVE \E x \in U : \A y \in U : x >= y
    OBVIOUS
  <2>1. CASE k + 1 \in U
    BY <2>1
  <2>2. CASE k + 1 \notin U
    <3>1. U \in SUBSET (1 .. k)
      BY <2>2
    <3> QED BY <1>2, <3>1
  <2> QED BY <2>1, <2>2
<1>3. Nat \subseteq Q
  <2> HIDE DEF Q
  <2> QED BY <1>1, <1>2, SetInduction
<1>4. \E x \in T : \A y \in T : x >= y
  BY <1>3
<1> QED BY <1>4 DEF Max

\* h folds the step g, from base, over the sets of indices up to n: the largest last.
Folds(h, S, base, g, n) ==
    /\ h \in [SUBSET (1 .. n) -> S]
    /\ h[{}] = base
    /\ \A T \in SUBSET (1 .. n) : T # {} =>
          Max(T) \in T /\ h[T] = g[<<Max(T), h[T \ {Max(T)}]>>]

\* A fold over the indices up to k goes on to k + 1.
LEMMA FoldExtends ==
    ASSUME NEW S, NEW base \in S, NEW n \in Nat, NEW k \in Nat, k < n,
           NEW g \in [(1 .. n) \X S -> S], NEW h, Folds(h, S, base, g, k)
    PROVE  \E e : Folds(e, S, base, g, k + 1)
<1> DEFINE e == [T \in SUBSET (1 .. k + 1) |->
                    IF k + 1 \in T THEN g[<<k + 1, h[T \ {k + 1}]>>] ELSE h[T]]
<1>1. ASSUME NEW T \in SUBSET (1 .. k + 1)
      PROVE  /\ T \ {k + 1} \in SUBSET (1 .. k)
             /\ k + 1 \notin T => T \in SUBSET (1 .. k)
  OBVIOUS
<1>2. ASSUME NEW T \in SUBSET (1 .. k + 1) PROVE e[T] \in S
  <2>1. CASE k + 1 \in T
    <3>1. h[T \ {k + 1}] \in S /\ k + 1 \in 1 .. n
      BY <1>1 DEF Folds
    <3> QED BY <2>1, <3>1
  <2>2. CASE k + 1 \notin T
    BY <1>1, <2>2 DEF Folds
  <2> QED BY <2>1, <2>2
<1>3. {} \in SUBSET (1 .. k + 1) /\ e[{}] = base
  BY DEF Folds
<1>4. ASSUME NEW T \in SUBSET (1 .. k + 1), T # {}
      PROVE  Max(T) \in T /\ e[T] = g[<<Max(T), e[T \ {Max(T)}]>>]
  <2>1. CASE k + 1 \in T
    <3>1. Max(T) = k + 1
      BY <2>1, MaxOfInitial
    <3>2. e[T \ {k + 1}] = h[T \ {k + 1}]
      BY <1>1
    <3> QED BY <2>1, <3>1, <3>2
  <2>2. CASE k + 1 \notin T
    <3>1. T \in SUBSET (1 .. k)
      BY <1>1, <2>2
    <3>2. Max(T) \in T /\ h[T] = g[<<Max(T), h[T \ {Max(T)}]>>]
      BY <1>4, <3>1 DEF Folds
    <3>3. e[T] = h[T] /\ e[T \ {Max(T)}] = h[T \ {Max(T)}]
      BY <2>2
    <3> QED BY <3>2, <3>3
  <2> QED BY <2>1, <2>2
<1>5. e \in [SUBSET (1 .. k + 1) -> S]
  BY <1>2
<1> QED BY <1>3, <1>4, <1>5 DEF Folds

\* Every step function on a set S has its fold.
LEMMA FoldExists ==
    ASSUME NEW S, NEW base \in S, NEW n \in Nat, NEW g \in [(1 .. n) \X S -> S]
    PROVE  \E h : Folds(h, S, base, g, n)
<1> DEFINE Q == {k \in Nat : k <= n => \E h : Folds(h, S, base, g, k)}
<1>1. 0 \in Q
  <2> DEFINE h == [T \in SUBSET (1 .. 0) |-> base]
  <2>1. SUBSET (1 .. 0) = {{}}
    OBVIOUS
  <2>2. Folds(h, S, base, g, 0)
    BY <2>1 DEF Folds
  <2> QED BY <2>2
<1>2. ASSUME NEW k \in Nat, k \in Q PROVE k + 1 \in Q
  <2> SUFFICES ASSUME k + 1 <= n PROVE \E h : Folds(h, S, base, g, k + 1)
    OBVIOUS
  <2>1. PICK h : Folds(h, S, base, g, k)
    BY <1>2
  <2> QED BY <2>1, FoldExtends
<1>3. Nat \subseteq Q
  <2> HIDE DEF Q
  <2> QED BY <1>1, <1>2, SetInduction
<1> QED BY <1>3

\* What the recursion does at the index set 1 .. k: it goes on with 1 .. k - 1.
LEMMA InitialIndices ==
    ASSUME NEW n \in Nat, NEW k \in 1 .. n
    PROVE  /\ (1 .. k) \in SUBSET (1 .. n) /\ (1 .. k) # {}
           /\ Max(1 .. k) = k /\ (1 .. k) \ {k} = 1 .. k - 1
<1> DEFINE j == k - 1
<1>1. j \in Nat /\ j + 1 = k
  OBVIOUS
<1>2. (1 .. k) \in SUBSET (1 .. j + 1) /\ k \in 1 .. k /\ (1 .. k) \in SUBSET (1 .. n)
  BY <1>1
<1>3. Max(1 .. k) = k
  <2> HIDE DEF j
  <2> QED BY <1>1, <1>2, MaxOfInitial
<1>4. (1 .. k) \ {k} = 1 .. k - 1
  OBVIOUS
<1> QED BY <1>2, <1>3, <1>4

\* f is computed from base by one application of g after the other.
Recursion(f, S, base, g, n) ==
    f \in [0 .. n -> S] /\ f[0] = base /\ \A k \in 1 .. n : f[k] = g[<<k, f[k - 1]>>]

\* A recursion on numbers, with a step of its own for each, has a solution.
LEMMA RecursionExists ==
    ASSUME NEW S, NEW base \in S, NEW n \in Nat, NEW g \in [(1 .. n) \X S -> S]
    PROVE  \E f : Recursion(f, S, base, g, n)
<1>1. PICK h : Folds(h, S, base, g, n)
  BY FoldExists
<1> DEFINE f == [k \in 0 .. n |-> h[1 .. k]]
<1>2. f \in [0 .. n -> S]
  <2>1. \A k \in 0 .. n : (1 .. k) \in SUBSET (1 .. n)
    OBVIOUS
  <2> QED BY <1>1, <2>1 DEF Folds
<1>3. f[0] = base
  <2>1. 1 .. 0 = {} /\ 0 \in 0 .. n
    OBVIOUS
  <2> QED BY <1>1, <2>1 DEF Folds
<1>4. ASSUME NEW k \in 1 .. n PROVE f[k] = g[<<k, f[k - 1]>>]
  <2>1. /\ (1 .. k) \in SUBSET (1 .. n) /\ (1 .. k) # {}
        /\ Max(1 .. k) = k /\ (1 .. k) \ {k} = 1 .. k - 1
    BY InitialIndices
  <2>2. h[1 .. k] = g[<<k, h[1 .. k - 1]>>]
    BY <1>1, <2>1 DEF Folds
  <2>3. f[k] = h[1 .. k] /\ f[k - 1] = h[1 .. k - 1]
    OBVIOUS
  <2> QED BY <2>2, <2>3
<1> QED BY <1>2, <1>3, <1>4 DEF Recursion

\* What satisfies the recursion as long as its values are in S does so at every number.
LEMMA RecursionRuns ==
    ASSUME NEW S, NEW base \in S, NEW n \in Nat, NEW g \in [(1 .. n) \X S -> S], NEW r,
           r = [k \in 0 .. n |-> r[k]], r[0] = base,
           \A k \in 1 .. n : r[k - 1] \in S => r[k] = g[<<k, r[k - 1]>>]
    PROVE  Recursion(r, S, base, g, n)
<1> DEFINE Q == {k \in Nat : k <= n => r[k] \in S}
<1>1. 0 \in Q
  OBVIOUS
<1>2. ASSUME NEW k \in Nat, k \in Q PROVE k + 1 \in Q
  <2> SUFFICES ASSUME k + 1 <= n PROVE r[k + 1] \in S
    OBVIOUS
  <2> DEFINE j == k + 1
  <2>1. j \in 1 .. n /\ j - 1 = k /\ r[k] \in S
    BY <1>2
  <2> HIDE DEF j, Q
  <2>2. r[j] = g[<<j, r[k]>>]
    BY <2>1
  <2>3. r[j] \in S
    BY <2>1, <2>2
  <2> QED BY <2>3 DEF j
<1>3. Nat \subseteq Q
  <2> HIDE DEF Q
  <2> QED BY <1>1, <1>2, SetInduction
<1>4. \A k \in 0 .. n : r[k] \in S
  BY <1>3
<1>5. r \in [0 .. n -> S]
  BY <1>4
<1>6. \A k \in 1 .. n : k - 1 \in 0 .. n
  OBVIOUS
<1> QED BY <1>4, <1>5, <1>6 DEF Recursion

\* A fold runs through the indices in their order.
LEMMA FoldRuns ==
    ASSUME NEW S, NEW base \in S, NEW n \in Nat, NEW g \in [(1 .. n) \X S -> S], NEW fold,
           fold[{}] = base,
           \A T \in SUBSET (1 .. n) :
               T # {} /\ fold[T \ {Max(T)}] \in S => fold[T] = g[<<Max(T), fold[T \ {Max(T)}]>>]
    PROVE  Recursion([k \in 0 .. n |-> fold[1 .. k]], S, base, g, n)
<1> DEFINE r == [k \in 0 .. n |-> fold[1 .. k]]
<1>1. r = [k \in 0 .. n |-> r[k]]
  OBVIOUS
<1>2. r[0] = base
  <2>1. 1 .. 0 = {} /\ 0 \in 0 .. n
    OBVIOUS
  <2> QED BY <2>1
<1>3. ASSUME NEW k \in 1 .. n, r[k - 1] \in S PROVE r[k] = g[<<k, r[k - 1]>>]
  <2>1. /\ (1 .. k) \in SUBSET (1 .. n) /\ (1 .. k) # {}
        /\ Max(1 .. k) = k /\ (1 .. k) \ {k} = 1 .. k - 1
    BY InitialIndices
  <2>2. r[k] = fold[1 .. k] /\ r[k - 1] = fold[1 .. k - 1]
    OBVIOUS
  <2> HIDE DEF r
  <2> QED BY <1>3, <2>1, <2>2
<1> HIDE DEF r
<1>4. Recursion(r, S, base, g, n)
  BY <1>1, <1>2, <1>3, RecursionRuns
<1> QED BY <1>4 DEF r

\* f[k] is what is left of the first k elements of s.
Sieves(f, s, S) ==
    /\ f[0] = <<>>
    /\ \A k \in 1 .. Len(s) : f[k] = IF s[k] \in S THEN f[k - 1] ELSE Append(f[k - 1], s[k])

\* Without filters one element after the other.
LEMMA WithoutFolds ==
    ASSUME NEW E, NEW s \in Seq(E), NEW S
    PROVE  \E f \in [0 .. Len(s) -> Seq(E)] : Sieves(f, s, S) /\ f[Len(s)] = Without(s, S)
<1> DEFINE n == Len(s)
           Next(k, v) == IF s[k] \in S THEN v ELSE Append(v, s[k])
           g == [p \in (1 .. n) \X Seq(E) |-> Next(p[1], p[2])]
           Is(h) == h = [T \in SUBSET DOMAIN s |->
                            IF T = {} THEN <<>> ELSE Next(Max(T), h[T \ {Max(T)}])]
           fold == CHOOSE h : Is(h)
<1>1. n \in Nat /\ DOMAIN s = 1 .. n /\ <<>> \in Seq(E)
  OBVIOUS
<1>2. \A k \in 1 .. n, v \in Seq(E) : Next(k, v) \in Seq(E) /\ g[<<k, v>>] = Next(k, v)
  BY <1>1
<1>3. g \in [(1 .. n) \X Seq(E) -> Seq(E)]
  BY <1>2
<1>4. Without(s, S) = fold[DOMAIN s]
  BY DEF Without, FoldLeft, MapThenFoldSet
<1>5. \E h : Is(h)
  <2>1. PICK h : Folds(h, Seq(E), <<>>, g, n)
    <3> HIDE DEF g
    <3> QED BY <1>1, <1>3, FoldExists
  <2>2. h \in [SUBSET DOMAIN s -> Seq(E)]
    BY <1>1, <2>1 DEF Folds
  <2>3. ASSUME NEW T \in SUBSET DOMAIN s, T # {}
        PROVE  h[T] = Next(Max(T), h[T \ {Max(T)}])
    <3>1. T \in SUBSET (1 .. n) /\ Max(T) \in 1 .. n /\ T \ {Max(T)} \in SUBSET (1 .. n)
      BY <1>1, <2>1, <2>3 DEF Folds
    <3>2. h[T \ {Max(T)}] \in Seq(E) /\ h[T] = g[<<Max(T), h[T \ {Max(T)}]>>]
      BY <2>1, <2>3, <3>1 DEF Folds
    <3> QED BY <1>2, <3>1, <3>2
  <2>4. h[{}] = <<>>
    BY <2>1 DEF Folds
  <2> HIDE DEF Next
  <2> QED BY <2>2, <2>3, <2>4
<1>6. Is(fold)
  <2> HIDE DEF Is
  <2> QED BY <1>5
<1> DEFINE f == [k \in 0 .. n |-> fold[1 .. k]]
<1>7. Recursion(f, Seq(E), <<>>, g, n)
  <2>1. fold[{}] = <<>> /\ \A T \in SUBSET (1 .. n) : T # {} => fold[T] = Next(Max(T), fold[T \ {Max(T)}])
    <3> HIDE DEF fold, Next
    <3> QED BY <1>1, <1>6
  <2>2. ASSUME NEW T \in SUBSET (1 .. n), T # {} PROVE Max(T) \in 1 .. n
    BY <2>2, <1>1, MaxOfSome
  <2>3. \A T \in SUBSET (1 .. n) : T # {} /\ fold[T \ {Max(T)}] \in Seq(E) =>
            fold[T] = g[<<Max(T), fold[T \ {Max(T)}]>>]
    <3> HIDE DEF fold, Next, g, Is
    <3> QED BY <1>2, <2>1, <2>2
  <2> HIDE DEF fold, Next, g, Is, n
  <2> QED BY <1>1, <1>3, <2>1, <2>3, FoldRuns
<1> HIDE DEF fold, Is
<1>8. f \in [0 .. n -> Seq(E)] /\ f[0] = <<>> /\ \A k \in 1 .. n : f[k] = Next(k, f[k - 1])
  <2>1. f \in [0 .. n -> Seq(E)] /\ f[0] = <<>> /\ \A k \in 1 .. n : f[k] = g[<<k, f[k - 1]>>]
    <3> HIDE DEF g, f
    <3> QED BY <1>7 DEF Recursion
  <2>2. \A k \in 1 .. n : k - 1 \in 0 .. n
    BY <1>1
  <2> HIDE DEF f, g, Next
  <2>3. \A k \in 1 .. n : f[k - 1] \in Seq(E)
    BY <2>1, <2>2
  <2> QED BY <1>2, <2>1, <2>3
<1>9. f[n] = Without(s, S)
  BY <1>1, <1>4
<1>10. Sieves(f, s, S)
  <2> HIDE DEF f
  <2> QED BY <1>8 DEF Sieves
<1> QED BY <1>8, <1>9, <1>10

\* t holds, in order, the elements of the first k of s that are not in S.
Leaves(t, s, k, S) ==
    /\ \A i \in 1 .. Len(t) : \E p \in 1 .. k : s[p] = t[i] /\ s[p] \notin S
    /\ \A p \in 1 .. k : s[p] \notin S => \E i \in 1 .. Len(t) : t[i] = s[p]
    /\ \A i, j \in 1 .. Len(t) : i < j => \E p, q \in 1 .. k : p < q /\ s[p] = t[i] /\ s[q] = t[j]

\* The next element is left out or appended.
LEMMA LeavesStep ==
    ASSUME NEW E, NEW s \in Seq(E), NEW S, NEW k \in 1 .. Len(s), NEW t \in Seq(E),
           Leaves(t, s, k - 1, S)
    PROVE  Leaves(IF s[k] \in S THEN t ELSE Append(t, s[k]), s, k, S)
<1>1. /\ Len(s) \in Nat /\ s[k] \in E /\ k - 1 \in Nat /\ k \in 1 .. k
      /\ \A p \in 1 .. k - 1 : p \in 1 .. k /\ p < k
      /\ \A p \in 1 .. k : p \in 1 .. k - 1 \/ p = k
  OBVIOUS
<1>2. CASE s[k] \in S
  BY <1>1, <1>2 DEF Leaves
<1>3. CASE s[k] \notin S
  <2> DEFINE u == Append(t, s[k])
             l == Len(t)
  <2>1. /\ l \in Nat /\ Len(u) = l + 1 /\ u[l + 1] = s[k]
        /\ \A i \in 1 .. l : u[i] = t[i]
        /\ \A i \in 1 .. l + 1 : i \in 1 .. l \/ i = l + 1
        /\ \A i \in 1 .. l : i \in 1 .. l + 1
        /\ l + 1 \in 1 .. l + 1
    BY <1>1
  <2> HIDE DEF u, l
  <2>2. /\ \A i \in 1 .. l : \E p \in 1 .. k - 1 : s[p] = t[i] /\ s[p] \notin S
        /\ \A p \in 1 .. k - 1 : s[p] \notin S => \E i \in 1 .. l : t[i] = s[p]
        /\ \A i, j \in 1 .. l : i < j =>
              \E p, q \in 1 .. k - 1 : p < q /\ s[p] = t[i] /\ s[q] = t[j]
    BY DEF Leaves, l
  <2>3. ASSUME NEW i \in 1 .. l + 1
        PROVE  \E p \in 1 .. k : s[p] = u[i] /\ s[p] \notin S
    <3>1. CASE i \in 1 .. l
      <4>1. PICK p \in 1 .. k - 1 : s[p] = t[i] /\ s[p] \notin S
        BY <2>2, <3>1
      <4>2. p \in 1 .. k /\ s[p] = u[i] /\ s[p] \notin S
        BY <1>1, <2>1, <3>1, <4>1
      <4> QED BY <4>2
    <3>2. CASE i = l + 1
      BY <1>1, <1>3, <2>1, <3>2
    <3> QED BY <2>1, <3>1, <3>2
  <2>4. ASSUME NEW p \in 1 .. k, s[p] \notin S
        PROVE  \E i \in 1 .. l + 1 : u[i] = s[p]
    BY <1>1, <2>1, <2>2, <2>4
  <2>5. ASSUME NEW i \in 1 .. l + 1, NEW j \in 1 .. l + 1, i < j
        PROVE  \E p, q \in 1 .. k : p < q /\ s[p] = u[i] /\ s[q] = u[j]
    <3>1. i \in 1 .. l
      BY <2>1, <2>5
    <3>2. CASE j \in 1 .. l
      <4>1. PICK p \in 1 .. k - 1, q \in 1 .. k - 1 : p < q /\ s[p] = t[i] /\ s[q] = t[j]
        BY <2>2, <2>5, <3>1, <3>2
      <4>2. p \in 1 .. k /\ q \in 1 .. k /\ s[p] = u[i] /\ s[q] = u[j]
        BY <1>1, <2>1, <3>1, <3>2, <4>1
      <4> QED BY <4>1, <4>2
    <3>3. CASE j = l + 1
      <4>1. PICK p \in 1 .. k - 1 : s[p] = t[i]
        BY <2>2, <3>1
      <4>2. p \in 1 .. k /\ p < k /\ s[p] = u[i] /\ s[k] = u[j]
        BY <1>1, <2>1, <3>1, <3>3, <4>1
      <4> QED BY <1>1, <4>2
    <3> QED BY <2>1, <3>2, <3>3
  <2>6. Leaves(u, s, k, S)
    BY <2>1, <2>3, <2>4, <2>5 DEF Leaves
  <2> QED BY <1>3, <2>6 DEF u
<1> QED BY <1>2, <1>3

\* Without(s, S) is a sequence of the elements of s that are not in S, all of them, and in
\* the order they have in s.
LEMMA WithoutProperties ==
    ASSUME NEW E, NEW s \in Seq(E), NEW S
    PROVE  Without(s, S) \in Seq(E) /\ Leaves(Without(s, S), s, Len(s), S)
<1> DEFINE n == Len(s)
<1>1. PICK f \in [0 .. Len(s) -> Seq(E)] :
           Sieves(f, s, S) /\ f[Len(s)] = Without(s, S)
  BY WithoutFolds
<1>2. n \in Nat
  OBVIOUS
<1> DEFINE Q == {k \in Nat : k <= n => Leaves(f[k], s, k, S)}
<1>3. 0 \in Q
  <2>1. Leaves(<<>>, s, 0, S)
    BY DEF Leaves
  <2> QED BY <1>1, <2>1 DEF Sieves
<1>4. ASSUME NEW k \in Nat, k \in Q PROVE k + 1 \in Q
  <2> SUFFICES ASSUME k + 1 <= n PROVE Leaves(f[k + 1], s, k + 1, S)
    OBVIOUS
  <2>1. k + 1 \in 1 .. n /\ (k + 1) - 1 = k /\ f[k] \in Seq(E) /\ Leaves(f[k], s, k, S)
    BY <1>2, <1>4
  <2>2. f[k + 1] = IF s[k + 1] \in S THEN f[k] ELSE Append(f[k], s[k + 1])
    BY <1>1, <2>1 DEF Sieves
  <2>3. Leaves(IF s[k + 1] \in S THEN f[k] ELSE Append(f[k], s[k + 1]), s, k + 1, S)
    <3> DEFINE j == k + 1
    <3>1. j \in 1 .. Len(s) /\ Leaves(f[k], s, j - 1, S)
      BY <2>1
    <3> HIDE DEF j, Q, n
    <3>2. Leaves(IF s[j] \in S THEN f[k] ELSE Append(f[k], s[j]), s, j, S)
      BY <2>1, <3>1, LeavesStep
    <3> QED BY <3>2 DEF j
  <2> QED BY <2>2, <2>3
<1>5. Nat \subseteq Q
  <2> HIDE DEF Q
  <2> QED BY <1>3, <1>4, SetInduction
<1> QED BY <1>1, <1>2, <1>5
=============================================================================
