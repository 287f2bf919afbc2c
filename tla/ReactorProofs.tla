---------------------------- MODULE ReactorProofs ----------------------------
(***************************************************************************)
(* The index of the reactor, for every checkout: what the walk finds is    *)
(* what is reachable, and what the edges of a directory are.               *)
(***************************************************************************)
EXTENDS Reactor, SequenceFolds

----------------------------------------------------------------------------
(* The poms that are reachable.                                            *)

Poms(c) == \A p \in PomFiles :
    /\ c[p].valid \in BOOLEAN /\ c[p].modules \in Seq(PomFiles \cup {Placeholder})
    /\ c[p].deps \in Seq(ToSet(c[p].deps))

LEMMA EntriesTyped ==
    ASSUME NEW c, Poms(c), NEW p \in PomFiles
    PROVE  ModuleEntries(c[p]) \in Seq(PomFiles) /\ ToSet(ModuleEntries(c[p])) \subseteq PomFiles
<1> DEFINE s == c[p].modules
           t == Without(s, {Placeholder})
           E == PomFiles \cup {Placeholder}
<1>1. s \in Seq(E)
  BY DEF Poms
<1> HIDE DEF s
<1>2. t \in Seq(E) /\ Leaves(t, s, Len(s), {Placeholder})
  BY <1>1, WithoutProperties
<1> HIDE DEF t
<1>3. \A i \in 1 .. Len(t) : t[i] \in PomFiles
  <2>1. \A i \in 1 .. Len(t) : t[i] \in E
    BY <1>2
  <2>2. \A i \in 1 .. Len(t) : t[i] \notin {Placeholder}
    BY <1>2 DEF Leaves
  <2> QED BY <2>1, <2>2
<1>4. t \in Seq(PomFiles) /\ DOMAIN t = 1 .. Len(t)
  BY <1>2, <1>3
<1>5. ModuleEntries(c[p]) = t
  BY DEF ModuleEntries, t, s
<1> QED BY <1>3, <1>4, <1>5 DEF ToSet

\* One more step of the walk, taken for all poms at once.
Spread(c, S) == S \cup {p \in ModulesOf(c, S) : Readable(p)}
AtRoot == {p \in {RootPom} : Readable(p)}
Stages(r, c) ==
    /\ r \in [0 .. Cardinality(PomFiles) -> SUBSET PomFiles] /\ r[0] = AtRoot
    /\ \A n \in 1 .. Cardinality(PomFiles) : r[n] = Spread(c, r[n - 1])

LEMMA SpreadTyped ==
    ASSUME NEW c, Poms(c), NEW S \in SUBSET PomFiles
    PROVE  Spread(c, S) \in SUBSET PomFiles /\ S \subseteq Spread(c, S)
BY EntriesTyped DEF Spread, ModulesOf

LEMMA ReachableStages ==
    ASSUME NEW c, Poms(c)
    PROVE  \E r : Stages(r, c) /\ ReachableIn(c) = r[Cardinality(PomFiles)]
<1> DEFINE N == Cardinality(PomFiles)
           Is(r) == r = [n \in 0 .. N |->
               IF n = 0 THEN {p \in {RootPom} : Readable(p)}
               ELSE r[n - 1] \cup {p \in ModulesOf(c, r[n - 1]) : Readable(p)}]
           r == CHOOSE r : Is(r)
           g == [x \in (1 .. N) \X SUBSET PomFiles |-> Spread(c, x[2])]
<1>1. N \in Nat
  BY ReactorAssumption, FS_CardinalityType
<1>2. ReachableIn(c) = r[N]
  BY DEF ReachableIn
<1> HIDE DEF N
<1>3. g \in [(1 .. N) \X SUBSET PomFiles -> SUBSET PomFiles]
      /\ \A k \in 1 .. N, S \in SUBSET PomFiles : g[<<k, S>>] = Spread(c, S)
  BY SpreadTyped
<1>4. AtRoot \in SUBSET PomFiles
  BY ReactorAssumption DEF AtRoot
<1>5. PICK f : Recursion(f, SUBSET PomFiles, AtRoot, g, N)
  <2> HIDE DEF g, Is, r
  <2> QED BY <1>1, <1>3, <1>4, RecursionExists
<1>f. f \in [0 .. N -> SUBSET PomFiles] /\ f[0] = AtRoot
       /\ \A k \in 1 .. N : f[k] = g[<<k, f[k - 1]>>]
  BY <1>5 DEF Recursion
<1>6. \A k \in 1 .. N : f[k] = Spread(c, f[k - 1])
  <2> HIDE DEF g
  <2>1. ASSUME NEW k \in 1 .. N PROVE f[k] = Spread(c, f[k - 1])
    <3>1. k - 1 \in 0 .. N
      BY <1>1
    <3>2. f[k - 1] \in SUBSET PomFiles
      BY <1>f, <3>1
    <3>3. g[<<k, f[k - 1]>>] = Spread(c, f[k - 1])
      BY <1>3, <3>2
    <3> QED BY <1>f, <3>3
  <2> QED BY <2>1
<1>7. Is(f)
  <2>1. \A k \in 0 .. N : k = 0 \/ k \in 1 .. N
    BY <1>1
  <2>2. \A n \in 0 .. N : f[n] = IF n = 0 THEN AtRoot ELSE Spread(c, f[n - 1])
    BY <1>f, <1>6, <2>1
  <2>3. f = [n \in 0 .. N |-> IF n = 0 THEN AtRoot ELSE Spread(c, f[n - 1])]
    BY <1>f, <2>2
  <2> QED BY <2>3 DEF AtRoot, Spread
<1>8. Is(r)
  <2> HIDE DEF Is
  <2> QED BY <1>7
<1>9. r[0] = AtRoot /\ \A k \in 1 .. N : r[k] = Spread(c, r[k - 1])
  <2> HIDE DEF r
  <2>1. r = [n \in 0 .. N |-> IF n = 0 THEN AtRoot ELSE Spread(c, r[n - 1])]
    BY <1>8 DEF AtRoot, Spread
  <2>2. 0 \in 0 .. N /\ \A k \in 1 .. N : k \in 0 .. N /\ k # 0
    BY <1>1
  <2> HIDE DEF Is
  <2>3. \A n \in 0 .. N : r[n] = IF n = 0 THEN AtRoot ELSE Spread(c, r[n - 1])
    BY <2>1
  <2> QED BY <2>2, <2>3
<1>10. r = [k \in 0 .. N |-> r[k]]
  <2> HIDE DEF r
  <2> QED BY <1>8
<1> HIDE DEF r, Is
<1>11. Recursion(r, SUBSET PomFiles, AtRoot, g, N)
  <2>1. \A k \in 1 .. N : r[k - 1] \in SUBSET PomFiles => r[k] = g[<<k, r[k - 1]>>]
    <3> HIDE DEF g
    <3> QED BY <1>3, <1>9
  <2> HIDE DEF g
  <2> QED BY <1>1, <1>3, <1>4, <1>9, <1>10, <2>1, RecursionRuns
<1>12. Stages(r, c)
  <2> HIDE DEF g
  <2> QED BY <1>9, <1>11 DEF Stages, Recursion, N
<1> QED BY <1>2, <1>12 DEF N

\* As many stages as there are poms are enough: each one adds a pom, or the next ones do
\* not either.
LEMMA StagesClose ==
    ASSUME NEW c, Poms(c), NEW r, Stages(r, c)
    PROVE  Spread(c, r[Cardinality(PomFiles)]) = r[Cardinality(PomFiles)]
<1> DEFINE N == Cardinality(PomFiles)
           Shut(k) == Spread(c, r[k]) = r[k]
           Q == {k \in Nat : k <= N => Shut(k) \/ Cardinality(r[k]) >= k + 1}
<1>1. N \in Nat /\ IsFiniteSet(PomFiles)
  BY ReactorAssumption, FS_CardinalityType
<1>2. \A k \in 0 .. N : /\ r[k] \in SUBSET PomFiles /\ IsFiniteSet(r[k])
                        /\ Cardinality(r[k]) \in Nat /\ Cardinality(r[k]) <= N
  <2>1. \A k \in 0 .. N : r[k] \in SUBSET PomFiles
    BY DEF Stages
  <2> QED BY <1>1, <2>1, FS_Subset, FS_CardinalityType
<1>3. 0 \in Q
  <2>1. r[0] = AtRoot /\ (AtRoot = {} \/ AtRoot = {RootPom})
    BY DEF Stages, AtRoot
  <2>2. CASE AtRoot = {}
    <3>1. Spread(c, {}) = {}
      BY DEF Spread, ModulesOf
    <3> QED BY <2>1, <2>2, <3>1
  <2>3. CASE AtRoot = {RootPom}
    <3>1. Cardinality(r[0]) = 1
      BY <2>1, <2>3, FS_Singleton
    <3> QED BY <3>1
  <2> QED BY <2>1, <2>2, <2>3
<1>4. ASSUME NEW k \in Nat, k \in Q PROVE k + 1 \in Q
  <2> SUFFICES ASSUME k + 1 <= N PROVE Shut(k + 1) \/ Cardinality(r[k + 1]) >= (k + 1) + 1
    OBVIOUS
  <2> DEFINE i == k + 1
  <2>1. i \in 1 .. N /\ i - 1 = k /\ k \in 0 .. N /\ i \in 0 .. N
    BY <1>1
  <2>2. Shut(k) \/ Cardinality(r[k]) >= i
    BY <1>1, <1>4
  <2> HIDE DEF Q
  <2>3. r[i] = Spread(c, r[k])
    <3> HIDE DEF i
    <3> QED BY <2>1 DEF Stages
  <2>4. CASE Shut(k)
    <3>1. r[i] = r[k]
      BY <2>3, <2>4
    <3>2. Shut(i)
      <4> HIDE DEF i
      <4> QED BY <2>4, <3>1
    <3> QED BY <3>2
  <2>5. CASE ~Shut(k)
    <3> HIDE DEF i
    <3>1. r[k] \in SUBSET r[i] /\ r[k] # r[i] /\ IsFiniteSet(r[i]) /\ Cardinality(r[i]) \in Nat
      BY <1>2, <2>1, <2>3, <2>5, SpreadTyped
    <3>2. Cardinality(r[k]) <= Cardinality(r[i]) /\ Cardinality(r[k]) # Cardinality(r[i])
      BY <3>1, FS_Subset
    <3>3. Cardinality(r[k]) \in Nat /\ Cardinality(r[k]) >= i /\ i \in Nat
      BY <1>2, <2>1, <2>2, <2>5
    <3>4. Cardinality(r[i]) >= i + 1
      BY <3>1, <3>2, <3>3
    <3> QED BY <3>4 DEF i
  <2> QED BY <2>4, <2>5
<1>5. Nat \subseteq Q
  <2> HIDE DEF Q
  <2> QED BY <1>3, <1>4, SetInduction
<1>6. N \in 0 .. N /\ N <= N
  BY <1>1
<1>7. Shut(N) \/ Cardinality(r[N]) >= N + 1
  BY <1>1, <1>5, <1>6
<1>8. ~(Cardinality(r[N]) >= N + 1)
  <2>1. Cardinality(r[N]) \in Nat /\ Cardinality(r[N]) <= N
    BY <1>2, <1>6
  <2> QED BY <1>1, <2>1
<1> QED BY <1>7, <1>8

\* The reachable poms are the least set that holds the root and, with a valid pom, the
\* modules it lists.
LEMMA ReachableFacts ==
    ASSUME NEW c, Poms(c)
    PROVE  /\ ReachableIn(c) \subseteq PomFiles /\ \A p \in ReachableIn(c) : Readable(p)
           /\ Readable(RootPom) => RootPom \in ReachableIn(c)
           /\ \A p \in ReachableIn(c) : c[p].valid =>
                 \A q \in ToSet(ModuleEntries(c[p])) : Readable(q) => q \in ReachableIn(c)
           /\ \A S : /\ Readable(RootPom) => RootPom \in S
                     /\ \A p \in S : p \in ReachableIn(c) /\ c[p].valid =>
                           \A q \in ToSet(ModuleEntries(c[p])) : Readable(q) => q \in S
                     => ReachableIn(c) \subseteq S
<1> DEFINE N == Cardinality(PomFiles)
           R == ReachableIn(c)
<1>1. N \in Nat
  BY ReactorAssumption, FS_CardinalityType
<1>2. PICK r : Stages(r, c) /\ R = r[N]
  BY ReachableStages
<1>3. Spread(c, R) = R
  BY <1>2, StagesClose
<1> HIDE DEF N, R
<1>4. /\ \A k \in 0 .. N : r[k] \in SUBSET PomFiles
      /\ r[0] = AtRoot /\ \A k \in 1 .. N : r[k] = Spread(c, r[k - 1])
  BY <1>2 DEF Stages, N
\* What every stage has, the last one has.
<1>5. ASSUME NEW P, AtRoot \subseteq P,
             \A S \in SUBSET PomFiles : S \subseteq P /\ S \subseteq R => Spread(c, S) \subseteq P
      PROVE  R \subseteq P
  <2> DEFINE Q == {k \in Nat : k <= N => r[k] \subseteq P /\ r[k] \subseteq R}
  <2>0. \A j \in Nat : j <= N => r[N - j] \subseteq R
    <3> DEFINE D == {j \in Nat : j <= N => r[N - j] \subseteq R}
    <3>1. 0 \in D
      BY <1>1, <1>2
    <3>2. ASSUME NEW j \in Nat, j \in D PROVE j + 1 \in D
      <4> SUFFICES ASSUME j + 1 <= N PROVE r[N - (j + 1)] \subseteq R
        OBVIOUS
      <4> DEFINE i == N - j
                 h == N - (j + 1)
      <4>1. i \in 1 .. N /\ i - 1 = h /\ h \in 0 .. N /\ r[i] \subseteq R
        BY <1>1, <3>2
      <4> HIDE DEF i, h, D
      <4>2. r[i] = Spread(c, r[h]) /\ r[h] \in SUBSET PomFiles
        BY <1>4, <4>1
      <4>3. r[h] \subseteq R
        BY <4>1, <4>2, SpreadTyped
      <4> QED BY <4>3 DEF h
    <3>3. Nat \subseteq D
      <4> HIDE DEF D
      <4> QED BY <3>1, <3>2, SetInduction
    <3> QED BY <3>3
  <2>1. \A k \in 0 .. N : r[k] \subseteq R
    <3> TAKE k \in 0 .. N
    <3> DEFINE j == N - k
    <3>1. j \in Nat /\ j <= N /\ N - j = k
      BY <1>1
    <3> HIDE DEF j
    <3> QED BY <2>0, <3>1
  <2>2. 0 \in Q
    BY <1>1, <1>4, <1>5, <2>1
  <2>3. ASSUME NEW k \in Nat, k \in Q PROVE k + 1 \in Q
    <3> SUFFICES ASSUME k + 1 <= N PROVE r[k + 1] \subseteq P /\ r[k + 1] \subseteq R
      OBVIOUS
    <3> DEFINE i == k + 1
    <3>1. i \in 1 .. N /\ i \in 0 .. N /\ i - 1 = k /\ k \in 0 .. N /\ r[k] \subseteq P
      BY <1>1, <2>3
    <3> HIDE DEF i, Q
    <3>2. r[i] = Spread(c, r[k])
      BY <1>4, <3>1
    <3>3. r[i] \subseteq P /\ r[i] \subseteq R
      BY <1>4, <1>5, <2>1, <3>1, <3>2
    <3> QED BY <3>3 DEF i
  <2>4. Nat \subseteq Q
    <3> HIDE DEF Q
    <3> QED BY <2>2, <2>3, SetInduction
  <2> QED BY <1>1, <1>2, <2>4
<1>6. R \subseteq PomFiles
  BY <1>1, <1>2, <1>4
<1>7. \A p \in R : Readable(p)
  <2> DEFINE P == {p \in PomFiles : Readable(p)}
  <2>1. AtRoot \subseteq P
    BY ReactorAssumption DEF AtRoot
  <2>2. \A S \in SUBSET PomFiles : S \subseteq P /\ S \subseteq R => Spread(c, S) \subseteq P
    BY SpreadTyped DEF Spread
  <2>3. R \subseteq P
    <3> HIDE DEF P
    <3> QED BY <2>1, <2>2, <1>5
  <2> QED BY <2>3
<1>8. Readable(RootPom) => RootPom \in R
  <2>1. \A k \in Nat : k <= N => AtRoot \subseteq r[k]
    <3> DEFINE Q == {k \in Nat : k <= N => AtRoot \subseteq r[k]}
    <3>1. 0 \in Q
      BY <1>4
    <3>2. ASSUME NEW k \in Nat, k \in Q PROVE k + 1 \in Q
      <4> SUFFICES ASSUME k + 1 <= N PROVE AtRoot \subseteq r[k + 1]
        OBVIOUS
      <4> DEFINE i == k + 1
      <4>1. i \in 1 .. N /\ i - 1 = k /\ k \in 0 .. N /\ AtRoot \subseteq r[k]
        BY <1>1, <3>2
      <4> HIDE DEF i, Q
      <4>2. r[i] = Spread(c, r[k]) /\ r[k] \in SUBSET PomFiles
        BY <1>4, <4>1
      <4>3. AtRoot \subseteq r[i]
        BY <4>1, <4>2, SpreadTyped
      <4> QED BY <4>3 DEF i
    <3>3. Nat \subseteq Q
      <4> HIDE DEF Q
      <4> QED BY <3>1, <3>2, SetInduction
    <3> QED BY <3>3
  <2>2. AtRoot \subseteq R
    BY <1>1, <1>2, <2>1
  <2> QED BY <2>2 DEF AtRoot
<1>9. \A p \in R : c[p].valid => \A q \in ToSet(ModuleEntries(c[p])) : Readable(q) => q \in R
  BY <1>3 DEF Spread, ModulesOf
<1>10. ASSUME NEW S, Readable(RootPom) => RootPom \in S,
              \A p \in S : p \in R /\ c[p].valid =>
                    \A q \in ToSet(ModuleEntries(c[p])) : Readable(q) => q \in S
       PROVE  R \subseteq S
  <2>1. AtRoot \subseteq S
    BY <1>10 DEF AtRoot
  <2>2. \A T \in SUBSET PomFiles : T \subseteq S /\ T \subseteq R => Spread(c, T) \subseteq S
    BY <1>10 DEF Spread, ModulesOf
  <2> QED BY <1>5, <2>1, <2>2
<1> QED BY <1>6, <1>7, <1>8, <1>9, <1>10 DEF R

----------------------------------------------------------------------------
(* Inductive invariant of the walk. What is found comes from reachable     *)
(* poms; when no directory has two of them, what is reachable is read or   *)
(* still to be read. That is not needed of a walk that is cut short.       *)

Met(p) == p \in ToSet(queue) \/ DirOf[p] \in seen
QueueIsReachable ==
    /\ queue \in Seq(PomFiles)
    /\ \A p \in ToSet(queue) : Readable(p) => p \in Reachable
FoundIsReachable ==
    /\ IsFiniteSet(seen)
    /\ \A x \in found : x[2] \in seen /\ \E p \in Reachable :
           /\ poms[p].valid /\ poms[p].ga # NoGA /\ x = <<poms[p].ga, DirOf[p]>>
           /\ poms[p].modules = <<>> \/ poms[p].ga \in aggregators
    /\ \A a \in aggregators : \E p \in Reachable :
           poms[p].valid /\ poms[p].ga # NoGA /\ poms[p].ga = a /\ poms[p].modules # <<>>
Recorded(p) ==
    poms[p].valid =>
        /\ \A q \in ToSet(ModuleEntries(poms[p])) : Readable(q) => Met(q)
        /\ poms[p].ga # NoGA =>
              /\ <<poms[p].ga, DirOf[p]>> \in found
              /\ poms[p].modules # <<>> => poms[p].ga \in aggregators
ReachableIsMet ==
    OnePomPerDirectory =>
        /\ Readable(RootPom) => Met(RootPom)
        /\ \A p \in Reachable : DirOf[p] \in seen => Recorded(p)
AllDeps == UNION {ToSet(poms[p].deps) : p \in PomFiles}
DeclaredIsTyped ==
    /\ \A d \in DOMAIN declared : declared[d].deps \in Seq(AllDeps)
    /\ \A x \in found : x[2] \in DOMAIN declared
DoneIsResolved ==
    done => /\ truncated \/ queue = <<>>
            /\ located = {x \in found : Unique(x[1])}
            /\ modules = {x \in located : x[1] \notin aggregators}
WalkInv == Poms(poms) /\ QueueIsReachable /\ FoundIsReachable /\ ReachableIsMet
           /\ DeclaredIsTyped /\ DoneIsResolved

----------------------------------------------------------------------------
(* The elements of a queue.                                                *)

LEMMA HeadAndTail ==
    ASSUME NEW S, NEW s \in Seq(S), s # <<>>
    PROVE  Head(s) \in S /\ Tail(s) \in Seq(S) /\ ToSet(s) = {Head(s)} \cup ToSet(Tail(s))
<1>1. Len(s) \in Nat /\ Len(s) # 0 /\ DOMAIN s = 1 .. Len(s) /\ Head(s) = s[1]
  OBVIOUS
<1>2. Tail(s) \in Seq(S) /\ Len(Tail(s)) = Len(s) - 1
      /\ \A i \in 1 .. Len(s) - 1 : Tail(s)[i] = s[i + 1]
  OBVIOUS
<1>3. DOMAIN Tail(s) = 1 .. Len(s) - 1
  BY <1>2
<1>4. \A i \in 1 .. Len(s) : i = 1 \/ (i - 1 \in 1 .. Len(s) - 1 /\ (i - 1) + 1 = i)
  BY <1>1
<1>5. \A i \in 1 .. Len(s) - 1 : i + 1 \in 1 .. Len(s)
  BY <1>1
<1>6. 1 \in 1 .. Len(s)
  BY <1>1
<1>7. ToSet(s) \subseteq {Head(s)} \cup ToSet(Tail(s))
  <2>1. ASSUME NEW i \in 1 .. Len(s) PROVE s[i] \in {Head(s)} \cup ToSet(Tail(s))
    <3> DEFINE j == i - 1
    <3>1. i = 1 \/ (j \in 1 .. Len(s) - 1 /\ j + 1 = i)
      BY <1>4
    <3> HIDE DEF j
    <3>2. i # 1 => s[i] = Tail(s)[j] /\ j \in DOMAIN Tail(s)
      BY <1>2, <1>3, <3>1
    <3> QED BY <1>1, <3>2 DEF ToSet
  <2> QED BY <1>1, <2>1 DEF ToSet
<1>8. ToSet(Tail(s)) \subseteq ToSet(s)
  BY <1>1, <1>2, <1>3, <1>5 DEF ToSet
<1>9. Head(s) \in ToSet(s) /\ Head(s) \in S
  BY <1>1, <1>6 DEF ToSet
<1> QED BY <1>2, <1>7, <1>8, <1>9

LEMMA JoinedSet ==
    ASSUME NEW S, NEW s \in Seq(S), NEW t \in Seq(S)
    PROVE  s \o t \in Seq(S) /\ ToSet(s \o t) = ToSet(s) \cup ToSet(t)
<1> DEFINE u == s \o t
<1>1. /\ Len(s) \in Nat /\ Len(t) \in Nat /\ u \in Seq(S) /\ Len(u) = Len(s) + Len(t)
      /\ DOMAIN s = 1 .. Len(s) /\ DOMAIN t = 1 .. Len(t)
  OBVIOUS
<1>2. /\ \A i \in 1 .. Len(s) : u[i] = s[i]
      /\ \A i \in 1 .. Len(t) : u[Len(s) + i] = t[i]
  OBVIOUS
<1> HIDE DEF u
<1>3. DOMAIN u = 1 .. Len(s) + Len(t)
  BY <1>1
<1>4. /\ \A i \in 1 .. Len(s) : i \in 1 .. Len(s) + Len(t)
      /\ \A i \in 1 .. Len(t) : Len(s) + i \in 1 .. Len(s) + Len(t)
  BY <1>1
<1>5. \A i \in 1 .. Len(s) + Len(t) :
         i \in 1 .. Len(s) \/ (i - Len(s) \in 1 .. Len(t) /\ Len(s) + (i - Len(s)) = i)
  BY <1>1
<1>6. ToSet(u) \subseteq ToSet(s) \cup ToSet(t)
  <2>1. ASSUME NEW i \in 1 .. Len(s) + Len(t) PROVE u[i] \in ToSet(s) \cup ToSet(t)
    <3> DEFINE j == i - Len(s)
    <3>1. i \in 1 .. Len(s) \/ (j \in 1 .. Len(t) /\ Len(s) + j = i)
      BY <1>5
    <3> HIDE DEF j
    <3>2. i \notin 1 .. Len(s) => u[i] = t[j] /\ j \in DOMAIN t
      BY <1>1, <1>2, <3>1
    <3> QED BY <1>1, <1>2, <3>2 DEF ToSet
  <2> QED BY <1>3, <2>1 DEF ToSet
<1>7. ToSet(s) \subseteq ToSet(u)
  BY <1>1, <1>2, <1>3, <1>4 DEF ToSet
<1>8. ToSet(t) \subseteq ToSet(u)
  BY <1>1, <1>2, <1>3, <1>4 DEF ToSet
<1> QED BY <1>1, <1>6, <1>7, <1>8 DEF u

----------------------------------------------------------------------------
(* The steps of the walk.                                                  *)

LEMMA SameCheckout ==
    ASSUME poms' = poms
    PROVE  Reachable' = Reachable /\ (OnePomPerDirectory' <=> OnePomPerDirectory)
<1>1. Reachable' = Reachable
  BY DEF Reachable
<1> QED BY <1>1 DEF OnePomPerDirectory

LEMMA WalkStarts == ReactorInit => WalkInv
<1> SUFFICES ASSUME ReactorInit PROVE WalkInv
  OBVIOUS
<1> USE DEF ReactorInit, ReactorStarts
<1>1. Poms(poms)
  BY CheckoutsTyped DEF Poms
<1>2. queue \in Seq(PomFiles) /\ ToSet(queue) = {RootPom}
  BY ReactorAssumption DEF ToSet
<1>3. QueueIsReachable
  BY <1>1, <1>2, ReachableFacts DEF QueueIsReachable, Reachable
<1>4. FoundIsReachable
  BY FS_EmptySet DEF FoundIsReachable
<1>5. ReachableIsMet
  BY <1>2 DEF ReachableIsMet, Met
<1>6. DoneIsResolved
  BY DEF DoneIsResolved
<1>7. DeclaredIsTyped
  BY DEF DeclaredIsTyped
<1> QED BY <1>1, <1>3, <1>4, <1>5, <1>6, <1>7 DEF WalkInv

\* A step that only decides.
LEMMA DecideKeeps ==
    ASSUME WalkInv, StopEarly \/ ResolveFound
    PROVE  WalkInv'
<1> USE DEF WalkInv
<1>1. UNCHANGED <<poms, queue, seen, found, aggregators, declared>>
  BY DEF StopEarly, ResolveFound
<1>2. Reachable' = Reachable /\ (OnePomPerDirectory' <=> OnePomPerDirectory)
  BY <1>1, SameCheckout
<1>3. Poms(poms)'
  BY <1>1 DEF Poms
<1>4. QueueIsReachable'
  BY <1>1, <1>2 DEF QueueIsReachable, Readable
<1>5. FoundIsReachable'
  BY <1>1, <1>2 DEF FoundIsReachable
<1>6. ReachableIsMet'
  BY <1>1, <1>2 DEF ReachableIsMet, Met, Recorded, Readable, ModuleEntries
<1>7. DoneIsResolved'
  <2>1. CASE StopEarly
    BY <2>1 DEF StopEarly, resolvedVars, DoneIsResolved
  <2>2. CASE ResolveFound
    <3>1. \A ga : Unique(ga)' <=> Unique(ga)
      BY <1>1 DEF Unique, DirsOf
    <3> QED BY <1>1, <2>2, <3>1 DEF ResolveFound, DoneIsResolved
  <2> QED BY <2>1, <2>2
<1>8. DeclaredIsTyped'
  BY <1>1 DEF DeclaredIsTyped, AllDeps
<1> QED BY <1>3, <1>4, <1>5, <1>6, <1>7, <1>8

LEMMA SkipKeeps ==
    ASSUME WalkInv, SkipPom
    PROVE  WalkInv'
<1> USE DEF WalkInv
<1> DEFINE h == Head(queue)
           rest == Tail(queue)
<1>1. /\ ~done /\ ~done' /\ queue # <<>> /\ queue' = rest /\ ~Admitted(h)
      /\ UNCHANGED <<poms, seen, found, aggregators, declared>>
  BY DEF SkipPom, Walking, resolvedVars
<1>2. Reachable' = Reachable /\ (OnePomPerDirectory' <=> OnePomPerDirectory)
  BY <1>1, SameCheckout
<1>3. h \in PomFiles /\ rest \in Seq(PomFiles) /\ ToSet(queue) = {h} \cup ToSet(rest)
  BY <1>1, HeadAndTail DEF QueueIsReachable
<1> HIDE DEF h, rest
<1>4. Poms(poms)'
  BY <1>1 DEF Poms
<1>5. QueueIsReachable'
  BY <1>1, <1>2, <1>3 DEF QueueIsReachable, Readable
<1>6. FoundIsReachable'
  BY <1>1, <1>2 DEF FoundIsReachable
<1>7. ReachableIsMet'
  <2>1. \A q : Readable(q) /\ Met(q) => Met(q)'
    BY <1>1, <1>3 DEF Met, Admitted, Readable
  <2>2. \A p \in Reachable : Recorded(p) => Recorded(p)'
    BY <1>1, <2>1 DEF Recorded, Readable, ModuleEntries
  <2> QED BY <1>1, <1>2, <2>1, <2>2 DEF ReachableIsMet, Readable
<1>8. DoneIsResolved'
  BY <1>1 DEF DoneIsResolved
<1>9. DeclaredIsTyped'
  BY <1>1 DEF DeclaredIsTyped, AllDeps
<1> QED BY <1>4, <1>5, <1>6, <1>7, <1>8, <1>9

LEMMA ReadKeeps ==
    ASSUME WalkInv, ReadPom
    PROVE  WalkInv'
<1> USE DEF WalkInv
<1> PICK h : h = Head(queue)
  OBVIOUS
<1> DEFINE rest == Tail(queue)
           pom == poms[h]
           E == ModuleEntries(poms[h])
           dir == DirOf[h]
<1>1. /\ ~done /\ ~done' /\ queue # <<>> /\ Admitted(h) /\ poms' = poms /\ seen' = seen \cup {dir}
  BY DEF ReadPom, Walking, resolvedVars
<1>2. Reachable' = Reachable /\ (OnePomPerDirectory' <=> OnePomPerDirectory)
  BY <1>1, SameCheckout
<1>3. h \in PomFiles /\ rest \in Seq(PomFiles) /\ ToSet(queue) = {h} \cup ToSet(rest)
  BY <1>1, HeadAndTail DEF QueueIsReachable
<1>4. Readable(h) /\ h \in Reachable
  BY <1>1, <1>3 DEF Admitted, Readable, QueueIsReachable
<1>5. /\ E \in Seq(PomFiles)
      /\ pom.valid => \A q \in ToSet(E) : Readable(q) => q \in Reachable
  BY <1>3, <1>4, EntriesTyped, ReachableFacts DEF Reachable
<1>6. IF pom.valid
      THEN /\ found' = found \cup (IF pom.ga = NoGA THEN {} ELSE {<<pom.ga, dir>>})
           /\ aggregators' = aggregators \cup
                  (IF pom.ga = NoGA \/ pom.modules = <<>> THEN {} ELSE {pom.ga})
           /\ queue' = rest \o E
      ELSE queue' = rest /\ found' = found /\ aggregators' = aggregators
  BY DEF ReadPom
<1>7. /\ found \subseteq found' /\ aggregators \subseteq aggregators'
      /\ queue' \in Seq(PomFiles)
      /\ ToSet(queue') = ToSet(rest) \cup (IF pom.valid THEN ToSet(E) ELSE {})
  <2> HIDE DEF rest, E
  <2>1. rest \o E \in Seq(PomFiles) /\ ToSet(rest \o E) = ToSet(rest) \cup ToSet(E)
    BY <1>3, <1>5, JoinedSet
  <2> DEFINE both == rest \o E
  <2>2. both \in Seq(PomFiles) /\ ToSet(both) = ToSet(rest) \cup ToSet(E)
    BY <2>1
  <2>3. pom.valid => queue' = both
    BY <1>6
  <2> HIDE DEF both
  <2> QED BY <1>3, <1>6, <2>2, <2>3
<1> HIDE DEF rest, E
<1>8. Poms(poms)'
  BY <1>1 DEF Poms
<1>9. QueueIsReachable'
  BY <1>1, <1>2, <1>3, <1>5, <1>7 DEF QueueIsReachable, Readable
<1>10. FoundIsReachable'
  <2>1. IsFiniteSet(seen')
    BY <1>1, FS_AddElement DEF FoundIsReachable
  <2>2. ASSUME NEW x \in found'
        PROVE  x[2] \in seen' /\ \E p \in Reachable :
                  /\ poms[p].valid /\ poms[p].ga # NoGA /\ x = <<poms[p].ga, DirOf[p]>>
                  /\ poms[p].modules = <<>> \/ poms[p].ga \in aggregators'
    <3>1. CASE x \in found
      BY <1>1, <1>7, <3>1 DEF FoundIsReachable
    <3>2. CASE x \notin found
      <4>1. pom.valid /\ pom.ga # NoGA /\ x = <<pom.ga, dir>>
        BY <1>6, <3>2
      <4>2. pom.modules = <<>> \/ pom.ga \in aggregators'
        BY <1>6, <4>1
      <4> QED BY <1>1, <1>4, <4>1, <4>2
    <3> QED BY <3>1, <3>2
  <2>3. ASSUME NEW a \in aggregators'
        PROVE  \E p \in Reachable :
                  poms[p].valid /\ poms[p].ga # NoGA /\ poms[p].ga = a /\ poms[p].modules # <<>>
    <3>1. CASE a \in aggregators
      BY <3>1 DEF FoundIsReachable
    <3>2. CASE a \notin aggregators
      <4>1. pom.valid /\ pom.ga # NoGA /\ a = pom.ga /\ pom.modules # <<>>
        BY <1>6, <3>2
      <4> QED BY <1>4, <4>1
    <3> QED BY <3>1, <3>2
  <2> QED BY <1>1, <1>2, <2>1, <2>2, <2>3 DEF FoundIsReachable
<1>11. ReachableIsMet'
  <2>1. \A q : Met(q) => Met(q)'
    BY <1>1, <1>3, <1>7 DEF Met
  <2>2. ASSUME NEW p \in Reachable, Recorded(p) PROVE Recorded(p)'
    BY <1>1, <1>7, <2>1, <2>2 DEF Recorded, Readable, ModuleEntries
  <2>3. Recorded(h)'
    <3> SUFFICES ASSUME pom.valid PROVE Recorded(h)'
      BY <1>1 DEF Recorded
    <3>1. \A q \in ToSet(E) : Met(q)'
      BY <1>7 DEF Met
    <3>2. pom.ga # NoGA => /\ <<pom.ga, dir>> \in found'
                           /\ pom.modules # <<>> => pom.ga \in aggregators'
      BY <1>6
    <3> QED BY <1>1, <3>1, <3>2 DEF Recorded, E, ModuleEntries
  <2>4. ASSUME OnePomPerDirectory, NEW p \in Reachable, DirOf[p] \in seen' PROVE Recorded(p)'
    <3>1. CASE DirOf[p] \in seen
      BY <2>2, <2>4, <3>1 DEF ReachableIsMet
    <3>2. CASE DirOf[p] \notin seen
      <4>1. p = h
        BY <1>1, <1>4, <2>4, <3>2 DEF OnePomPerDirectory
      <4> QED BY <2>3, <4>1
    <3> QED BY <3>1, <3>2
  <2> QED BY <1>1, <1>2, <2>1, <2>4 DEF ReachableIsMet, Readable
<1>12. DoneIsResolved'
  BY <1>1 DEF DoneIsResolved
<1>13. DeclaredIsTyped'
  <2>1. AllDeps' = AllDeps
    BY <1>1 DEF AllDeps
  <2>2. poms[h].deps \in Seq(AllDeps)
    <3> DEFINE own == ToSet(poms[h].deps)
               deps == poms[h].deps
    <3>1. deps \in Seq(own) /\ own \subseteq AllDeps
      BY <1>3 DEF Poms, AllDeps
    <3> HIDE DEF own, deps
    <3>2. \A i \in 1 .. Len(deps) : deps[i] \in AllDeps
      BY <3>1
    <3>3. deps \in Seq(AllDeps)
      BY <3>1, <3>2
    <3> QED BY <3>3 DEF deps
  <2>3. CASE ~pom.valid
    <3>1. declared' = declared /\ found' = found
      BY <2>3 DEF ReadPom
    <3> QED BY <2>1, <3>1 DEF DeclaredIsTyped
  <2>4. CASE pom.valid
    <3>1. declared' = [d \in DOMAIN declared \cup {dir} |->
              IF d = dir THEN [parent |-> pom.parent, deps |-> pom.deps] ELSE declared[d]]
      BY <2>4 DEF ReadPom
    <3>2. DOMAIN declared' = DOMAIN declared \cup {dir}
      BY <3>1
    <3>3. ASSUME NEW d \in DOMAIN declared' PROVE declared'[d].deps \in Seq(AllDeps)
      <4>1. CASE d = dir
        <5>1. declared'[d] = [parent |-> pom.parent, deps |-> pom.deps]
          BY <3>1, <4>1
        <5> QED BY <2>2, <5>1
      <4>2. CASE d # dir
        <5>1. d \in DOMAIN declared /\ declared'[d] = declared[d]
          BY <3>1, <3>2, <4>2
        <5> QED BY <5>1 DEF DeclaredIsTyped
      <4> QED BY <4>1, <4>2
    <3>4. \A x \in found' : x \in found \/ x[2] = dir
      BY <1>6, <2>4
    <3>5. \A x \in found' : x[2] \in DOMAIN declared'
      BY <3>2, <3>4 DEF DeclaredIsTyped
    <3> QED BY <2>1, <3>3, <3>5 DEF DeclaredIsTyped
  <2> QED BY <2>3, <2>4
<1> QED BY <1>8, <1>9, <1>10, <1>11, <1>12, <1>13

LEMMA WalkInvAlways == ReactorSpec => []WalkInv
<1>1. ASSUME WalkInv, [ReactorNext]_reactorVars PROVE WalkInv'
  <2>1. CASE StopEarly \/ ResolveFound
    BY <1>1, <2>1, DecideKeeps
  <2>2. CASE SkipPom
    BY <1>1, <2>2, SkipKeeps
  <2>3. CASE ReadPom
    BY <1>1, <2>3, ReadKeeps
  <2>4. CASE UNCHANGED reactorVars
    <3> USE <1>1, <2>4 DEF reactorVars, indexVars
    <3>1. Reachable' = Reachable /\ (OnePomPerDirectory' <=> OnePomPerDirectory)
      BY SameCheckout
    <3>2. Poms(poms)' /\ QueueIsReachable'
      BY <3>1 DEF WalkInv, Poms, QueueIsReachable, Readable
    <3>3. FoundIsReachable'
      BY <3>1 DEF WalkInv, FoundIsReachable
    <3>4. ReachableIsMet'
      BY <3>1 DEF WalkInv, ReachableIsMet, Met, Recorded, Readable, ModuleEntries
    <3>5. DoneIsResolved' /\ DeclaredIsTyped'
      BY DEF WalkInv, DoneIsResolved, Unique, DirsOf, DeclaredIsTyped, AllDeps
    <3> QED BY <3>2, <3>3, <3>4, <3>5 DEF WalkInv
  <2> QED BY <1>1, <2>1, <2>2, <2>3, <2>4 DEF ReactorNext
<1> QED BY <1>1, WalkStarts, PTL DEF ReactorSpec

----------------------------------------------------------------------------
(* What the finished index says.                                           *)

\* When the walk was not cut short, the directories found for a coordinate are those of
\* the reachable poms that declare it.
LEMMA WholeWalk ==
    ASSUME WalkInv, done, ~truncated, OnePomPerDirectory, NEW ga, ga # NoGA
    PROVE  DirsOf(ga) = {DirOf[p] : p \in Declaring(ga)}
<1> USE DEF WalkInv
<1>1. queue = <<>> /\ ToSet(queue) = {}
  BY DEF DoneIsResolved, ToSet
<1>2. \A p \in Reachable : DirOf[p] \in seen /\ Recorded(p)
  <2> DEFINE S == {p \in PomFiles : DirOf[p] \in seen}
  <2>1. Readable(RootPom) => RootPom \in S
    BY <1>1, ReactorAssumption DEF ReachableIsMet, Met
  <2>2. \A p \in S : p \in Reachable /\ poms[p].valid =>
            \A q \in ToSet(ModuleEntries(poms[p])) : Readable(q) => q \in S
    BY <1>1, EntriesTyped DEF ReachableIsMet, Met, Recorded
  <2> HIDE DEF S
  <2>3. Reachable \subseteq S
    BY <2>1, <2>2, ReachableFacts DEF Reachable
  <2> QED BY <2>3 DEF S, ReachableIsMet
<1>3. ASSUME NEW d \in DirsOf(ga) PROVE d \in {DirOf[p] : p \in Declaring(ga)}
  BY DEF DirsOf, FoundIsReachable, Declaring
<1>4. ASSUME NEW p \in Declaring(ga) PROVE DirOf[p] \in DirsOf(ga)
  <2>1. <<ga, DirOf[p]>> \in found
    BY <1>2 DEF Declaring, Recorded
  <2> QED BY <2>1 DEF DirsOf
<1> QED BY <1>3, <1>4

LEMMA FiniteDirs == WalkInv => \A ga : IsFiniteSet(DirsOf(ga))
BY FS_Subset DEF WalkInv, FoundIsReachable, DirsOf

LEMMA FiniteDeclaring == WalkInv => \A ga : IsFiniteSet(Declaring(ga))
<1> SUFFICES ASSUME WalkInv, NEW ga PROVE IsFiniteSet(Declaring(ga))
  OBVIOUS
<1>1. Declaring(ga) \in SUBSET PomFiles
  BY ReachableFacts DEF Declaring, Reachable, WalkInv
<1> QED BY <1>1, FS_Subset, ReactorAssumption

LEMMA WalkImpliesExact == WalkInv => IndexIsExact
<1> SUFFICES ASSUME WalkInv, done PROVE IndexIsExact
  BY DEF IndexIsExact
<1> USE DEF WalkInv
<1>1. /\ located = {x \in found : Unique(x[1])}
      /\ modules = {x \in located : x[1] \notin aggregators}
  BY DEF DoneIsResolved
<1>2. ASSUME NEW x \in modules
      PROVE  \E p \in Declaring(x[1]) : DirOf[p] = x[2] /\ poms[p].modules = <<>>
  <2>1. x \in found /\ x[1] \notin aggregators
    BY <1>1
  <2>2. PICK p \in Reachable :
            /\ poms[p].valid /\ poms[p].ga # NoGA /\ x = <<poms[p].ga, DirOf[p]>>
            /\ poms[p].modules = <<>> \/ poms[p].ga \in aggregators
    BY <2>1 DEF FoundIsReachable
  <2> QED BY <2>1, <2>2 DEF Declaring
<1>3. ASSUME ~truncated, OnePomPerDirectory, NEW ga, ga # NoGA
      PROVE  IsModule(ga) <=> /\ Cardinality(Declaring(ga)) = 1
                              /\ \A p \in Declaring(ga) : poms[p].modules = <<>>
  <2>1. DirsOf(ga) = {DirOf[p] : p \in Declaring(ga)}
    BY <1>3, WholeWalk
  <2>2. IsFiniteSet(DirsOf(ga)) /\ IsFiniteSet(Declaring(ga))
    BY FiniteDirs, FiniteDeclaring
  <2>3. Unique(ga) <=> \E d : DirsOf(ga) = {d}
    BY <2>2, FS_Singleton DEF Unique
  <2>4. Cardinality(Declaring(ga)) = 1 <=> \E p : Declaring(ga) = {p}
    BY <2>2, FS_Singleton
  <2>5. (\E d : DirsOf(ga) = {d}) <=> (\E p : Declaring(ga) = {p})
    <3>1. ASSUME NEW d, DirsOf(ga) = {d} PROVE \E p : Declaring(ga) = {p}
      <4>1. PICK p \in Declaring(ga) : DirOf[p] = d
        BY <2>1, <3>1
      <4>2. \A q \in Declaring(ga) : q = p
        BY <1>3, <2>1, <3>1, <4>1 DEF OnePomPerDirectory, Declaring
      <4> QED BY <4>1, <4>2
    <3>2. ASSUME NEW p, Declaring(ga) = {p} PROVE \E d : DirsOf(ga) = {d}
      BY <2>1, <3>2
    <3> QED BY <3>1, <3>2
  <2>6. ga \in aggregators <=> \E p \in Declaring(ga) : poms[p].modules # <<>>
    <3>1. ASSUME ga \in aggregators PROVE \E p \in Declaring(ga) : poms[p].modules # <<>>
      BY <3>1 DEF FoundIsReachable, Declaring
    <3>2. ASSUME NEW p \in Declaring(ga), poms[p].modules # <<>> PROVE ga \in aggregators
      <4>1. p \in Reachable /\ poms[p].valid /\ poms[p].ga = ga
        BY DEF Declaring
      <4>2. DirOf[p] \in DirsOf(ga)
        BY <2>1
      <4>3. DirOf[p] \in seen
        BY <4>2 DEF DirsOf, FoundIsReachable
      <4> QED BY <1>3, <3>2, <4>1, <4>3 DEF ReachableIsMet, Recorded
    <3> QED BY <3>1, <3>2
  <2>7. IsModule(ga) <=> Unique(ga) /\ ga \notin aggregators
    <3>1. ASSUME IsModule(ga) PROVE Unique(ga) /\ ga \notin aggregators
      BY <1>1, <3>1 DEF IsModule
    <3>2. ASSUME Unique(ga), ga \notin aggregators PROVE IsModule(ga)
      <4>1. PICK d : d \in DirsOf(ga)
        BY <2>3, <3>2
      <4>2. PICK x \in found : x[1] = ga
        BY <4>1 DEF DirsOf
      <4> QED BY <1>1, <3>2, <4>2 DEF IsModule
    <3> QED BY <3>1, <3>2
  <2> QED BY <2>3, <2>4, <2>5, <2>6, <2>7
<1> QED BY <1>2, <1>3 DEF IndexIsExact

\* The index of a finished walk answers with the modules of the reachable poms: for every
\* checkout, also one whose <modules> form cycles or lead outside (build_reactor_index).
THEOREM IndexFollowsTheCheckout == ReactorSpec => []IndexIsExact
BY WalkInvAlways, WalkImpliesExact, PTL

----------------------------------------------------------------------------
(* The edges of a directory: its parents, and what they list.              *)

LEMMA ParentFacts ==
    ASSUME WalkInv, done
    PROVE  /\ \A d : InRepoParent(d) \subseteq DOMAIN declared
           /\ \A d \in DOMAIN declared :
                 InRepoParent(d) = {e \in DOMAIN declared : DirsOf(declared[d].parent) = {e}}
<1> USE DEF WalkInv
<1>1. located = {x \in found : Unique(x[1])}
  BY DEF DoneIsResolved
<1>2. \A ga : Unique(ga) <=> \E e : DirsOf(ga) = {e}
  BY FiniteDirs, FS_Singleton DEF Unique
<1>3. \A d : InRepoParent(d) \subseteq DOMAIN declared
  BY <1>1 DEF InRepoParent, DeclaredIsTyped
<1>4. ASSUME NEW d \in DOMAIN declared
      PROVE  InRepoParent(d) = {e \in DOMAIN declared : DirsOf(declared[d].parent) = {e}}
  <2> DEFINE ga == declared[d].parent
  <2>1. InRepoParent(d) = {x[2] : x \in {y \in located : y[1] = ga}}
    BY DEF InRepoParent
  <2> HIDE DEF ga
  <2>2. CASE Unique(ga)
    <3>1. {y \in located : y[1] = ga} = {y \in found : y[1] = ga}
      BY <1>1, <2>2
    <3>2. InRepoParent(d) = DirsOf(ga)
      BY <2>1, <3>1 DEF DirsOf
    <3>3. PICK e : DirsOf(ga) = {e}
      BY <1>2, <2>2
    <3> QED BY <1>3, <3>2, <3>3 DEF ga
  <2>3. CASE ~Unique(ga)
    <3>1. {y \in located : y[1] = ga} = {}
      BY <1>1, <2>3
    <3>2. InRepoParent(d) = {}
      BY <2>1, <3>1
    <3>3. \A e : DirsOf(ga) # {e}
      BY <1>2, <2>3
    <3> QED BY <3>2, <3>3 DEF ga
  <2> QED BY <2>2, <2>3
<1> QED BY <1>3, <1>4

\* Each directory of the chain is the parent of the one before it.
Linked(b) == b # <<>> /\ \A i \in 1 .. Len(b) - 1 : InRepoParent(b[i]) = {b[i + 1]}

LEMMA OneUpTyped ==
    ASSUME WalkInv, done, NEW b \in Seq(DOMAIN declared)
    PROVE  OneUp(b) \in Seq(DOMAIN declared)
<1> DEFINE P == InRepoParent(Last(b))
           x == CHOOSE y \in P : TRUE
<1>1. P \subseteq DOMAIN declared
  BY ParentFacts
<1>2. ~(P \subseteq ToSet(b)) => x \in DOMAIN declared
  <2> HIDE DEF P
  <2> QED BY <1>1
<1>3. OneUp(b) = IF P \subseteq ToSet(b) THEN b ELSE Append(b, x)
  BY DEF OneUp
<1> HIDE DEF P, x
<1>4. CASE P \subseteq ToSet(b)
  BY <1>3, <1>4
<1>5. CASE ~(P \subseteq ToSet(b))
  <2>1. x \in DOMAIN declared
    BY <1>2, <1>5
  <2> DEFINE D == DOMAIN declared
  <2>2. b \in Seq(D) /\ x \in D
    BY <2>1
  <2> HIDE DEF D
  <2>3. Append(b, x) \in Seq(D)
    BY <2>2
  <2> QED BY <1>3, <1>5, <2>3 DEF D
<1> QED BY <1>4, <1>5

LEMMA OneUpStep ==
    ASSUME WalkInv, done, NEW b \in Seq(DOMAIN declared), Linked(b)
    PROVE  Linked(OneUp(b)) /\ ToSet(OneUp(b)) = ToSet(b) \cup Above(ToSet(b))
<1> DEFINE D == DOMAIN declared
           P == InRepoParent(Last(b))
           x == CHOOSE y \in P : TRUE
<1> PICK n \in Nat : n = Len(b)
  OBVIOUS
<1>1. /\ n \in Nat /\ n # 0 /\ n \in 1 .. n /\ DOMAIN b = 1 .. n
      /\ \A i \in 1 .. n : b[i] \in D /\ (i = n \/ (i \in 1 .. n - 1 /\ i + 1 \in 1 .. n))
      /\ \A i \in 1 .. n - 1 : i \in 1 .. n /\ i + 1 \in 1 .. n
  BY DEF Linked
<1>2. ToSet(b) = {b[i] : i \in 1 .. n} /\ ToSet(b) \subseteq D
  BY <1>1 DEF ToSet
<1>3. Last(b) = b[n]
  BY DEF Last
<1>4. Above(ToSet(b)) = UNION {InRepoParent(d) : d \in ToSet(b)}
  <2> DEFINE U == UNION {InRepoParent(d) : d \in ToSet(b)}
  <2>1. \A d \in ToSet(b) : d \in D /\
            InRepoParent(d) = {e \in DOMAIN declared : DirsOf(declared[d].parent) = {e}}
    BY <1>2, ParentFacts
  <2>2. \A e : e \in U <=> \E d \in ToSet(b) : e \in InRepoParent(d)
    OBVIOUS
  <2> HIDE DEF U
  <2>3. \A e : e \in Above(ToSet(b)) <=> \E d \in ToSet(b) : e \in InRepoParent(d)
    BY <2>1 DEF Above
  <2>4. Above(ToSet(b)) = U
    BY <2>2, <2>3
  <2> QED BY <2>4 DEF U
<1>5. \A i \in 1 .. n : InRepoParent(b[i]) \subseteq ToSet(b) \cup P
  BY <1>1, <1>2, <1>3 DEF Linked
<1>6. ToSet(b) \cup Above(ToSet(b)) = ToSet(b) \cup P
  <2> HIDE DEF P
  <2>1. Above(ToSet(b)) \subseteq ToSet(b) \cup P
    BY <1>2, <1>4, <1>5
  <2>2. P \subseteq Above(ToSet(b))
    BY <1>1, <1>2, <1>3, <1>4 DEF P
  <2> QED BY <2>1, <2>2
<1>7. OneUp(b) = IF P \subseteq ToSet(b) THEN b ELSE Append(b, x)
  BY DEF OneUp
<1>8. CASE P \subseteq ToSet(b)
  BY <1>6, <1>7, <1>8
<1>9. CASE ~(P \subseteq ToSet(b))
  <2>1. x \in P /\ x \in D /\ P = {x}
    <3>1. b[n] \in D
      BY <1>1
    <3>2. P \subseteq D /\ \A y, z \in P : y = z
      BY <1>3, <3>1, ParentFacts
    <3>3. x \in P
      <4> HIDE DEF P
      <4> QED BY <1>9
    <3> HIDE DEF x, P
    <3> QED BY <3>2, <3>3
  <2> DEFINE c == Append(b, x)
  <2> HIDE DEF x, P
  <2>2. /\ c \in Seq(D) /\ Len(c) = n + 1 /\ c # <<>> /\ DOMAIN c = 1 .. n + 1
        /\ c[n + 1] = x /\ \A i \in 1 .. n : c[i] = b[i]
    BY <2>1
  <2>3. OneUp(b) = c
    BY <1>7, <1>9
  <2> HIDE DEF c
  <2>4. Linked(c)
    <3>1. ASSUME NEW i \in 1 .. Len(c) - 1 PROVE InRepoParent(c[i]) = {c[i + 1]}
      <4>1. i \in 1 .. n
        BY <1>1, <2>2
      <4>2. CASE i = n
        BY <1>3, <2>1, <2>2, <4>1, <4>2 DEF P
      <4>3. CASE i # n
        <5>1. i \in 1 .. n - 1 /\ i + 1 \in 1 .. n
          BY <1>1, <4>1, <4>3
        <5>2. c[i] = b[i] /\ c[i + 1] = b[i + 1]
          BY <2>2, <4>1, <5>1
        <5> QED BY <5>1, <5>2 DEF Linked
      <4> QED BY <4>2, <4>3
    <3> QED BY <2>2, <3>1 DEF Linked
  <2>5. ToSet(c) = ToSet(b) \cup {x}
    <3>1. \A i \in 1 .. n + 1 : i = n + 1 \/ i \in 1 .. n
      BY <1>1
    <3>2. n + 1 \in 1 .. n + 1 /\ \A i \in 1 .. n : i \in 1 .. n + 1
      BY <1>1
    <3>3. ToSet(c) \subseteq ToSet(b) \cup {x}
      BY <1>2, <2>2, <3>1 DEF ToSet
    <3>4. x \in ToSet(c)
      BY <2>2, <3>2 DEF ToSet
    <3>5. ToSet(b) \subseteq ToSet(c)
      BY <1>2, <2>2, <3>2 DEF ToSet
    <3> QED BY <3>3, <3>4, <3>5
  <2> QED BY <1>6, <2>1, <2>3, <2>4, <2>5
<1> QED BY <1>8, <1>9

LEMMA ChainRuns ==
    ASSUME WalkInv, done, NEW dir \in DOMAIN declared
    PROVE  \E up \in [0 .. MaxParentDepth -> Seq(DOMAIN declared)] :
              /\ up[0] = <<dir>> /\ up[MaxParentDepth] = Chain(dir)
              /\ \A k \in 1 .. MaxParentDepth : up[k] = OneUp(up[k - 1])
<1> DEFINE N == MaxParentDepth
           S == Seq(DOMAIN declared)
           Is(r) == r = [n \in 0 .. N |-> IF n = 0 THEN <<dir>> ELSE OneUp(r[n - 1])]
           r == CHOOSE r : Is(r)
           g == [x \in (1 .. N) \X S |-> OneUp(x[2])]
<1>1. N \in Nat
  BY ReactorAssumption
<1>2. Chain(dir) = r[N]
  BY DEF Chain
<1>3. <<dir>> \in S
  OBVIOUS
<1>4. \A b \in S : OneUp(b) \in S
  BY OneUpTyped
<1> HIDE DEF N, S
<1>5. /\ g \in [(1 .. N) \X S -> S]
      /\ \A k \in 1 .. N, b \in S : g[<<k, b>>] = OneUp(b)
  BY <1>4
<1>6. PICK f : Recursion(f, S, <<dir>>, g, N)
  <2> HIDE DEF g, Is, r
  <2> DEFINE base == <<dir>>
  <2>1. base \in S
    BY <1>3
  <2> HIDE DEF base
  <2>2. \E f : Recursion(f, S, base, g, N)
    BY <1>1, <1>5, <2>1, RecursionExists
  <2> QED BY <2>2 DEF base
<1>7. Is(f)
  <2> HIDE DEF g
  <2>1. f \in [0 .. N -> S] /\ f[0] = <<dir>> /\ \A k \in 1 .. N : f[k] = g[<<k, f[k - 1]>>]
    BY <1>6 DEF Recursion
  <2>2. \A n \in 0 .. N : n = 0 \/ (n \in 1 .. N /\ n - 1 \in 0 .. N)
    BY <1>1
  <2>3. \A n \in 0 .. N : f[n] = IF n = 0 THEN <<dir>> ELSE OneUp(f[n - 1])
    <3> TAKE n \in 0 .. N
    <3>1. n # 0 => f[n - 1] \in S
      BY <2>1, <2>2
    <3> QED BY <1>5, <2>1, <2>2, <3>1
  <2> QED BY <2>1, <2>3
<1>8. Is(r)
  <2> HIDE DEF Is
  <2> QED BY <1>7
<1> HIDE DEF r
<1>9. /\ r = [n \in 0 .. N |-> r[n]]
      /\ \A n \in 0 .. N : r[n] = IF n = 0 THEN <<dir>> ELSE OneUp(r[n - 1])
  BY <1>8
<1>10. r[0] = <<dir>> /\ \A k \in 1 .. N : r[k] = OneUp(r[k - 1])
  <2>1. 0 \in 0 .. N /\ \A k \in 1 .. N : k \in 0 .. N /\ k # 0
    BY <1>1
  <2> HIDE DEF Is
  <2> QED BY <1>9, <2>1
<1>11. Recursion(r, S, <<dir>>, g, N)
  <2>1. \A k \in 1 .. N : r[k - 1] \in S => r[k] = g[<<k, r[k - 1]>>]
    <3> HIDE DEF g
    <3> QED BY <1>5, <1>10
  <2> HIDE DEF g, Is
  <2> DEFINE base == <<dir>>
  <2>2. base \in S /\ r[0] = base
    BY <1>3, <1>10
  <2> HIDE DEF base
  <2>3. Recursion(r, S, base, g, N)
    BY <1>1, <1>5, <1>9, <2>1, <2>2, RecursionRuns
  <2> QED BY <2>3 DEF base
<1>12. r \in [0 .. N -> S]
  BY <1>11 DEF Recursion
<1> QED BY <1>2, <1>10, <1>12 DEF N, S

LEMMA ParentsRun ==
    ASSUME NEW dir \in DOMAIN declared
    PROVE  \E a \in [0 .. MaxParentDepth -> SUBSET DOMAIN declared] :
              /\ a[0] = {dir} /\ a[MaxParentDepth] = ParentsOf(dir)
              /\ \A k \in 1 .. MaxParentDepth : a[k] = a[k - 1] \cup Above(a[k - 1])
<1> DEFINE N == MaxParentDepth
           S == SUBSET DOMAIN declared
           Up(b) == b \cup Above(b)
           Is(r) == r = [n \in 0 .. N |-> IF n = 0 THEN {dir} ELSE r[n - 1] \cup Above(r[n - 1])]
           r == CHOOSE r : Is(r)
           g == [x \in (1 .. N) \X S |-> Up(x[2])]
<1>1. N \in Nat
  BY ReactorAssumption
<1>2. ParentsOf(dir) = r[N]
  BY DEF ParentsOf
<1>3. {dir} \in S
  OBVIOUS
<1>4. \A b \in S : Up(b) \in S
  BY DEF Above
<1>5. Is(r) <=> r = [n \in 0 .. N |-> IF n = 0 THEN {dir} ELSE Up(r[n - 1])]
  OBVIOUS
<1> HIDE DEF N, S, Up
<1>6. /\ g \in [(1 .. N) \X S -> S]
      /\ \A k \in 1 .. N, b \in S : g[<<k, b>>] = Up(b)
  BY <1>4
<1>7. PICK f : Recursion(f, S, {dir}, g, N)
  <2> HIDE DEF g, Is, r
  <2> DEFINE base == {dir}
  <2>1. base \in S
    BY <1>3
  <2> HIDE DEF base
  <2>2. \E f : Recursion(f, S, base, g, N)
    BY <1>1, <1>6, <2>1, RecursionExists
  <2> QED BY <2>2 DEF base
<1>8. Is(f)
  <2> HIDE DEF g
  <2>1. f \in [0 .. N -> S] /\ f[0] = {dir} /\ \A k \in 1 .. N : f[k] = g[<<k, f[k - 1]>>]
    BY <1>7 DEF Recursion
  <2>2. \A n \in 0 .. N : n = 0 \/ (n \in 1 .. N /\ n - 1 \in 0 .. N)
    BY <1>1
  <2>3. \A n \in 0 .. N : f[n] = IF n = 0 THEN {dir} ELSE Up(f[n - 1])
    <3> TAKE n \in 0 .. N
    <3>1. n # 0 => f[n - 1] \in S
      BY <2>1, <2>2
    <3> QED BY <1>6, <2>1, <2>2, <3>1
  <2> QED BY <2>1, <2>3 DEF Up
<1>9. Is(r)
  <2> HIDE DEF Is
  <2> QED BY <1>8
<1> HIDE DEF r
<1>10. /\ r = [n \in 0 .. N |-> r[n]]
       /\ \A n \in 0 .. N : r[n] = IF n = 0 THEN {dir} ELSE Up(r[n - 1])
  BY <1>9 DEF Up
<1>11. r[0] = {dir} /\ \A k \in 1 .. N : r[k] = Up(r[k - 1])
  <2>1. 0 \in 0 .. N /\ \A k \in 1 .. N : k \in 0 .. N /\ k # 0
    BY <1>1
  <2> HIDE DEF Is
  <2> QED BY <1>10, <2>1
<1>12. Recursion(r, S, {dir}, g, N)
  <2>1. \A k \in 1 .. N : r[k - 1] \in S => r[k] = g[<<k, r[k - 1]>>]
    <3> HIDE DEF g
    <3> QED BY <1>6, <1>11
  <2> HIDE DEF g, Is
  <2> DEFINE base == {dir}
  <2>2. base \in S /\ r[0] = base
    BY <1>3, <1>11
  <2> HIDE DEF base
  <2>3. Recursion(r, S, base, g, N)
    BY <1>1, <1>6, <1>10, <2>1, <2>2, RecursionRuns
  <2> QED BY <2>3 DEF base
<1>13. r \in [0 .. N -> S]
  BY <1>12 DEF Recursion
<1> QED BY <1>2, <1>11, <1>13 DEF N, S, Up

\* The chain goes through the directory's in-repo ancestors up to the bound.
LEMMA ChainIsParents ==
    ASSUME WalkInv, done, NEW dir \in DOMAIN declared
    PROVE  Chain(dir) \in Seq(DOMAIN declared) /\ ToSet(Chain(dir)) = ParentsOf(dir)
<1> DEFINE N == MaxParentDepth
           D == DOMAIN declared
<1>1. N \in Nat
  BY ReactorAssumption
<1>2. PICK up \in [0 .. N -> Seq(D)] :
         up[0] = <<dir>> /\ up[N] = Chain(dir) /\ \A k \in 1 .. N : up[k] = OneUp(up[k - 1])
  BY ChainRuns
<1>3. PICK a \in [0 .. N -> SUBSET D] :
         a[0] = {dir} /\ a[N] = ParentsOf(dir) /\ \A k \in 1 .. N : a[k] = a[k - 1] \cup Above(a[k - 1])
  BY ParentsRun
<1> HIDE DEF N, D
<1> DEFINE Q == {k \in Nat : k <= N => Linked(up[k]) /\ ToSet(up[k]) = a[k]}
<1>4. 0 \in Q
  <2>1. <<dir>> # <<>> /\ Len(<<dir>>) = 1 /\ 1 .. 1 - 1 = {}
    OBVIOUS
  <2>2. Linked(<<dir>>)
    BY <2>1 DEF Linked
  <2>3. ToSet(<<dir>>) = {dir}
    BY DEF ToSet
  <2> QED BY <1>2, <1>3, <2>2, <2>3
<1>5. ASSUME NEW k \in Nat, k \in Q PROVE k + 1 \in Q
  <2> SUFFICES ASSUME k + 1 <= N PROVE Linked(up[k + 1]) /\ ToSet(up[k + 1]) = a[k + 1]
    OBVIOUS
  <2> DEFINE j == k + 1
  <2>1. j \in 1 .. N /\ j - 1 = k /\ k \in 0 .. N /\ Linked(up[k]) /\ ToSet(up[k]) = a[k]
    BY <1>1, <1>5
  <2> HIDE DEF j, Q
  <2>2. up[j] = OneUp(up[k]) /\ a[j] = a[k] \cup Above(a[k]) /\ up[k] \in Seq(D)
    BY <1>2, <1>3, <2>1
  <2>3. Linked(OneUp(up[k])) /\ ToSet(OneUp(up[k])) = a[k] \cup Above(a[k])
    BY <2>1, <2>2, OneUpStep DEF D
  <2>4. Linked(up[j]) /\ ToSet(up[j]) = a[j]
    BY <2>2, <2>3
  <2> QED BY <2>4 DEF j
<1>6. Nat \subseteq Q
  <2> HIDE DEF Q
  <2> QED BY <1>4, <1>5, SetInduction
<1>7. N <= N /\ N \in 0 .. N
  BY <1>1
<1>8. ToSet(up[N]) = a[N] /\ up[N] \in Seq(D)
  BY <1>1, <1>2, <1>6, <1>7
<1> QED BY <1>2, <1>3, <1>8 DEF D

\* The dependencies listed are joined directory by directory.
LEMMA ListedRuns ==
    ASSUME DeclaredIsTyped, NEW chain \in Seq(DOMAIN declared)
    PROVE  \E f \in [0 .. Len(chain) -> Seq(AllDeps)] :
              /\ f[0] = <<>> /\ f[Len(chain)] = Listed(chain)
              /\ \A k \in 1 .. Len(chain) : f[k] = f[k - 1] \o DepsOf(chain[k])
<1> DEFINE n == Len(chain)
           Next(k, v) == v \o DepsOf(chain[k])
           g == [p \in (1 .. n) \X Seq(AllDeps) |-> Next(p[1], p[2])]
           Is(h) == h = [T \in SUBSET DOMAIN chain |->
                            IF T = {} THEN <<>> ELSE Next(Max(T), h[T \ {Max(T)}])]
           fold == CHOOSE h : Is(h)
<1>1. n \in Nat /\ DOMAIN chain = 1 .. n /\ <<>> \in Seq(AllDeps)
  OBVIOUS
<1>2. \A k \in 1 .. n, v \in Seq(AllDeps) : Next(k, v) \in Seq(AllDeps) /\ g[<<k, v>>] = Next(k, v)
  <2>1. \A k \in 1 .. n : chain[k] \in DOMAIN declared
    BY <1>1
  <2>2. \A k \in 1 .. n : DepsOf(chain[k]) \in Seq(AllDeps)
    BY <2>1 DEF DepsOf, DeclaredIsTyped
  <2>3. ASSUME NEW k \in 1 .. n, NEW v \in Seq(AllDeps) PROVE v \o DepsOf(chain[k]) \in Seq(AllDeps)
    <3> DEFINE ds == DepsOf(chain[k])
               D == AllDeps
    <3>1. ds \in Seq(D) /\ v \in Seq(D)
      BY <2>2
    <3> HIDE DEF ds, D
    <3>2. v \o ds \in Seq(D)
      BY <3>1
    <3> QED BY <3>2 DEF ds, D
  <2>4. ASSUME NEW k \in 1 .. n, NEW v \in Seq(AllDeps) PROVE g[<<k, v>>] = Next(k, v)
    <3> HIDE DEF Next
    <3> QED OBVIOUS
  <2> QED BY <2>3, <2>4
<1>3. g \in [(1 .. n) \X Seq(AllDeps) -> Seq(AllDeps)]
  <2> HIDE DEF Next
  <2> QED BY <1>2
<1>4. Listed(chain) = fold[DOMAIN chain]
  BY DEF Listed, FoldLeft, MapThenFoldSet
<1> HIDE DEF Next
<1>5. \E h : Is(h)
  <2>1. PICK h : Folds(h, Seq(AllDeps), <<>>, g, n)
    <3> HIDE DEF g
    <3> QED BY <1>1, <1>3, FoldExists
  <2>2. h \in [SUBSET DOMAIN chain -> Seq(AllDeps)] /\ h[{}] = <<>>
    BY <1>1, <2>1 DEF Folds
  <2>3. ASSUME NEW T \in SUBSET DOMAIN chain, T # {}
        PROVE  h[T] = Next(Max(T), h[T \ {Max(T)}])
    <3>1. T \in SUBSET (1 .. n) /\ Max(T) \in 1 .. n /\ T \ {Max(T)} \in SUBSET (1 .. n)
      BY <1>1, <2>1, <2>3 DEF Folds
    <3>2. h[T \ {Max(T)}] \in Seq(AllDeps) /\ h[T] = g[<<Max(T), h[T \ {Max(T)}]>>]
      BY <2>1, <2>3, <3>1 DEF Folds
    <3> QED BY <1>2, <3>1, <3>2
  <2> QED BY <2>2, <2>3
<1>6. Is(fold)
  <2> HIDE DEF Is
  <2> QED BY <1>5
<1> DEFINE f == [k \in 0 .. n |-> fold[1 .. k]]
<1> HIDE DEF fold, g
<1>7. Recursion(f, Seq(AllDeps), <<>>, g, n)
  <2>1. fold[{}] = <<>> /\ \A T \in SUBSET (1 .. n) : T # {} => fold[T] = Next(Max(T), fold[T \ {Max(T)}])
    BY <1>1, <1>6
  <2>2. ASSUME NEW T \in SUBSET (1 .. n), T # {} PROVE Max(T) \in 1 .. n
    BY <2>2, <1>1, MaxOfSome
  <2>3. \A T \in SUBSET (1 .. n) : T # {} /\ fold[T \ {Max(T)}] \in Seq(AllDeps) =>
            fold[T] = g[<<Max(T), fold[T \ {Max(T)}]>>]
    <3> HIDE DEF Is
    <3> QED BY <1>2, <2>1, <2>2
  <2> HIDE DEF Is, n
  <2> QED BY <1>1, <1>3, <2>1, <2>3, FoldRuns
<1>8. f \in [0 .. n -> Seq(AllDeps)] /\ f[0] = <<>> /\ \A k \in 1 .. n : f[k] = Next(k, f[k - 1])
  <2> HIDE DEF f
  <2>1. f \in [0 .. n -> Seq(AllDeps)] /\ f[0] = <<>> /\ \A k \in 1 .. n : f[k] = g[<<k, f[k - 1]>>]
    BY <1>7 DEF Recursion
  <2>2. \A k \in 1 .. n : k - 1 \in 0 .. n
    BY <1>1
  <2>3. \A k \in 1 .. n : f[k - 1] \in Seq(AllDeps)
    BY <2>1, <2>2
  <2> QED BY <1>2, <2>1, <2>3
<1>9. f[n] = Listed(chain)
  BY <1>1, <1>4
<1> HIDE DEF f
<1> QED BY <1>8, <1>9 DEF Next

\* f[k] is what the first k of s leave.
Picks(f, s, test) == f[0] = <<>> /\ \A k \in 1 .. Len(s) : f[k] = AddEdge(f[k - 1], s[k], test)

\* The edges are taken dependency by dependency.
LEMMA EdgesRun ==
    ASSUME NEW E, NEW s \in Seq(E), NEW test
    PROVE  \E f \in [0 .. Len(s) -> Seq(E)] : Picks(f, s, test) /\ f[Len(s)] = Picked(s, test)
<1> DEFINE n == Len(s)
           Next(k, v) == AddEdge(v, s[k], test)
           g == [p \in (1 .. n) \X Seq(E) |-> Next(p[1], p[2])]
           Is(h) == h = [T \in SUBSET DOMAIN s |->
                            IF T = {} THEN <<>> ELSE Next(Max(T), h[T \ {Max(T)}])]
           fold == CHOOSE h : Is(h)
<1>1. n \in Nat /\ DOMAIN s = 1 .. n /\ <<>> \in Seq(E)
  OBVIOUS
<1>2. \A k \in 1 .. n, v \in Seq(E) : Next(k, v) \in Seq(E) /\ g[<<k, v>>] = Next(k, v)
  <2>1. \A k \in 1 .. n : s[k] \in E
    BY <1>1
  <2> QED BY <2>1 DEF AddEdge
<1>3. g \in [(1 .. n) \X Seq(E) -> Seq(E)]
  <2> HIDE DEF Next
  <2> QED BY <1>2
<1>4. Picked(s, test) = fold[DOMAIN s]
  BY DEF Picked, FoldLeft, MapThenFoldSet
<1> HIDE DEF Next
<1>5. \E h : Is(h)
  <2>1. PICK h : Folds(h, Seq(E), <<>>, g, n)
    <3> HIDE DEF g
    <3> QED BY <1>1, <1>3, FoldExists
  <2>2. h \in [SUBSET DOMAIN s -> Seq(E)] /\ h[{}] = <<>>
    BY <1>1, <2>1 DEF Folds
  <2>3. ASSUME NEW T \in SUBSET DOMAIN s, T # {}
        PROVE  h[T] = Next(Max(T), h[T \ {Max(T)}])
    <3>1. T \in SUBSET (1 .. n) /\ Max(T) \in 1 .. n /\ T \ {Max(T)} \in SUBSET (1 .. n)
      BY <1>1, <2>1, <2>3 DEF Folds
    <3>2. h[T \ {Max(T)}] \in Seq(E) /\ h[T] = g[<<Max(T), h[T \ {Max(T)}]>>]
      BY <2>1, <2>3, <3>1 DEF Folds
    <3> QED BY <1>2, <3>1, <3>2
  <2> QED BY <2>2, <2>3
<1>6. Is(fold)
  <2> HIDE DEF Is
  <2> QED BY <1>5
<1> DEFINE f == [k \in 0 .. n |-> fold[1 .. k]]
<1> HIDE DEF fold, g
<1>7. Recursion(f, Seq(E), <<>>, g, n)
  <2>1. fold[{}] = <<>> /\ \A T \in SUBSET (1 .. n) : T # {} => fold[T] = Next(Max(T), fold[T \ {Max(T)}])
    BY <1>1, <1>6
  <2>2. ASSUME NEW T \in SUBSET (1 .. n), T # {} PROVE Max(T) \in 1 .. n
    BY <2>2, <1>1, MaxOfSome
  <2>3. \A T \in SUBSET (1 .. n) : T # {} /\ fold[T \ {Max(T)}] \in Seq(E) =>
            fold[T] = g[<<Max(T), fold[T \ {Max(T)}]>>]
    <3> HIDE DEF Is
    <3> QED BY <1>2, <2>1, <2>2
  <2> HIDE DEF Is, n
  <2> QED BY <1>1, <1>3, <2>1, <2>3, FoldRuns
<1>8. f \in [0 .. n -> Seq(E)] /\ f[0] = <<>> /\ \A k \in 1 .. n : f[k] = Next(k, f[k - 1])
  <2> HIDE DEF f
  <2>1. f \in [0 .. n -> Seq(E)] /\ f[0] = <<>> /\ \A k \in 1 .. n : f[k] = g[<<k, f[k - 1]>>]
    BY <1>7 DEF Recursion
  <2>2. \A k \in 1 .. n : k - 1 \in 0 .. n
    BY <1>1
  <2>3. \A k \in 1 .. n : f[k - 1] \in Seq(E)
    BY <2>1, <2>2
  <2> QED BY <1>2, <2>1, <2>3
<1>9. f[n] = Picked(s, test)
  BY <1>1, <1>4
<1> HIDE DEF f
<1> QED BY <1>8, <1>9 DEF Next, Picks

LEMMA ListedIs ==
    ASSUME WalkInv, NEW chain \in Seq(DOMAIN declared)
    PROVE  /\ Listed(chain) \in Seq(AllDeps)
           /\ ToSet(Listed(chain)) = UNION {ToSet(declared[d].deps) : d \in ToSet(chain)}
<1> PICK n \in Nat : n = Len(chain)
  OBVIOUS
<1>1. DeclaredIsTyped
  BY DEF WalkInv
<1>2. PICK f \in [0 .. n -> Seq(AllDeps)] :
         f[0] = <<>> /\ f[n] = Listed(chain) /\ \A k \in 1 .. n : f[k] = f[k - 1] \o DepsOf(chain[k])
  BY <1>1, ListedRuns
<1>3. DOMAIN chain = 1 .. n /\ \A k \in 1 .. n : chain[k] \in DOMAIN declared
  OBVIOUS
<1>4. \A k \in 1 .. n : DepsOf(chain[k]) \in Seq(AllDeps) /\ DepsOf(chain[k]) = declared[chain[k]].deps
  BY <1>1, <1>3 DEF DepsOf, DeclaredIsTyped
<1> DEFINE Q == {k \in Nat : k <= n => ToSet(f[k]) = UNION {ToSet(DepsOf(chain[i])) : i \in 1 .. k}}
<1>5. 0 \in Q
  <2>1. ToSet(<<>>) = {}
    BY DEF ToSet
  <2>2. {ToSet(DepsOf(chain[i])) : i \in 1 .. 0} = {}
    OBVIOUS
  <2> QED BY <1>2, <2>1, <2>2
<1>6. ASSUME NEW k \in Nat, k \in Q PROVE k + 1 \in Q
  <2> SUFFICES ASSUME k + 1 <= n
               PROVE  ToSet(f[k + 1]) = UNION {ToSet(DepsOf(chain[i])) : i \in 1 .. k + 1}
    OBVIOUS
  <2> DEFINE j == k + 1
             E == AllDeps
             ds == DepsOf(chain[j])
             before == f[k]
  <2>1. /\ j \in 1 .. n /\ j - 1 = k /\ k \in 0 .. n
        /\ ToSet(f[k]) = UNION {ToSet(DepsOf(chain[i])) : i \in 1 .. k}
        /\ \A i : i \in 1 .. j <=> (i \in 1 .. k \/ i = j)
    BY <1>6
  <2> HIDE DEF j, Q
  <2>2. f[j] = before \o ds /\ before \in Seq(E) /\ ds \in Seq(E)
    BY <1>2, <1>4, <2>1
  <2> HIDE DEF before, ds, E
  <2>3. ToSet(before \o ds) = ToSet(before) \cup ToSet(ds)
    BY <2>2, JoinedSet
  <2>4. ToSet(f[j]) = ToSet(f[k]) \cup ToSet(DepsOf(chain[j]))
    BY <2>2, <2>3 DEF before, ds
  <2>5. ToSet(f[j]) = UNION {ToSet(DepsOf(chain[i])) : i \in 1 .. j}
    BY <2>1, <2>4
  <2> QED BY <2>5 DEF j
<1>7. Nat \subseteq Q
  <2> HIDE DEF Q
  <2> QED BY <1>5, <1>6, SetInduction
<1>8. f[n] \in Seq(AllDeps) /\ ToSet(f[n]) = UNION {ToSet(DepsOf(chain[i])) : i \in 1 .. n}
  <2>1. n \in Q
    <3> HIDE DEF Q
    <3> QED BY <1>7
  <2>2. n \in 0 .. n /\ n <= n
    OBVIOUS
  <2> QED BY <2>1, <2>2
<1>9. UNION {ToSet(DepsOf(chain[i])) : i \in 1 .. n} = UNION {ToSet(declared[d].deps) : d \in ToSet(chain)}
  <2> DEFINE U == UNION {ToSet(DepsOf(chain[i])) : i \in 1 .. n}
             V == UNION {ToSet(declared[d].deps) : d \in ToSet(chain)}
  <2>1. ToSet(chain) = {chain[i] : i \in 1 .. n}
    BY <1>3 DEF ToSet
  <2>2. \A x : x \in U <=> \E i \in 1 .. n : x \in ToSet(DepsOf(chain[i]))
    OBVIOUS
  <2>3. \A x : x \in V <=> \E d \in ToSet(chain) : x \in ToSet(declared[d].deps)
    OBVIOUS
  <2> HIDE DEF U, V
  <2>4. U = V
    <3>1. ASSUME NEW x \in U PROVE x \in V
      <4>1. PICK i \in 1 .. n : x \in ToSet(DepsOf(chain[i]))
        BY <2>2, <3>1
      <4>2. chain[i] \in ToSet(chain) /\ x \in ToSet(declared[chain[i]].deps)
        BY <1>4, <2>1, <4>1
      <4> QED BY <2>3, <4>2
    <3>2. ASSUME NEW x \in V PROVE x \in U
      <4>1. PICK i \in 1 .. n : x \in ToSet(declared[chain[i]].deps)
        BY <2>1, <2>3, <3>2
      <4>2. x \in ToSet(DepsOf(chain[i]))
        BY <1>4, <4>1
      <4> QED BY <2>2, <4>2
    <3> QED BY <3>1, <3>2
  <2> QED BY <2>4 DEF U, V
<1> QED BY <1>2, <1>8, <1>9

\* t holds those of the first k of s that are in scope and importable, none twice.
PicksFirst(t, s, k, test) ==
    /\ \A i \in 1 .. Len(t) : /\ \E p \in 1 .. k : s[p] = t[i]
                             /\ InScope(t[i], test) /\ IsModule(t[i].ga)
    /\ \A p \in 1 .. k : InScope(s[p], test) /\ IsModule(s[p].ga) =>
           \E i \in 1 .. Len(t) : SameDep(t[i], s[p])
    /\ \A i, j \in 1 .. Len(t) : SameDep(t[i], t[j]) => i = j

LEMMA AddEdgeStep ==
    ASSUME NEW E, NEW s \in Seq(E), NEW test, NEW k \in 1 .. Len(s), NEW t \in Seq(E),
           PicksFirst(t, s, k - 1, test)
    PROVE  PicksFirst(AddEdge(t, s[k], test), s, k, test)
<1> PICK n \in Nat : n = Len(t)
  OBVIOUS
<1>1. /\ DOMAIN t = 1 .. n /\ s[k] \in E /\ k \in 1 .. k
      /\ \A p \in 1 .. k - 1 : p \in 1 .. k
      /\ \A p \in 1 .. k : p \in 1 .. k - 1 \/ p = k
  OBVIOUS
<1> DEFINE d == s[k]
           new == InScope(d, test) /\ IsModule(d.ga) /\ \A i \in DOMAIN t : ~SameDep(t[i], d)
<1>2. CASE ~new
  <2>1. AddEdge(t, d, test) = t
    BY <1>2 DEF AddEdge
  <2>2. InScope(d, test) /\ IsModule(d.ga) => \E i \in 1 .. n : SameDep(t[i], d)
    BY <1>1, <1>2
  <2> HIDE DEF new
  <2>3. PicksFirst(t, s, k, test)
    BY <1>1, <2>2 DEF PicksFirst
  <2> QED BY <2>1, <2>3
<1>3. CASE new
  <2> DEFINE u == Append(t, d)
  <2>1. AddEdge(t, d, test) = u
    BY <1>3 DEF AddEdge
  <2>2. Len(u) = n + 1 /\ u[n + 1] = d /\ \A i \in 1 .. n : u[i] = t[i]
    BY <1>1
  <2> HIDE DEF u
  <2>3. /\ \A i \in 1 .. n + 1 : i \in 1 .. n \/ i = n + 1
        /\ \A i \in 1 .. n : i \in 1 .. n + 1
        /\ n + 1 \in 1 .. n + 1
    OBVIOUS
  <2>4. ASSUME NEW i \in 1 .. n + 1
        PROVE  (\E p \in 1 .. k : s[p] = u[i]) /\ InScope(u[i], test) /\ IsModule(u[i].ga)
    <3>1. CASE i \in 1 .. n
      BY <1>1, <2>2, <3>1 DEF PicksFirst
    <3>2. CASE i = n + 1
      BY <1>1, <1>3, <2>2, <3>2
    <3> QED BY <2>3, <3>1, <3>2
  <2>5. SameDep(d, d)
    BY DEF SameDep
  <2>6. ASSUME NEW p \in 1 .. k, InScope(s[p], test), IsModule(s[p].ga)
        PROVE  \E i \in 1 .. n + 1 : SameDep(u[i], s[p])
    <3>1. CASE p = k
      BY <2>2, <2>3, <2>5, <3>1
    <3>2. CASE p # k
      <4>1. PICK i \in 1 .. n : SameDep(t[i], s[p])
        BY <1>1, <2>6, <3>2 DEF PicksFirst
      <4> QED BY <2>2, <2>3, <4>1
    <3> QED BY <3>1, <3>2
  <2>7. ASSUME NEW i \in 1 .. n + 1, NEW j \in 1 .. n + 1, SameDep(u[i], u[j]) PROVE i = j
    <3>1. CASE i \in 1 .. n /\ j \in 1 .. n
      BY <2>2, <2>7, <3>1 DEF PicksFirst
    <3>2. CASE i \in 1 .. n /\ j = n + 1
      BY <1>1, <1>3, <2>2, <2>7, <3>2
    <3>3. CASE i = n + 1 /\ j \in 1 .. n
      BY <1>1, <1>3, <2>2, <2>7, <3>3 DEF SameDep
    <3> QED BY <2>3, <3>1, <3>2, <3>3
  <2>8. PicksFirst(u, s, k, test)
    BY <2>2, <2>4, <2>6, <2>7 DEF PicksFirst
  <2> QED BY <2>1, <2>8
<1> QED BY <1>2, <1>3

LEMMA PickedIs ==
    ASSUME NEW E, NEW s \in Seq(E), NEW test
    PROVE  Picked(s, test) \in Seq(E) /\ PicksFirst(Picked(s, test), s, Len(s), test)
<1> DEFINE n == Len(s)
<1>1. PICK f \in [0 .. n -> Seq(E)] :
         Picks(f, s, test) /\ f[n] = Picked(s, test)
  BY EdgesRun
<1>f. f[0] = <<>> /\ \A k \in 1 .. n : f[k] = AddEdge(f[k - 1], s[k], test)
  BY <1>1 DEF Picks
<1> n \in Nat /\ n = Len(s)
  OBVIOUS
<1> HIDE DEF n
<1> DEFINE Q == {k \in Nat : k <= n => PicksFirst(f[k], s, k, test)}
<1>2. 0 \in Q
  <2>1. Len(<<>>) = 0 /\ 1 .. 0 = {}
    OBVIOUS
  <2>2. PicksFirst(<<>>, s, 0, test)
    BY <2>1 DEF PicksFirst
  <2> QED BY <1>f, <2>2
<1>3. ASSUME NEW k \in Nat, k \in Q PROVE k + 1 \in Q
  <2> SUFFICES ASSUME k + 1 <= n PROVE PicksFirst(f[k + 1], s, k + 1, test)
    OBVIOUS
  <2> DEFINE j == k + 1
  <2>1. j \in 1 .. n /\ j - 1 = k /\ k \in 0 .. n /\ PicksFirst(f[k], s, k, test)
    BY <1>3
  <2> HIDE DEF j, Q
  <2>2. f[j] = AddEdge(f[k], s[j], test) /\ f[k] \in Seq(E) /\ PicksFirst(f[k], s, j - 1, test)
    BY <1>f, <2>1
  <2>3. PicksFirst(f[j], s, j, test)
    <3>1. j \in 1 .. Len(s)
      BY <2>1
    <3> QED BY <2>2, <3>1, AddEdgeStep
  <2> QED BY <2>3 DEF j
<1>4. Nat \subseteq Q
  <2> HIDE DEF Q
  <2> QED BY <1>2, <1>3, SetInduction
<1>5. n \in 0 .. n /\ n <= n
  OBVIOUS
<1>6. PicksFirst(f[n], s, n, test)
  BY <1>4, <1>5
<1> QED BY <1>1, <1>5, <1>6

\* As many keys as elements when no two elements have the same key.
LEMMA KeysCounted ==
    ASSUME NEW E, NEW t \in Seq(E), \A i, j \in 1 .. Len(t) : SameDep(t[i], t[j]) => i = j
    PROVE  Cardinality(Keys(ToSet(t))) = Len(t)
<1> PICK n \in Nat : n = Len(t)
  OBVIOUS
<1> DEFINE K == Keys(ToSet(t))
           f == [i \in 1 .. n |-> <<t[i].ga, t[i].testJar>>]
<1>1. DOMAIN t = 1 .. n
  OBVIOUS
<1>2. K = {<<t[i].ga, t[i].testJar>> : i \in 1 .. n}
  BY <1>1 DEF Keys, ToSet
<1>3. f \in [1 .. n -> K] /\ DOMAIN f = 1 .. n
  BY <1>2
<1>4. \A x \in K : \E i \in 1 .. n : f[i] = x
  BY <1>2
<1>5. \A i, j \in 1 .. n : f[i] = f[j] => i = j
  BY DEF SameDep
<1> HIDE DEF f, K
<1>6. f \in Bijection(1 .. n, K)
  BY <1>3, <1>4, <1>5 DEF Bijection, Injection, Surjection, IsInjective
<1>7. ExistsBijection(1 .. n, K)
  BY <1>6 DEF ExistsBijection
<1>8. Cardinality(K) = n
  BY <1>7, FS_CountingElements
<1> QED BY <1>8 DEF K

LEMMA WalkImpliesEdges == WalkInv => EdgesAreExact
<1> SUFFICES ASSUME WalkInv, done, NEW dir \in DOMAIN declared, NEW test \in BOOLEAN
             PROVE  LET edges == Edges(dir, test)
                        all == UNION {ToSet(declared[d].deps) : d \in ParentsOf(dir)}
                    IN  /\ Keys(ToSet(edges)) = Keys({d \in all : InScope(d, test) /\ IsModule(d.ga)})
                        /\ Cardinality(Keys(ToSet(edges))) = Len(edges)
  BY DEF EdgesAreExact
<1> DEFINE chain == Chain(dir)
           s == Listed(chain)
           edges == Edges(dir, test)
           all == UNION {ToSet(declared[d].deps) : d \in ParentsOf(dir)}
           wanted == {d \in all : InScope(d, test) /\ IsModule(d.ga)}
<1>1. chain \in Seq(DOMAIN declared) /\ ToSet(chain) = ParentsOf(dir)
  BY ChainIsParents
<1>2. s \in Seq(AllDeps) /\ ToSet(s) = all
  <2> HIDE DEF chain
  <2> QED BY <1>1, ListedIs
<1>3. edges = Picked(s, test)
  BY DEF Edges
<1> HIDE DEF chain, s, edges, all
<1>4. edges \in Seq(AllDeps) /\ PicksFirst(edges, s, Len(s), test)
  BY <1>2, <1>3, PickedIs
<1>5. Len(s) \in Nat /\ DOMAIN s = 1 .. Len(s) /\ DOMAIN edges = 1 .. Len(edges)
  BY <1>2, <1>4
<1>6. \A x \in ToSet(edges) : x \in wanted
  BY <1>2, <1>4, <1>5 DEF ToSet, PicksFirst
<1>7. \A x \in wanted : \E y \in ToSet(edges) : SameDep(y, x)
  <2> TAKE x \in wanted
  <2>1. PICK p \in 1 .. Len(s) : s[p] = x
    BY <1>2, <1>5 DEF ToSet
  <2>2. PICK i \in 1 .. Len(edges) : SameDep(edges[i], x)
    BY <1>4, <2>1 DEF PicksFirst
  <2> QED BY <1>5, <2>2 DEF ToSet
<1>8. Keys(ToSet(edges)) = Keys(wanted)
  <2> HIDE DEF wanted
  <2> QED BY <1>6, <1>7 DEF Keys, SameDep
<1>9. Cardinality(Keys(ToSet(edges))) = Len(edges)
  BY <1>4, KeysCounted DEF PicksFirst
<1> QED BY <1>8, <1>9 DEF edges, all

\* The edges of a directory are the importable dependencies of its in-repo ancestors, each
\* once: for every checkout, also one whose parents form a cycle (ReactorIndex.edges).
THEOREM EdgesFollowTheParents == ReactorSpec => []EdgesAreExact
BY WalkInvAlways, WalkImpliesEdges, PTL
=============================================================================
