---------------------------- MODULE StartupProofs ----------------------------
(***************************************************************************)
(* What the lazy start keeps for every set of files and texts and every    *)
(* length of the queue: the queue stays within its limit, the one flush of *)
(* a session leaves it empty, and what jdtls has and what is queued for it *)
(* replay to the client's texts. The replay is a fold, so the last one     *)
(* rests on what a fold does at its first and at its last element.         *)
(***************************************************************************)
EXTENDS Startup, SequenceFolds

LEMMA QueueTyped ==
    ASSUME TypeOK, NEW e \in Entry, Queue(e)
    PROVE  queue' \in Seq(Entry) /\ Len(queue') <= MaxQueued /\ lost' \subseteq Files
<1>1. queue \in Seq(Entry) /\ Len(queue) \in Nat /\ MaxQueued \in Nat /\ MaxQueued > 0
      /\ Len(queue) <= MaxQueued /\ lost \subseteq Files
  BY QueuePositive DEF TypeOK
<1>2. CASE Len(queue) < MaxQueued
  <2>1. queue' = Append(queue, e) /\ lost' = lost
    BY <1>2 DEF Queue
  <2>2. Append(queue, e) \in Seq(Entry) /\ Len(Append(queue, e)) = Len(queue) + 1
    BY <1>1
  <2> QED BY <1>1, <1>2, <2>1, <2>2
<1>3. CASE ~(Len(queue) < MaxQueued)
  <2>1. queue' = Append(Tail(queue), e) /\ lost' = lost \cup {Head(queue).file}
    BY <1>3 DEF Queue
  <2>2. queue # <<>>
    BY <1>1, <1>3
  <2>3. Tail(queue) \in Seq(Entry) /\ Len(Tail(queue)) = Len(queue) - 1 /\ Head(queue) \in Entry
    BY <1>1, <2>2
  <2>4. Append(Tail(queue), e) \in Seq(Entry) /\ Len(Append(Tail(queue), e)) = Len(queue)
    BY <1>1, <2>3
  <2>5. Head(queue).file \in Files
    BY <2>3 DEF Entry
  <2> QED BY <1>1, <2>1, <2>4, <2>5
<1> QED BY <1>2, <1>3

LEMMA AppliedTyped ==
    ASSUME NEW m \in [Files -> Texts \cup {Closed}], NEW e \in Entry
    PROVE  Applied(m, e) \in [Files -> Texts \cup {Closed}]
<1>1. CASE e.kind = "open"
  BY <1>1 DEF Applied, Entry
<1>2. CASE e.kind = "change"
  BY <1>2 DEF Applied, Entry
<1>3. CASE e.kind = "close"
  BY <1>3 DEF Applied, Entry
<1> QED BY <1>1, <1>2, <1>3 DEF Entry, Kinds

\* The state a client's notification may change beside its own text.
NotifyTyped ==
    /\ mirror' \in [Files -> Texts \cup {Closed}] /\ queue' \in Seq(Entry)
    /\ Len(queue') <= MaxQueued /\ lost' \subseteq Files /\ crossed' \subseteq Files

LEMMA ForwardTyped ==
    ASSUME TypeOK, NEW e \in Entry, Forward(e), UNCHANGED <<queue, lost>>
    PROVE  NotifyTyped
<1>1. mirror' \in [Files -> Texts \cup {Closed}]
  BY AppliedTyped DEF Forward, TypeOK
<1>2. e.file \in Files
  BY DEF Entry
<1> QED BY <1>1, <1>2 DEF Forward, TypeOK, NotifyTyped

LEMMA QueuedTyped ==
    ASSUME TypeOK, NEW e \in Entry, Queue(e), UNCHANGED <<mirror, crossed>>
    PROVE  NotifyTyped
BY QueueTyped DEF TypeOK, NotifyTyped

LEMMA ForwardOrQueueTyped ==
    ASSUME TypeOK, NEW e \in Entry, ForwardOrQueue(e)
    PROVE  NotifyTyped
BY ForwardTyped, QueuedTyped DEF ForwardOrQueue, TypeOK, NotifyTyped

LEMMA EmptyTyped == <<>> \in Seq(Entry) /\ Len(<<>>) <= MaxQueued
<1>1. <<>> \in Seq(Entry) /\ Len(<<>>) = 0
  OBVIOUS
<1> QED BY <1>1, QueuePositive

LEMMA TypeInit == Init => TypeOK
BY EmptyTyped DEF Init, TypeOK

LEMMA TypeStep == TypeOK /\ [Next]_vars => TypeOK'
<1> SUFFICES ASSUME TypeOK, [Next]_vars PROVE TypeOK'
  OBVIOUS
<1>1. ASSUME NEW f \in Files, OnDidOpen(f) PROVE TypeOK'
  <2>1. PICK t \in Texts :
          LET e == [kind |-> "open", file |-> f, text |-> t]
          IN  /\ text' = [text EXCEPT ![f] = t]
              /\ \/ Forward(e) /\ UNCHANGED <<queue, lost>>
                 \/ Queue(e) /\ UNCHANGED <<mirror, crossed>>
                 \/ UNCHANGED <<queue, lost, mirror, crossed>>
    BY <1>1 DEF OnDidOpen
  <2> DEFINE e == [kind |-> "open", file |-> f, text |-> t]
  <2>2. e \in Entry
    BY DEF Entry, Kinds
  <2> HIDE DEF e
  <2>3. NotifyTyped
    BY <2>1, <2>2, ForwardTyped, QueuedTyped DEF TypeOK, NotifyTyped, e
  <2>4. phase' \in {phase, "starting"} /\ UNCHANGED <<available, batch, cooled>>
    BY <1>1 DEF OnDidOpen
  <2> QED BY <2>1, <2>3, <2>4 DEF TypeOK, NotifyTyped
<1>2. ASSUME NEW f \in Files, OnDidChange(f) PROVE TypeOK'
  <2>1. PICK t \in Texts : /\ text' = [text EXCEPT ![f] = t]
                           /\ ForwardOrQueue([kind |-> "change", file |-> f, text |-> t])
    BY <1>2 DEF OnDidChange
  <2>2. [kind |-> "change", file |-> f, text |-> t] \in Entry
    BY DEF Entry, Kinds
  <2>3. NotifyTyped
    BY <2>1, <2>2, ForwardOrQueueTyped
  <2> QED BY <1>2, <2>1, <2>3 DEF OnDidChange, TypeOK, NotifyTyped
<1>3. ASSUME NEW f \in Files, OnDidClose(f) PROVE TypeOK'
  <2>1. [kind |-> "close", file |-> f, text |-> Closed] \in Entry
    BY DEF Entry, Kinds
  <2>2. NotifyTyped
    BY <1>3, <2>1, ForwardOrQueueTyped DEF OnDidClose
  <2> QED BY <1>3, <2>2 DEF OnDidClose, TypeOK, NotifyTyped
<1>4. CASE StartSucceeds \/ StartFails \/ FlushBegins \/ FlushEnds \/ Cooldown
  BY <1>4, EmptyTyped
     DEF StartSucceeds, StartFails, FlushBegins, FlushEnds, Cooldown, clientVars, TypeOK
<1>5. CASE FlushOne
  <2>1. batch \in Seq(Entry) /\ batch # <<>> /\ batch' = Tail(batch)
    BY <1>5 DEF FlushOne, TypeOK
  <2>2. Head(batch) \in Entry /\ batch' \in Seq(Entry) /\ Len(batch') = Len(batch) - 1
    BY <2>1
  <2>3. Len(batch') <= MaxQueued
    BY <2>1, <2>2, QueuePositive DEF TypeOK
  <2>4. mirror' \in [Files -> Texts \cup {Closed}]
    BY <1>5, <2>2, AppliedTyped DEF FlushOne, TypeOK
  <2> QED BY <1>5, <2>2, <2>3, <2>4 DEF FlushOne, clientVars, TypeOK
<1>6. CASE JdtlsExits
  BY <1>6 DEF JdtlsExits, clientVars, TypeOK
<1>7. CASE UNCHANGED vars
  BY <1>7 DEF vars, TypeOK
<1> QED BY <1>1, <1>2, <1>3, <1>4, <1>5, <1>6, <1>7 DEF Next

\* Nothing is queued once jdtls is available and the flush has copied the queue.
DrainInv ==
    /\ phase \in {"flushing", "running"} /\ available => queue = <<>>
    /\ phase \in {"idle", "starting", "failed"} => ~available

LEMMA DrainStep == DrainInv /\ [Next]_vars => DrainInv'
<1> SUFFICES ASSUME DrainInv, [Next]_vars PROVE DrainInv'
  OBVIOUS
<1>1. ASSUME NEW f \in Files, OnDidOpen(f) PROVE DrainInv'
  <2>1. available => queue' = queue
    <3>1. available => phase # "failed"
      BY DEF DrainInv
    <3> QED BY <1>1, <3>1 DEF OnDidOpen
  <2> QED BY <1>1, <2>1 DEF OnDidOpen, DrainInv
<1>2. ASSUME NEW f \in Files, OnDidChange(f) \/ OnDidClose(f) PROVE DrainInv'
  <2>1. UNCHANGED <<phase, available>> /\ \E e : ForwardOrQueue(e)
    BY <1>2 DEF OnDidChange, OnDidClose
  <2>2. available => queue' = queue
    BY <2>1 DEF ForwardOrQueue
  <2> QED BY <2>1, <2>2 DEF DrainInv
<1>3. CASE StartSucceeds \/ StartFails \/ FlushBegins \/ FlushOne \/ FlushEnds \/ JdtlsExits
           \/ Cooldown
  BY <1>3 DEF StartSucceeds, StartFails, FlushBegins, FlushOne, FlushEnds, JdtlsExits, Cooldown,
              clientVars, DrainInv
<1>4. CASE UNCHANGED vars
  BY <1>4 DEF vars, DrainInv
<1> QED BY <1>1, <1>2, <1>3, <1>4 DEF Next

----------------------------------------------------------------------------
(* What jdtls has after a replay.                                          *)

Mirrors == [Files -> Texts \cup {Closed}]

\* f[k] is what jdtls has after the first k entries of es.
Replays(f, m, es) ==
    /\ f \in [0 .. Len(es) -> Mirrors] /\ f[0] = m
    /\ \A k \in 1 .. Len(es) : f[k] = Applied(f[k - 1], es[k])

\* A replay goes on one entry after the other.
LEMMA ReplayFolds ==
    ASSUME NEW m \in Mirrors, NEW es \in Seq(Entry)
    PROVE  \E f : Replays(f, m, es) /\ f[Len(es)] = Replay(m, es)
<1> DEFINE n == Len(es)
           g == [p \in (1 .. n) \X Mirrors |-> Applied(p[2], es[p[1]])]
           Is(h) == h = [T \in SUBSET DOMAIN es |->
                            IF T = {} THEN m ELSE Applied(h[T \ {Max(T)}], es[Max(T)])]
           fold == CHOOSE h : Is(h)
<1>1. n \in Nat /\ DOMAIN es = 1 .. n /\ \A k \in 1 .. n : es[k] \in Entry
  OBVIOUS
<1>2. \A k \in 1 .. n, v \in Mirrors : Applied(v, es[k]) \in Mirrors /\ g[<<k, v>>] = Applied(v, es[k])
  BY <1>1, AppliedTyped DEF Mirrors
<1>3. g \in [(1 .. n) \X Mirrors -> Mirrors]
  BY <1>2
<1>4. Replay(m, es) = fold[DOMAIN es]
  BY DEF Replay, FoldLeft, MapThenFoldSet
<1>5. \E h : Is(h)
  <2>1. PICK h : Folds(h, Mirrors, m, g, n)
    <3> HIDE DEF g
    <3> QED BY <1>1, <1>3, FoldExists
  <2>2. h \in [SUBSET DOMAIN es -> Mirrors]
    BY <1>1, <2>1 DEF Folds
  <2>3. ASSUME NEW T \in SUBSET DOMAIN es, T # {}
        PROVE  h[T] = Applied(h[T \ {Max(T)}], es[Max(T)])
    <3>1. T \in SUBSET (1 .. n) /\ Max(T) \in 1 .. n /\ T \ {Max(T)} \in SUBSET (1 .. n)
      BY <1>1, <2>1, <2>3 DEF Folds
    <3>2. h[T \ {Max(T)}] \in Mirrors /\ h[T] = g[<<Max(T), h[T \ {Max(T)}]>>]
      BY <2>1, <2>3, <3>1 DEF Folds
    <3> QED BY <1>2, <3>1, <3>2
  <2>4. h[{}] = m
    BY <2>1 DEF Folds
  <2> QED BY <2>2, <2>3, <2>4
<1>6. Is(fold)
  <2> HIDE DEF Is
  <2> QED BY <1>5
<1>7. fold[1 .. 0] = m /\ \A k \in 1 .. n : fold[1 .. k] = Applied(fold[1 .. k - 1], es[k])
  <2>1. 1 .. 0 = {} /\ {} \in SUBSET DOMAIN es
    OBVIOUS
  <2>2. fold[{}] = m
    <3> HIDE DEF fold
    <3> QED BY <2>1, <1>6
  <2>3. ASSUME NEW k \in 1 .. n PROVE fold[1 .. k] = Applied(fold[1 .. k - 1], es[k])
    <3>1. (1 .. k) \in SUBSET DOMAIN es /\ (1 .. k) # {} /\ Max(1 .. k) = k
          /\ (1 .. k) \ {k} = 1 .. k - 1
      BY <1>1, InitialIndices
    <3> HIDE DEF fold
    <3>2. fold[1 .. k] = Applied(fold[(1 .. k) \ {Max(1 .. k)}], es[Max(1 .. k)])
      BY <3>1, <1>6
    <3> QED BY <3>1, <3>2
  <2> HIDE DEF fold
  <2> QED BY <2>1, <2>2, <2>3
<1>8. \A k \in 0 .. n : fold[1 .. k] \in Mirrors
  <2> HIDE DEF fold, n
  <2> DEFINE Q == {k \in Nat : k <= n => fold[1 .. k] \in Mirrors}
  <2>1. 0 \in Q
    BY <1>7
  <2>2. ASSUME NEW k \in Nat, k \in Q PROVE k + 1 \in Q
    <3> SUFFICES ASSUME k + 1 <= n PROVE fold[1 .. k + 1] \in Mirrors
      OBVIOUS
    <3>1. fold[1 .. k] \in Mirrors /\ k + 1 \in 1 .. n /\ (k + 1) - 1 = k
      BY <1>1, <2>2
    <3> QED BY <1>2, <1>7, <3>1
  <2>3. Nat \subseteq Q
    <3> HIDE DEF Q
    <3> QED BY <2>1, <2>2, SetInduction
  <2> QED BY <1>1, <2>3
<1> DEFINE f == [k \in 0 .. n |-> fold[1 .. k]]
<1>9. f \in [0 .. n -> Mirrors]
  <2> HIDE DEF fold
  <2> QED BY <1>8
<1>10. f[0] = m /\ f[n] = Replay(m, es)
  <2> HIDE DEF fold
  <2> QED BY <1>1, <1>4, <1>7
<1>11. \A k \in 1 .. n : f[k] = Applied(f[k - 1], es[k])
  <2> HIDE DEF fold
  <2> QED BY <1>1, <1>7
<1> HIDE DEF f
<1> QED BY <1>9, <1>10, <1>11 DEF Replays

\* What an entry leaves of a file depends on no other file.
LEMMA AppliedAt ==
    ASSUME NEW m \in Mirrors, NEW e \in Entry, NEW x \in Files
    PROVE  Applied(m, e)[x] =
             IF e.file # x THEN m[x]
             ELSE IF e.kind = "open" \/ (e.kind = "change" /\ m[x] # Closed) THEN e.text
             ELSE Closed
<1>1. CASE e.kind = "open"
  BY <1>1 DEF Applied, Mirrors
<1>2. CASE e.kind = "change"
  BY <1>2 DEF Applied, Mirrors
<1>3. CASE e.kind = "close"
  BY <1>3 DEF Applied, Mirrors
<1> QED BY <1>1, <1>2, <1>3 DEF Entry, Kinds

\* What a notification leaves of a file only depends on what there was of that file.
LEMMA AppliedAgrees ==
    ASSUME NEW m \in Mirrors, NEW o \in Mirrors, NEW e \in Entry, NEW x \in Files, m[x] = o[x]
    PROVE  Applied(m, e)[x] = Applied(o, e)[x]
<1>1. Applied(m, e)[x] = IF e.file # x THEN m[x]
                         ELSE IF e.kind = "open" \/ (e.kind = "change" /\ m[x] # Closed) THEN e.text
                         ELSE Closed
  BY AppliedAt
<1>2. Applied(o, e)[x] = IF e.file # x THEN o[x]
                         ELSE IF e.kind = "open" \/ (e.kind = "change" /\ o[x] # Closed) THEN e.text
                         ELSE Closed
  BY AppliedAt
<1> QED BY <1>1, <1>2

\* Two replays of the same entries, from the same text of a file, leave the same text.
LEMMA RunsAgree ==
    ASSUME NEW f, NEW m, NEW es \in Seq(Entry), Replays(f, m, es),
           NEW g, NEW o, NEW us \in Seq(Entry), Replays(g, o, us),
           NEW d \in Nat, NEW n \in Nat, n + d <= Len(es), n <= Len(us),
           \A k \in 1 .. n : us[k] = es[k + d],
           NEW x \in Files, f[d][x] = o[x]
    PROVE  f[n + d][x] = g[n][x]
<1> DEFINE Q == {k \in Nat : k <= n => f[k + d][x] = g[k][x]}
<1>1. 0 \in Q
  BY DEF Replays
<1>2. ASSUME NEW k \in Nat, k \in Q PROVE k + 1 \in Q
  <2> SUFFICES ASSUME k + 1 <= n PROVE f[(k + 1) + d][x] = g[k + 1][x]
    OBVIOUS
  <2> DEFINE i == k + 1
             p == i + d
  <2>1. /\ i \in 1 .. n /\ i \in 1 .. Len(us) /\ p \in 1 .. Len(es) /\ p - 1 = k + d
        /\ i - 1 = k /\ k \in 0 .. Len(us) /\ k + d \in 0 .. Len(es)
    OBVIOUS
  <2>2. f[k + d][x] = g[k][x]
    BY <1>2
  <2> HIDE DEF Q, i, p
  <2>3. f[p] = Applied(f[k + d], es[p]) /\ f[k + d] \in Mirrors
    BY <2>1 DEF Replays
  <2>4. g[i] = Applied(g[k], us[i]) /\ g[k] \in Mirrors
    BY <2>1 DEF Replays
  <2>5. us[i] = es[p] /\ es[p] \in Entry
    BY <2>1 DEF p
  <2>6. f[p][x] = g[i][x]
    BY <2>2, <2>3, <2>4, <2>5, AppliedAgrees
  <2> QED BY <2>6 DEF i, p
<1>3. Nat \subseteq Q
  <2> HIDE DEF Q
  <2> QED BY <1>1, <1>2, SetInduction
<1> QED BY <1>3

LEMMA ReplayTyped ==
    ASSUME NEW m \in Mirrors, NEW es \in Seq(Entry)
    PROVE  Replay(m, es) \in Mirrors
<1>1. PICK f : Replays(f, m, es) /\ f[Len(es)] = Replay(m, es)
  BY ReplayFolds
<1> QED BY <1>1 DEF Replays

LEMMA ReplayEmpty ==
    ASSUME NEW m \in Mirrors
    PROVE  Replay(m, <<>>) = m
<1>1. <<>> \in Seq(Entry) /\ Len(<<>>) = 0
  OBVIOUS
<1>2. PICK f : Replays(f, m, <<>>) /\ f[Len(<<>>)] = Replay(m, <<>>)
  BY <1>1, ReplayFolds
<1> QED BY <1>1, <1>2 DEF Replays

\* An entry that is queued is applied last.
LEMMA ReplayAppend ==
    ASSUME NEW m \in Mirrors, NEW es \in Seq(Entry), NEW e \in Entry, NEW x \in Files
    PROVE  Replay(m, Append(es, e))[x] = Applied(Replay(m, es), e)[x]
<1> DEFINE us == Append(es, e)
           n == Len(es)
<1>1. /\ us \in Seq(Entry) /\ Len(us) = n + 1 /\ us[n + 1] = e /\ n \in Nat
      /\ \A k \in 1 .. n : es[k] = us[k]
  OBVIOUS
<1> HIDE DEF us
<1>2. PICK f : Replays(f, m, us) /\ f[Len(us)] = Replay(m, us)
  BY <1>1, ReplayFolds
<1>3. PICK g : Replays(g, m, es) /\ g[Len(es)] = Replay(m, es)
  BY ReplayFolds
<1>4. f[n][x] = g[n][x]
  <2> DEFINE z == 0
  <2>1. /\ n + z <= Len(us) /\ n <= Len(es) /\ z \in Nat /\ n + z = n
        /\ us \in Seq(Entry) /\ n \in Nat /\ \A k \in 1 .. n : es[k] = us[k + z]
    BY <1>1
  <2>2. f[z][x] = m[x] /\ Replays(f, m, us) /\ Replays(g, m, es)
    BY <1>2, <1>3 DEF Replays
  <2> HIDE DEF n, z
  <2>3. f[n + z][x] = g[n][x]
    BY <2>1, <2>2, RunsAgree
  <2> QED BY <2>1, <2>3
<1>5. f[n + 1] = Applied(f[n], e) /\ f[n] \in Mirrors /\ g[n] \in Mirrors
  <2> DEFINE i == n + 1
  <2>1. i \in 1 .. Len(us) /\ i - 1 = n /\ n \in 0 .. Len(us) /\ n \in 0 .. Len(es)
    BY <1>1
  <2> HIDE DEF i, n
  <2>2. f[i] = Applied(f[n], us[i]) /\ f[n] \in Mirrors /\ g[n] \in Mirrors
    BY <1>2, <1>3, <2>1 DEF Replays
  <2> QED BY <1>1, <2>2 DEF i
<1> HIDE DEF n
<1>7. Applied(f[n], e)[x] = Applied(g[n], e)[x]
  BY <1>4, <1>5, AppliedAt
<1> QED BY <1>1, <1>2, <1>3, <1>5, <1>7 DEF us, n

\* The first entry may be applied ahead of the others; one that is not, of another file,
\* makes no difference.
LEMMA ReplayHead ==
    ASSUME NEW m \in Mirrors, NEW es \in Seq(Entry), es # <<>>, NEW x \in Files,
           NEW o \in Mirrors, o[x] = Applied(m, Head(es))[x]
    PROVE  Replay(o, Tail(es))[x] = Replay(m, es)[x]
<1> DEFINE us == Tail(es)
           n == Len(us)
<1>1. /\ us \in Seq(Entry) /\ Len(es) = n + 1 /\ n \in Nat /\ es[1] = Head(es)
      /\ \A k \in 1 .. n : us[k] = es[k + 1]
  OBVIOUS
<1> HIDE DEF us
<1>2. PICK f : Replays(f, m, es) /\ f[Len(es)] = Replay(m, es)
  BY ReplayFolds
<1>3. PICK g : Replays(g, o, us) /\ g[Len(us)] = Replay(o, us)
  BY <1>1, ReplayFolds
<1>4. f[1][x] = o[x]
  <2>1. 1 \in 1 .. Len(es) /\ 1 - 1 = 0
    BY <1>1
  <2>2. f[1] = Applied(f[0], es[1])
    BY <1>2, <2>1 DEF Replays
  <2> QED BY <1>1, <1>2, <2>2 DEF Replays
<1> DEFINE d == 1
<1>5. /\ n + d <= Len(es) /\ n <= Len(us) /\ d \in Nat /\ f[d][x] = o[x]
      /\ \A k \in 1 .. n : us[k] = es[k + d]
  BY <1>1, <1>4
<1>7. n + d = n + 1
  OBVIOUS
<1>8. us \in Seq(Entry) /\ n \in Nat
  BY <1>1
<1> HIDE DEF n, d
<1>6. f[n + 1][x] = g[n][x]
  <2>1. f[n + d][x] = g[n][x]
    BY <1>2, <1>3, <1>5, <1>8, RunsAgree
  <2> QED BY <1>7, <2>1
<1> QED BY <1>1, <1>2, <1>3, <1>6 DEF us, n

\* What a file has after a replay depends on what jdtls had of it ...
LEMMA ReplayOther ==
    ASSUME NEW m \in Mirrors, NEW o \in Mirrors, NEW es \in Seq(Entry), NEW x \in Files,
           m[x] = o[x]
    PROVE  Replay(o, es)[x] = Replay(m, es)[x]
<1> DEFINE n == Len(es)
<1>1. PICK f : Replays(f, m, es) /\ f[Len(es)] = Replay(m, es)
  BY ReplayFolds
<1>2. PICK g : Replays(g, o, es) /\ g[Len(es)] = Replay(o, es)
  BY ReplayFolds
<1> DEFINE z == 0
<1>3. /\ n \in Nat /\ z \in Nat /\ n + z = n /\ n + z <= Len(es) /\ n <= Len(es)
      /\ \A k \in 1 .. n : es[k] = es[k + z]
  OBVIOUS
<1>5. f[z][x] = o[x]
  BY <1>1 DEF Replays
<1> HIDE DEF n, z
<1>4. f[n + z][x] = g[n][x]
  BY <1>1, <1>2, <1>3, <1>5, RunsAgree
<1> QED BY <1>1, <1>2, <1>3, <1>4 DEF n

\* ... and on the entries that are about it.
LEMMA ReplayUntouched ==
    ASSUME NEW m \in Mirrors, NEW es \in Seq(Entry), NEW x \in Files,
           \A i \in DOMAIN es : es[i].file # x
    PROVE  Replay(m, es)[x] = m[x]
<1>1. PICK f : Replays(f, m, es) /\ f[Len(es)] = Replay(m, es)
  BY ReplayFolds
<1> DEFINE n == Len(es)
           Q == {k \in Nat : k <= n => f[k][x] = m[x]}
<1>2. n \in Nat /\ DOMAIN es = 1 .. n
  OBVIOUS
<1>3. 0 \in Q
  BY <1>1 DEF Replays
<1>4. ASSUME NEW k \in Nat, k \in Q PROVE k + 1 \in Q
  <2> SUFFICES ASSUME k + 1 <= n PROVE f[k + 1][x] = m[x]
    OBVIOUS
  <2> DEFINE i == k + 1
  <2>1. i \in 1 .. n /\ i - 1 = k /\ k \in 0 .. n
    BY <1>2
  <2>2. f[k][x] = m[x]
    BY <1>2, <1>4
  <2> HIDE DEF i, Q
  <2>3. f[i] = Applied(f[k], es[i]) /\ f[k] \in Mirrors
    BY <1>1, <2>1 DEF Replays
  <2>4. es[i] \in Entry /\ es[i].file # x
    BY <1>2, <2>1
  <2>5. f[i][x] = m[x]
    BY <2>2, <2>3, <2>4, AppliedAt
  <2> QED BY <2>5 DEF i
<1>5. Nat \subseteq Q
  <2> HIDE DEF Q
  <2> QED BY <1>3, <1>4, SetInduction
<1> QED BY <1>1, <1>2, <1>5

----------------------------------------------------------------------------
(* What is still to be flushed is current.                                 *)

Current(x) == Replay(mirror, Unflushed)[x] = text[x]

\* Until the start begins there is nothing, and until the flush begins nothing is copied.
ReplayInv ==
    /\ phase \in {"idle", "starting"} \/ available => \A x \in Files \ (lost \cup crossed) : Current(x)
    /\ phase = "idle" => text = [x \in Files |-> Closed]
    /\ phase \in {"idle", "starting", "expanding", "failed"} => batch = <<>>

\* e is what the client's text of its file becomes, from what it was.
Says(e) ==
    /\ e \in Entry /\ text' = [text EXCEPT ![e.file] = e.text]
    /\ e.kind = "change" => text[e.file] # Closed
    /\ e.kind = "close" => e.text = Closed

LEMMA HeadOfConcat ==
    ASSUME NEW s \in Seq(Entry), NEW t \in Seq(Entry), s # <<>>
    PROVE  s \o t # <<>> /\ Head(s \o t) = Head(s) /\ Tail(s \o t) = Tail(s) \o t
<1>1. s \o t \in Seq(Entry) /\ Len(s \o t) = Len(s) + Len(t) /\ Len(s) > 0 /\ Len(t) \in Nat
      /\ Len(s) \in Nat
  OBVIOUS
<1>2. s \o t # <<>> /\ Head(s \o t) = Head(s)
  BY <1>1
<1>3. /\ Tail(s) \in Seq(Entry) /\ Len(Tail(s)) = Len(s) - 1
      /\ \A i \in 1 .. Len(s) - 1 : Tail(s)[i] = s[i + 1]
  BY <1>1
<1> DEFINE u == Tail(s \o t)
           v == Tail(s) \o t
<1>4. u \in Seq(Entry) /\ Len(u) = Len(s) + Len(t) - 1
  BY <1>1, <1>2
<1>5. v \in Seq(Entry) /\ Len(v) = Len(s) + Len(t) - 1
  BY <1>1, <1>3
<1>6. ASSUME NEW i \in 1 .. Len(u) PROVE u[i] = v[i]
  <2>1. u[i] = (s \o t)[i + 1]
    BY <1>1, <1>2, <1>4
  <2>2. CASE i <= Len(s) - 1
    <3>1. v[i] = Tail(s)[i] /\ (s \o t)[i + 1] = s[i + 1]
      BY <1>1, <1>3, <1>4, <2>2
    <3> QED BY <1>3, <2>1, <2>2, <3>1
  <2>3. CASE i > Len(s) - 1
    BY <1>1, <1>3, <1>4, <2>1, <2>3
  <2> QED BY <1>1, <2>2, <2>3
<1>7. u = v
  <2> HIDE DEF u, v
  <2> QED BY <1>1, <1>4, <1>5, <1>6
<1> QED BY <1>2, <1>7

LEMMA UnflushedTyped ==
    ASSUME TypeOK
    PROVE  Unflushed \in Seq(Entry) /\ mirror \in Mirrors /\ Replay(mirror, Unflushed) \in Mirrors
<1>1. Unflushed \in Seq(Entry) /\ mirror \in Mirrors
  BY DEF TypeOK, Unflushed, Mirrors
<1> QED BY <1>1, ReplayTyped

\* A queued notification of a starting jdtls: whatever it drops is recorded as lost.
LEMMA QueuedIsCurrent ==
    ASSUME TypeOK, NEW e, Says(e), Queue(e), batch = <<>>, UNCHANGED <<mirror, batch, crossed>>,
           NEW x \in Files \ (lost' \cup crossed'), x \notin lost \cup crossed => Current(x)
    PROVE  Current(x)'
<1>1. /\ queue \in Seq(Entry) /\ Unflushed = queue /\ Unflushed' = queue' /\ e \in Entry
      /\ mirror \in Mirrors /\ mirror' = mirror /\ text \in Mirrors /\ crossed' = crossed
  BY DEF TypeOK, Unflushed, Says, Mirrors
<1>2. x \notin lost \cup crossed
  BY <1>1 DEF Queue
<1>3. Replay(mirror, queue)[x] = text[x]
  BY <1>1, <1>2 DEF Current
<1>4. PICK kept \in Seq(Entry) : queue' = Append(kept, e) /\ Replay(mirror, kept)[x] = text[x]
  <2>1. CASE Len(queue) < MaxQueued
    BY <1>1, <1>3, <2>1 DEF Queue
  <2>2. CASE ~(Len(queue) < MaxQueued)
    <3>1. queue' = Append(Tail(queue), e) /\ Head(queue).file # x
      BY <2>2 DEF Queue
    <3>2. queue # <<>>
      BY <2>2, QueuePositive
    <3>3. Tail(queue) \in Seq(Entry) /\ Head(queue) \in Entry
      BY <1>1, <3>2
    <3>4. Applied(mirror, Head(queue))[x] = mirror[x]
      BY <1>1, <3>1, <3>3, AppliedAt
    <3>5. Replay(mirror, Tail(queue))[x] = Replay(mirror, queue)[x]
      BY <1>1, <3>2, <3>4, ReplayHead
    <3> QED BY <1>3, <3>1, <3>3, <3>5
  <2> QED BY <2>1, <2>2
<1>5. Replay(mirror, queue')[x] = Applied(Replay(mirror, kept), e)[x]
  BY <1>1, <1>4, ReplayAppend
<1>6. Replay(mirror, kept) \in Mirrors
  BY <1>1, ReplayTyped
<1>7. Applied(Replay(mirror, kept), e)[x] = text'[x]
  <2>1. CASE e.file # x
    BY <1>1, <1>4, <1>6, <2>1, AppliedAt DEF Says, Mirrors
  <2>2. CASE e.file = x
    BY <1>1, <1>4, <1>6, <2>2, AppliedAt DEF Says, Mirrors, Entry, Kinds
  <2> QED BY <2>1, <2>2
<1> QED BY <1>1, <1>5, <1>7 DEF Current

\* A notification that is forwarded overtakes no entry of its file, or is recorded as
\* crossing it.
LEMMA ForwardedIsCurrent ==
    ASSUME TypeOK, NEW e, Says(e), Forward(e), UNCHANGED <<queue, batch, lost>>,
           NEW x \in Files \ (lost' \cup crossed'), x \notin lost \cup crossed => Current(x)
    PROVE  Current(x)'
<1>1. /\ Unflushed \in Seq(Entry) /\ Unflushed' = Unflushed /\ e \in Entry /\ text \in Mirrors
      /\ mirror \in Mirrors /\ mirror' = Applied(mirror, e) /\ mirror' \in Mirrors
  BY UnflushedTyped, AppliedTyped DEF TypeOK, Unflushed, Says, Forward, Mirrors
<1>2. x \notin lost \cup crossed
  BY DEF Forward
<1>3. Replay(mirror, Unflushed)[x] = text[x]
  BY <1>2 DEF Current
<1>4. CASE e.file # x
  <2>1. mirror'[x] = mirror[x] /\ text'[x] = text[x]
    BY <1>1, <1>4, AppliedAt DEF Says, Mirrors
  <2>2. Replay(mirror', Unflushed)[x] = Replay(mirror, Unflushed)[x]
    BY <1>1, <2>1, ReplayOther
  <2> QED BY <1>1, <1>3, <2>1, <2>2 DEF Current
<1>5. CASE e.file = x
  <2>1. \A i \in DOMAIN Unflushed : Unflushed[i].file # x
    BY <1>5 DEF Forward
  <2>2. Replay(mirror, Unflushed)[x] = mirror[x] /\ Replay(mirror', Unflushed)[x] = mirror'[x]
    BY <1>1, <2>1, ReplayUntouched
  <2>3. mirror'[x] = text'[x]
    BY <1>1, <1>3, <1>5, <2>2, AppliedAt DEF Says, Mirrors, Entry, Kinds
  <2> QED BY <1>1, <2>2, <2>3 DEF Current
<1> QED BY <1>4, <1>5

\* A notification of the client, if it is neither dropped before the start nor after it.
LEMMA NotifiedIsCurrent ==
    ASSUME TypeOK, DrainInv, ReplayInv, NEW e, Says(e),
           \/ available /\ Forward(e) /\ UNCHANGED <<queue, lost>>
           \/ ~available /\ Queue(e) /\ UNCHANGED <<mirror, crossed>>
           \/ ~available /\ phase = "failed" /\ UNCHANGED <<queue, lost, mirror, crossed>>,
           UNCHANGED <<available, batch>>,
           phase' = phase \/ (phase = "idle" /\ phase' = "starting"), phase' # "idle"
    PROVE  ReplayInv'
<1>1. ASSUME phase' = "starting" \/ available', NEW x \in Files \ (lost' \cup crossed')
      PROVE  Current(x)'
  <2>1. phase \in {"idle", "starting"} \/ available
    BY <1>1
  <2>2. x \notin lost \cup crossed => Current(x)
    BY <2>1 DEF ReplayInv
  <2>3. CASE available
    BY <1>1, <2>2, <2>3, ForwardedIsCurrent
  <2>4. CASE ~available
    <3>1. phase \in {"idle", "starting"} /\ Queue(e) /\ UNCHANGED <<mirror, crossed>>
      BY <1>1, <2>4
    <3>2. batch = <<>>
      BY <3>1 DEF ReplayInv
    <3> QED BY <2>2, <3>1, <3>2, QueuedIsCurrent
  <2> QED BY <2>3, <2>4
<1>2. phase' \in {"idle", "starting", "expanding", "failed"} => batch' = <<>>
  BY DEF ReplayInv
<1> QED BY <1>1, <1>2 DEF ReplayInv

LEMMA ReplayStep == TypeOK /\ DrainInv /\ ReplayInv /\ [Next]_vars => ReplayInv'
<1> SUFFICES ASSUME TypeOK, DrainInv, ReplayInv, [Next]_vars PROVE ReplayInv'
  OBVIOUS
<1>1. ASSUME NEW f \in Files, OnDidOpen(f) PROVE ReplayInv'
  <2>1. PICK t \in Texts :
          LET e == [kind |-> "open", file |-> f, text |-> t]
          IN  /\ text' = [text EXCEPT ![f] = t]
              /\ \/ available /\ Forward(e) /\ UNCHANGED <<queue, lost>>
                 \/ ~available /\ Queue(e) /\ UNCHANGED <<mirror, crossed>>
                 \/ phase = "failed" /\ UNCHANGED <<queue, lost, mirror, crossed>>
    BY <1>1 DEF OnDidOpen
  <2> DEFINE e == [kind |-> "open", file |-> f, text |-> t]
  <2>2. Says(e)
    BY <2>1 DEF Says, Entry, Kinds
  <2>3. phase = "failed" => ~available
    BY DEF DrainInv
  <2>4. UNCHANGED <<available, batch>> /\ phase' = IF phase = "idle" THEN "starting" ELSE phase
    BY <1>1 DEF OnDidOpen
  <2> HIDE DEF e
  <2> QED BY <2>1, <2>2, <2>3, <2>4, NotifiedIsCurrent DEF e
<1>2. ASSUME NEW f \in Files, OnDidChange(f) \/ OnDidClose(f) PROVE ReplayInv'
  <2>1. PICK e : Says(e) /\ ForwardOrQueue(e)
    <3>1. CASE OnDidChange(f)
      <4>1. PICK t \in Texts : /\ text' = [text EXCEPT ![f] = t]
                               /\ ForwardOrQueue([kind |-> "change", file |-> f, text |-> t])
        BY <3>1 DEF OnDidChange
      <4>2. Says([kind |-> "change", file |-> f, text |-> t])
        BY <3>1, <4>1 DEF OnDidChange, Says, Entry, Kinds
      <4> QED BY <4>1, <4>2
    <3>2. CASE OnDidClose(f)
      <4>1. Says([kind |-> "close", file |-> f, text |-> Closed])
        BY <3>2 DEF OnDidClose, Says, Entry, Kinds
      <4> QED BY <3>2, <4>1 DEF OnDidClose
    <3> QED BY <1>2, <3>1, <3>2
  <2>2. UNCHANGED <<phase, available, batch>> /\ text[f] # Closed
    BY <1>2 DEF OnDidChange, OnDidClose
  <2>3. phase # "idle"
    BY <2>2 DEF ReplayInv
  <2> QED BY <2>1, <2>2, <2>3, NotifiedIsCurrent DEF ForwardOrQueue
<1>3. CASE StartSucceeds \/ FlushEnds \/ Cooldown \/ UNCHANGED vars
  <2>1. /\ UNCHANGED <<text, mirror, queue, batch, lost, crossed>>
        /\ phase' \in {"idle", "starting"} \/ available' =>
              phase \in {"idle", "starting"} \/ available
        /\ phase' = "idle" => phase = "idle"
        /\ phase' \in {"idle", "starting", "expanding", "failed"} =>
              phase \in {"idle", "starting", "expanding", "failed"}
    BY <1>3 DEF StartSucceeds, FlushEnds, Cooldown, vars, clientVars
  <2>2. \A x \in Files : Current(x) => Current(x)'
    BY <2>1 DEF Current, Unflushed
  <2> QED BY <2>1, <2>2 DEF ReplayInv
<1>7. CASE StartFails
  BY <1>7 DEF StartFails, clientVars, DrainInv, ReplayInv
<1>4. CASE FlushBegins
  <2>1. /\ phase = "expanding" /\ phase' = "flushing" /\ batch' = queue /\ queue' = <<>>
        /\ UNCHANGED <<text, lost, crossed, mirror, available>>
    BY <1>4 DEF FlushBegins, clientVars
  <2>2. batch = <<>> /\ queue \in Seq(Entry)
    BY <2>1 DEF ReplayInv, TypeOK
  <2>3. Unflushed = queue /\ Unflushed' = queue
    BY <2>1, <2>2 DEF Unflushed
  <2> QED BY <2>1, <2>3 DEF ReplayInv, Current
<1>5. CASE FlushOne
  <2>1. /\ phase = "flushing" /\ phase' = "flushing" /\ batch # <<>> /\ batch' = Tail(batch)
        /\ mirror' = IF available THEN Applied(mirror, Head(batch)) ELSE mirror
        /\ UNCHANGED <<text, lost, crossed, queue, available>>
    BY <1>5 DEF FlushOne, clientVars
  <2>2. ASSUME available, NEW x \in Files \ (lost \cup crossed) PROVE Current(x)'
    <3>1. batch \in Seq(Entry) /\ queue \in Seq(Entry) /\ Unflushed \in Seq(Entry) /\ mirror \in Mirrors
      BY UnflushedTyped DEF TypeOK
    <3>2. Unflushed # <<>> /\ Head(Unflushed) = Head(batch) /\ Tail(Unflushed) = Unflushed'
      <4>1. Unflushed = batch \o queue /\ Unflushed' = Tail(batch) \o queue
        BY <2>1 DEF Unflushed
      <4>2. /\ batch \o queue # <<>> /\ Head(batch \o queue) = Head(batch)
            /\ Tail(batch \o queue) = Tail(batch) \o queue
        BY <2>1, <3>1, HeadOfConcat
      <4> QED BY <4>1, <4>2
    <3>3. Head(batch) \in Entry
      BY <2>1, <3>1
    <3>4. mirror' = Applied(mirror, Head(Unflushed)) /\ mirror' \in Mirrors
      BY <2>1, <2>2, <3>1, <3>2, <3>3, AppliedTyped DEF Mirrors
    <3>5. Replay(mirror', Tail(Unflushed))[x] = Replay(mirror, Unflushed)[x]
      BY <3>1, <3>2, <3>4, ReplayHead
    <3>6. Current(x)
      BY <2>2 DEF ReplayInv
    <3> QED BY <2>1, <3>2, <3>5, <3>6 DEF Current
  <2> QED BY <2>1, <2>2 DEF ReplayInv
<1>6. CASE JdtlsExits
  BY <1>6 DEF JdtlsExits, clientVars, ReplayInv, DrainInv
<1> QED BY <1>1, <1>2, <1>3, <1>4, <1>5, <1>6, <1>7 DEF Next

LEMMA ReplayInit == Init => ReplayInv
<1> SUFFICES ASSUME Init PROVE ReplayInv
  OBVIOUS
<1>1. Unflushed = <<>> /\ mirror \in Mirrors /\ text = mirror
  BY DEF Init, Unflushed, Mirrors
<1> QED BY <1>1, ReplayEmpty DEF Init, ReplayInv, Current

----------------------------------------------------------------------------
(* When jdtls has what the client has.                                     *)

\* The flush ends with its copy.
FlushedInv == phase = "running" => batch = <<>>

LEMMA FlushedStep == FlushedInv /\ [Next]_vars => FlushedInv'
<1> SUFFICES ASSUME FlushedInv, [Next]_vars PROVE FlushedInv'
  OBVIOUS
<1>1. ASSUME NEW f \in Files, OnDidOpen(f) \/ OnDidChange(f) \/ OnDidClose(f) PROVE FlushedInv'
  BY <1>1 DEF OnDidOpen, OnDidChange, OnDidClose, FlushedInv
<1>2. CASE StartSucceeds \/ StartFails \/ FlushBegins \/ FlushOne \/ FlushEnds \/ JdtlsExits
           \/ Cooldown \/ UNCHANGED vars
  BY <1>2 DEF StartSucceeds, StartFails, FlushBegins, FlushOne, FlushEnds, JdtlsExits, Cooldown,
              clientVars, vars, FlushedInv
<1> QED BY <1>1, <1>2 DEF Next

\* A handler that runs while the start does not suspend finds nothing unflushed beside an
\* available jdtls.
LEMMA ForwardedIsPrompt ==
    ASSUME TypeOK, DrainInv, FlushedInv, ~Suspends, crossed = {}, HandlersRun, available,
           NEW e, Forward(e)
    PROVE  crossed' = {}
<1>1. phase = "running"
  BY DEF HandlersRun, DrainInv, TypeOK
<1>2. batch = <<>> /\ queue = <<>>
  BY <1>1 DEF FlushedInv, DrainInv
<1>3. Unflushed = <<>>
  BY <1>2 DEF Unflushed
<1>4. DOMAIN Unflushed = {}
  BY <1>3
<1> QED BY <1>4 DEF Forward

LEMMA PromptStep ==
    ASSUME TypeOK, DrainInv, FlushedInv, ~Suspends, crossed = {}, [Next]_vars
    PROVE  crossed' = {}
<1>1. ASSUME NEW f \in Files, OnDidOpen(f) PROVE crossed' = {}
  BY <1>1, ForwardedIsPrompt DEF OnDidOpen
<1>2. ASSUME NEW f \in Files, OnDidChange(f) \/ OnDidClose(f) PROVE crossed' = {}
  <2>1. HandlersRun /\ \E e : ForwardOrQueue(e)
    BY <1>2 DEF OnDidChange, OnDidClose
  <2> QED BY <2>1, ForwardedIsPrompt DEF ForwardOrQueue
<1>3. CASE StartSucceeds \/ StartFails \/ FlushBegins \/ FlushOne \/ FlushEnds \/ JdtlsExits
           \/ Cooldown \/ UNCHANGED vars
  BY <1>3 DEF StartSucceeds, StartFails, FlushBegins, FlushOne, FlushEnds, JdtlsExits, Cooldown,
              clientVars, vars
<1> QED BY <1>1, <1>2, <1>3 DEF Next

\* With nothing unflushed, a replay that is current is what jdtls has.
LEMMA FlushedIsCurrent ==
    ASSUME TypeOK, DrainInv, FlushedInv, ReplayInv, phase = "running", available,
           NEW x \in Files \ (lost \cup crossed)
    PROVE  mirror[x] = text[x]
<1>1. Unflushed = <<>>
  BY DEF FlushedInv, DrainInv, Unflushed
<1>2. Replay(mirror, Unflushed) = mirror
  BY <1>1, ReplayEmpty DEF TypeOK, Mirrors
<1> QED BY <1>2 DEF ReplayInv, Current

----------------------------------------------------------------------------
(* The theorems.                                                           *)

LEMMA DrainAlways == Spec => []DrainInv
<1>1. Init => DrainInv
  BY DEF Init, DrainInv
<1> QED BY <1>1, DrainStep, PTL DEF Spec

LEMMA FlushedAlways == Spec => []FlushedInv
<1>1. Init => FlushedInv
  BY DEF Init, FlushedInv
<1> QED BY <1>1, FlushedStep, PTL DEF Spec

LEMMA ReplayAlways == Spec => []ReplayInv
<1>1. Spec => []TypeOK
  BY TypeInit, TypeStep, PTL DEF Spec
<1>2. TypeOK /\ DrainInv /\ ReplayInv /\ [Next]_vars => ReplayInv'
  BY ReplayStep
<1> QED BY <1>1, <1>2, ReplayInit, DrainAlways, PTL DEF Spec

\* The queue and the flush's copy stay within the deque's limit, whatever it is (TypeOK).
THEOREM TypeCorrect == Spec => []TypeOK
BY TypeInit, TypeStep, PTL DEF Spec

\* After its one flush no notification is stranded in the queue of a running jdtls
\* (QueueIsDrained).
THEOREM FlushDrainsTheQueue == Spec => []QueueIsDrained
<1>1. DrainInv => QueueIsDrained
  BY DEF DrainInv, QueueIsDrained
<1> QED BY <1>1, DrainAlways, PTL

\* From the first open on, what jdtls has and is still to be sent adds up to what the
\* client has, whatever is edited during the start, queued, dropped, flushed or forwarded;
\* but for the files the property exempts (ReplayIsCurrent).
THEOREM NothingIsMissedByTheReplay == Spec => []ReplayIsCurrent
<1>1. ReplayInv => ReplayIsCurrent
  BY DEF ReplayInv, ReplayIsCurrent, Current
<1> QED BY <1>1, ReplayAlways, PTL

\* A file that a running jdtls has not got the text of was notified past its own entries
\* in the queue, or lost one of them: there is no other way (MirrorIsCurrent's exceptions).
THEOREM StaleFilesWereCrossed ==
    Spec => [](phase = "running" /\ available =>
                  \A x \in Files : mirror[x] # text[x] => x \in lost \cup crossed)
<1>1. TypeOK /\ DrainInv /\ FlushedInv /\ ReplayInv =>
        (phase = "running" /\ available =>
            \A x \in Files : mirror[x] # text[x] => x \in lost \cup crossed)
  BY FlushedIsCurrent
<1> QED BY <1>1, TypeCorrect, DrainAlways, FlushedAlways, ReplayAlways, PTL

\* If no await of the start suspends once jdtls is available, what its docstring says of
\* _forward_or_queue holds: a running jdtls has the text of every file the queue did not
\* drop (MirrorIsCurrent).
THEOREM PromptStartKeepsTheMirror ==
    ASSUME ~Suspends
    PROVE  Spec => []MirrorIsCurrent
<1>1. Init => crossed = {}
  BY DEF Init
<1>2. TypeOK /\ DrainInv /\ FlushedInv /\ crossed = {} /\ [Next]_vars => (crossed = {})'
  BY PromptStep
<1>3. TypeOK /\ DrainInv /\ FlushedInv /\ ReplayInv /\ crossed = {} => MirrorIsCurrent
  BY FlushedIsCurrent DEF MirrorIsCurrent
<1> QED BY <1>1, <1>2, <1>3, TypeCorrect, DrainAlways, FlushedAlways, ReplayAlways, PTL DEF Spec
=============================================================================
