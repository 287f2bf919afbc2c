----------------------- MODULE DependencyRoundsProofs -----------------------
(***************************************************************************)
(* What the round controller keeps for every set of files and modules,     *)
(* every dependency graph and every limit.  The lemmas from StopResult to  *)
(* ProbeResult follow the controller's task, as the operators do: whatever *)
(* it runs through up to its next await leaves a Result.                   *)
(***************************************************************************)
EXTENDS ImportRefinement, SequenceFolds

SomeFiles == Files \cup {None}
Locals ==
    [pc : {"none", "start", "idle", "refresh", "backoff", "markers", "index", "quiet", "sending", "build"},
     new : SUBSET Modules, todo : SUBSET Files, file : SomeFiles, attempt : {1, 2},
     reply : {"none", "yes", "no"}, demand : SUBSET Files, still : SUBSET Files,
     awaited : SUBSET Modules, late : BOOLEAN, again : BOOLEAN]
SessionType ==
    [rounds : Nat, refreshes : Nat, used : Nat, terminal : Terminal \cup {"none"}, importing : BOOLEAN]
WindowType ==
    [file : SomeFiles, open : BOOLEAN, own : BOOLEAN, seen : Seen \cup {None}]

\* A task that asks has a file to ask about, and waits to ask again only once; so it does
\* for the markers to settle; and one that has not started a phase has no modules.
Placed(j) ==
    /\ j.pc \in {"refresh", "backoff"} => j.file \in Files
    /\ j.pc = "backoff" => j.attempt = 1
    /\ j.pc = "quiet" => j.again = TRUE
    /\ j.pc \in {"none", "start"} => j.new = {}

\* The armed modules, and where each of them is.
QueueInv ==
    /\ pending \in Seq(Modules) /\ armed \subseteq Modules /\ served \subseteq Modules
    /\ ArmedIsServed

Typed ==
    /\ open \subseteq Files /\ markers \in [Modules -> SUBSET Modules]
    /\ run \in [Runners -> Locals] /\ session \in SessionType /\ window \in WindowType
    /\ \A r \in Runners : Placed(run[r])
    /\ QueueInv

\* A session within its limits.
Within(s) ==
    s \in SessionType /\ s.rounds <= Rounds /\ s.refreshes <= RefreshCap /\ s.used <= Budget

\* The controller's record and jdtls's folders, between two awaits.
Imports(s) ==
    \/ registry' = registry /\ folders' = folders /\ session'.used = s.used
    \/ \E batch \in SUBSET Modules :
        /\ batch \cap (registry \cup covered \cup retired) = {}
        /\ registry' = registry \cup batch /\ session'.used = s.used + Cardinality(batch)
        /\ folders' = IF available THEN folders \cup batch ELSE folders

\* What the task leaves when it suspends: no answer is kept, a batch is sent only in a
\* round that is left, and the task ends only when nothing is queued.
Result(r, s) ==
    /\ \E j \in Locals :
        /\ run' = [run EXCEPT ![r] = j] /\ j.reply = "none"
        /\ j.pc = "sending" => s.rounds < Rounds
        /\ j.pc = "none" => pending' = <<>>
        /\ Placed(j)
    /\ Within(session') /\ session'.rounds = s.rounds
    /\ pending = <<>> => pending' = <<>>
    /\ window' \in WindowType /\ ~window'.own
    /\ Imports(s) /\ QueueInv'

\* A task without jdtls only gives up, or tries once more; it imports nothing.
Subdued(r) ==
    run'[r].pc \in {"none", "idle", "backoff"} /\ window' = NoWindow /\ registry' = registry

LEMMA IdleTyped ==
    /\ Idle \in Locals /\ Placed(Idle) /\ Idle.new = {}
    /\ NoWindow \in WindowType /\ ~NoWindow.own
BY DEF Idle, NoWindow, Locals, Placed, WindowType, SomeFiles

LEMMA PhaseTyped ==
    ASSUME NEW new \in SUBSET Modules, NEW j,
           j = [Idle EXCEPT !.pc = "idle", !.new = new, !.awaited = new \ published]
    PROVE  j \in Locals /\ j.reply = "none" /\ j.pc = "idle" /\ Placed(j)
<1>1. Idle.reply = "none"
  BY DEF Idle
<1> QED BY <1>1, IdleTyped DEF Locals, Placed

\* The queue without the modules of a phase still holds every other one.
LEMMA WithoutRange ==
    ASSUME NEW q \in Seq(Modules), NEW S
    PROVE  Without(q, S) \in Seq(Modules) /\ Range(q) \ S \subseteq Range(Without(q, S))
<1> DEFINE t == Without(q, S)
<1>1. t \in Seq(Modules) /\ Leaves(t, q, Len(q), S)
  BY WithoutProperties
<1> HIDE DEF t
<1>2. DOMAIN q = 1 .. Len(q) /\ DOMAIN t = 1 .. Len(t)
  BY <1>1
<1>3. ASSUME NEW x \in Range(q) \ S PROVE x \in Range(t)
  <2>1. PICK p \in 1 .. Len(q) : q[p] = x
    BY <1>2 DEF Range
  <2>2. PICK i \in 1 .. Len(t) : t[i] = x
    BY <1>1, <1>3, <2>1 DEF Leaves
  <2> QED BY <1>2, <2>2 DEF Range
<1> QED BY <1>1, <1>3 DEF t

\* An armed module is in the queue, with the task, or no concern of it any more.
LEMMA NextPhaseQueues ==
    ASSUME Typed, NEW r \in Runners, NEW s, NextPhase(r, s), armed' \subseteq armed,
           served \subseteq served', served' \subseteq Modules,
           s.terminal # "none" => Range(pending) \subseteq served',
           \A m \in run[r].new : m \in served' \/ m \notin armed'
    PROVE  QueueInv'
<1>1. /\ pending \in Seq(Modules) /\ armed \subseteq Modules /\ ArmedIsServed
      /\ run \in [Runners -> Locals]
  BY DEF Typed, QueueInv
<1>2. ASSUME NEW m \in armed', \A q \in Runners : q # r => m \notin run[q].new
      PROVE  m \in served' \/ m \in Range(pending)
  BY <1>1, <1>2 DEF ArmedIsServed
<1>3. CASE pending = <<>> \/ s.terminal # "none"
  <2>1. pending' = <<>> /\ run' = [run EXCEPT ![r] = Idle]
    BY <1>3 DEF NextPhase
  <2>2. Range(pending) \subseteq served'
    BY <1>3 DEF Range
  <2>3. \A q \in Runners : q # r => run'[q] = run[q]
    BY <1>1, <2>1
  <2>4. ArmedIsServed'
    BY <1>2, <2>2, <2>3 DEF ArmedIsServed
  <2>5. pending' \in Seq(Modules)
    BY <2>1
  <2> QED BY <1>1, <2>4, <2>5 DEF QueueInv
<1>4. CASE ~(pending = <<>> \/ s.terminal # "none")
  <2> DEFINE new == TakePhase(pending)
             j == [Idle EXCEPT !.pc = "idle", !.new = new, !.awaited = new \ published]
  <2>1. pending' = Without(pending, new) /\ run' = [run EXCEPT ![r] = j]
    BY <1>4 DEF NextPhase
  <2>2. j.new = new
    BY DEF Idle
  <2> HIDE DEF new, j
  <2>3. pending' \in Seq(Modules) /\ Range(pending) \ new \subseteq Range(pending')
    BY <1>1, <2>1, WithoutRange
  <2>4. run'[r].new = new /\ \A q \in Runners : q # r => run'[q] = run[q]
    BY <1>1, <2>1, <2>2
  <2>5. ArmedIsServed'
    BY <1>2, <2>3, <2>4 DEF ArmedIsServed
  <2> QED BY <1>1, <2>3, <2>5 DEF QueueInv
<1> QED BY <1>3, <1>4

\* Where the task only moves on, with the modules it has, nothing is stranded.
LEMMA MovingQueues ==
    ASSUME Typed, NEW r \in Runners, NEW j, j.new = run[r].new, run' = [run EXCEPT ![r] = j],
           UNCHANGED <<armed, pending, served>>
    PROVE  QueueInv'
<1>1. run \in [Runners -> Locals] /\ QueueInv
  BY DEF Typed
<1>2. \A q \in Runners : run'[q].new = run[q].new
  BY <1>1
<1> QED BY <1>1, <1>2 DEF QueueInv, ArmedIsServed

LEMMA NewSessionWithin == Within(NewSession)
BY LimitsPositive DEF NewSession, Within, SessionType

\* The limit that a phase stops at is recorded, nothing else about the session changes.
LEMMA TerminalWithin ==
    ASSUME NEW s, Within(s), NEW limit \in Terminal
    PROVE  /\ Within([s EXCEPT !.terminal = limit])
           /\ [s EXCEPT !.terminal = limit].rounds = s.rounds
           /\ [s EXCEPT !.terminal = limit].used = s.used
BY DEF Within, SessionType

LEMMA ResultOfEqual ==
    ASSUME NEW r, NEW s, NEW t, Result(r, t), t.rounds = s.rounds, t.used = s.used
    PROVE  Result(r, s)
BY DEF Result, Imports

LEMMA GotoResult ==
    ASSUME Typed, NEW r \in Runners, NEW s, Within(s), NEW j \in Locals, j.reply = "none",
           j.new = run[r].new, Placed(j), j.pc \notin {"none", "sending"}, Goto(r, s, j)
    PROVE  Result(r, s)
<1>1. QueueInv'
  BY MovingQueues DEF Goto
<1> QED BY <1>1, IdleTyped DEF Goto, Result, Imports

LEMMA PhaseOverResult ==
    ASSUME Typed, NEW r \in Runners, NEW s, Within(s), NEW unarmed, NEW dealtWith,
           dealtWith \subseteq Modules, run[r].new \subseteq unarmed \cup dealtWith,
           PhaseOver(r, s, unarmed, dealtWith)
    PROVE  Result(r, s) /\ Subdued(r)
<1>1. session' = [s EXCEPT !.importing = FALSE] /\ NextPhase(r, s) /\ window' = NoWindow
      /\ UNCHANGED <<registry, folders>>
  BY DEF PhaseOver
<1>2. Within(session') /\ session'.rounds = s.rounds /\ session'.used = s.used
  BY <1>1 DEF Within, SessionType
<1>3. /\ \E j \in Locals :
          /\ run' = [run EXCEPT ![r] = j] /\ j.reply = "none" /\ j.pc \in {"none", "idle"}
          /\ j.pc = "none" => pending' = <<>>
          /\ Placed(j)
      /\ pending = <<>> => pending' = <<>>
  <2>1. CASE pending = <<>> \/ s.terminal # "none"
    <3>1. pending' = <<>> /\ run' = [run EXCEPT ![r] = Idle]
      BY <1>1, <2>1 DEF NextPhase
    <3> QED BY <3>1, IdleTyped DEF Idle
  <2>2. CASE ~(pending = <<>> \/ s.terminal # "none")
    <3> DEFINE new == TakePhase(pending)
               j == [Idle EXCEPT !.pc = "idle", !.new = new, !.awaited = new \ published]
    <3>1. run' = [run EXCEPT ![r] = j]
      BY <1>1, <2>2 DEF NextPhase
    <3>2. new \subseteq Modules
      BY DEF TakePhase
    <3> HIDE DEF new
    <3>3. j \in Locals /\ j.reply = "none" /\ j.pc = "idle" /\ Placed(j)
      BY <3>2, PhaseTyped
    <3> QED BY <2>2, <3>1, <3>3
  <2> QED BY <2>1, <2>2
<1>4. Imports(s)
  BY <1>1, <1>2 DEF Imports
<1>7. QueueInv'
  <2>1. /\ armed' = armed \ unarmed
        /\ served' = served \cup dealtWith \cup
                     (IF s.terminal # "none" THEN Range(pending) ELSE {})
    BY DEF PhaseOver
  <2>2. served \subseteq Modules /\ Range(pending) \subseteq Modules
    BY DEF Typed, QueueInv, Range
  <2> QED BY <1>1, <2>1, <2>2, NextPhaseQueues
<1>5. Result(r, s)
  BY <1>1, <1>2, <1>3, <1>4, <1>7, IdleTyped DEF Result
<1>6. Subdued(r)
  BY <1>1, <1>3 DEF Subdued, Typed
<1> QED BY <1>5, <1>6

LEMMA StopResult ==
    ASSUME Typed, NEW r \in Runners, NEW s, Within(s), NEW reason, Stop(r, s, reason)
    PROVE  Result(r, s) /\ Subdued(r)
<1> DEFINE dealtWith == IF reason \notin Retryable \/ s.importing THEN run[r].new ELSE {}
<1>1. run[r].new \subseteq Modules
  BY DEF Typed, Locals
<1>2. dealtWith \subseteq Modules /\ run[r].new \subseteq Unarmed(r, s, reason) \cup dealtWith
  BY <1>1 DEF Unarmed
<1>3. PhaseOver(r, s, Unarmed(r, s, reason), dealtWith)
  BY DEF Stop
<1> HIDE DEF dealtWith
<1> QED BY <1>2, <1>3, PhaseOverResult

LEMMA RaisesResult ==
    ASSUME Typed, NEW r \in Runners, NEW s, Within(s), Raises(r, s)
    PROVE  Result(r, s) /\ Subdued(r)
BY PhaseOverResult DEF Raises, Typed, Locals

LEMMA StopAtLimitResult ==
    ASSUME Typed, NEW r \in Runners, NEW s, Within(s), NEW limit \in Terminal,
           StopAtLimit(r, s, limit)
    PROVE  Result(r, s) /\ Subdued(r)
<1> DEFINE t == [s EXCEPT !.terminal = limit]
<1>1. Stop(r, t, limit)
  BY DEF StopAtLimit
<1>2. Within(t) /\ t.rounds = s.rounds /\ t.used = s.used
  BY TerminalWithin
<1> HIDE DEF t
<1>3. Result(r, t) /\ Subdued(r)
  BY <1>1, <1>2, StopResult
<1> QED BY <1>2, <1>3, ResultOfEqual

LEMMA MinOfTwo ==
    ASSUME NEW a \in Nat, NEW b \in Nat
    PROVE  Min({a, b}) \in Nat /\ Min({a, b}) <= a /\ Min({a, b}) <= b
<1>1. Min({a, b}) \in {a, b} /\ Min({a, b}) <= a /\ Min({a, b}) <= b
  BY SMT DEF Min
<1> QED BY <1>1

\* A batch keeps the session within its budget.
LEMMA ImportResult ==
    ASSUME Typed, NEW r \in Runners, NEW s, Within(s), s.rounds < Rounds, s.used < Budget,
           NEW j \in Locals, j.reply = "none", j.new = run[r].new, Import(r, s, j)
    PROVE  Result(r, s)
<1> DEFINE left == Budget - s.used
<1>1. left \in Nat /\ s.used \in Nat /\ PerRound \in Nat /\ Budget \in Nat
  BY LimitsPositive DEF Within, SessionType
<1>2. PICK batch \in FirstOf(Candidates(j.demand), Min({PerRound, left})) :
        /\ registry' = registry \cup batch
        /\ session' = [s EXCEPT !.used = @ + Cardinality(batch)]
        /\ folders' = IF available THEN folders \cup batch ELSE folders
        /\ run' = [run EXCEPT ![r] = [j EXCEPT !.pc = "sending", !.awaited = batch]]
        /\ window' = NoWindow /\ UNCHANGED <<pending, armed, served>>
  BY DEF Import
<1>3. /\ Candidates(j.demand) \subseteq Modules
      /\ Candidates(j.demand) \cap (registry \cup covered \cup retired) = {}
  <2>1. UNION {markers[m] : m \in Modules} \subseteq Modules
    BY DEF Typed
  <2>2. Frontier(j.demand) \cap (registry \cup covered \cup retired) = {}
    BY DEF Frontier
  <2> QED BY <2>1, <2>2 DEF Candidates
<1>4. /\ batch \subseteq Candidates(j.demand)
      /\ Cardinality(batch) = Min({Cardinality(Candidates(j.demand)), Min({PerRound, left})})
  BY DEF FirstOf
<1>5. batch \in SUBSET Modules /\ batch \cap (registry \cup covered \cup retired) = {}
  <2> HIDE DEF left
  <2>1. batch \subseteq Candidates(j.demand)
    BY <1>4
  <2> QED BY <1>3, <2>1
<1>6. Cardinality(Candidates(j.demand)) \in Nat
  BY <1>3, ModulesFinite, FS_Subset, FS_CardinalityType
<1>7. Min({PerRound, left}) \in Nat /\ Min({PerRound, left}) <= left
  BY <1>1, MinOfTwo
<1>8. Cardinality(batch) \in Nat /\ Cardinality(batch) <= Min({PerRound, left})
  BY <1>4, <1>6, <1>7, MinOfTwo
<1>9. Cardinality(batch) <= left
  BY <1>1, <1>7, <1>8
<1> DEFINE k == Cardinality(batch)
<1> HIDE DEF k
<1>10. k \in Nat /\ k <= Budget - s.used /\ session' = [s EXCEPT !.used = @ + k]
  BY <1>2, <1>8, <1>9 DEF k
<1>11. Within(session') /\ session'.rounds = s.rounds /\ session'.used = s.used + k
  BY <1>1, <1>10 DEF Within, SessionType
<1>12. Imports(s)
  BY <1>2, <1>5, <1>11 DEF Imports, k
<1> DEFINE l == [j EXCEPT !.pc = "sending", !.awaited = batch]
<1>13. /\ l \in Locals /\ l.reply = "none" /\ l.pc = "sending" /\ l.new = run[r].new
       /\ Placed(l)
  BY <1>5 DEF Locals, Placed
<1> HIDE DEF l
<1>14. run' = [run EXCEPT ![r] = l]
  BY <1>2 DEF l
<1>15. QueueInv'
  BY <1>2, <1>13, <1>14, MovingQueues
<1> QED BY <1>2, <1>11, <1>12, <1>13, <1>14, <1>15, IdleTyped DEF Result

LEMMA LimitReasonsSound ==
    ASSUME NEW s, Within(s), NEW limit \in LimitReasons(s)
    PROVE  \/ limit \in Terminal /\ limit # "none"
           \/ limit = "none" /\ s.rounds < Rounds /\ s.used < Budget
<1>1. s.rounds \in Nat /\ s.used \in Nat /\ Rounds \in Nat /\ Budget \in Nat
  BY LimitsPositive DEF Within, SessionType
<1> QED BY <1>1 DEF LimitReasons, Terminal

LEMMA ChooseResult ==
    ASSUME Typed, NEW r \in Runners, NEW s, Within(s), NEW j \in Locals, j.reply = "none",
           j.new = run[r].new, NEW built, Choose(r, s, j, built)
    PROVE  Result(r, s)
<1>1. CASE \E reason : Stop(r, s, reason)
  BY <1>1, StopResult
<1>2. CASE Goto(r, s, [j EXCEPT !.pc = "quiet", !.again = TRUE])
  <2> DEFINE l == [j EXCEPT !.pc = "quiet", !.again = TRUE]
  <2>1. l \in Locals /\ l.reply = "none" /\ l.pc = "quiet" /\ l.new = run[r].new /\ Placed(l)
    BY DEF Locals, Placed
  <2> HIDE DEF l
  <2>2. Goto(r, s, l)
    BY <1>2 DEF l
  <2> QED BY <2>1, <2>2, GotoResult
<1>3. CASE \E limit \in LimitReasons(s) :
              IF limit = "none" THEN Import(r, s, j) ELSE StopAtLimit(r, s, limit)
  BY <1>3, LimitReasonsSound, ImportResult, StopAtLimitResult
<1>4. CASE Raises(r, s)
  BY <1>4, RaisesResult
<1> QED BY <1>1, <1>2, <1>3, <1>4 DEF Choose

LEMMA WithIndexResult ==
    ASSUME Typed, NEW r \in Runners, NEW s, Within(s), NEW j \in Locals, j.reply = "none",
           j.new = run[r].new, WithIndex(r, s, j)
    PROVE  Result(r, s)
<1> DEFINE l == [j EXCEPT !.pc = "index"]
<1>1. l \in Locals /\ l.reply = "none" /\ l.pc = "index" /\ l.new = run[r].new /\ Placed(l)
  BY DEF Locals, Placed
<1> HIDE DEF l
<1>2. Goto(r, s, l) \/ \E built : Choose(r, s, j, built)
  BY DEF WithIndex, l
<1> QED BY <1>1, <1>2, GotoResult, ChooseResult

\* Without a file that still has demand, a refresh ends the phase.
LEMMA RefreshedResult ==
    ASSUME Typed, NEW r \in Runners, NEW s, Within(s), NEW j \in Locals, j.reply = "none",
           j.new = run[r].new, Refreshed(r, s, j)
    PROVE  Result(r, s) /\ (j.still = {} => Subdued(r))
<1>1. CASE j.still = {}
  BY <1>1, StopResult DEF Refreshed
<1>2. CASE j.still # {}
  <2> DEFINE next == [j EXCEPT !.demand = j.still, !.still = {}, !.late = FALSE, !.again = FALSE]
             l == [next EXCEPT !.pc = "markers"]
  <2>1. next \in Locals /\ next.reply = "none" /\ next.new = run[r].new
    BY DEF Locals
  <2>2. l \in Locals /\ l.reply = "none" /\ l.pc = "markers" /\ l.new = run[r].new /\ Placed(l)
    BY DEF Locals, Placed
  <2>3. Goto(r, s, l) \/ WithIndex(r, s, next)
    BY <1>2 DEF Refreshed
  <2> HIDE DEF l, next
  <2>4. Result(r, s)
    BY <2>1, <2>2, <2>3, GotoResult, WithIndexResult
  <2> QED BY <1>2, <2>4
<1> QED BY <1>1, <1>2

LEMMA NoAnswerResult ==
    ASSUME Typed, NEW r \in Runners, NEW s, Within(s), NEW j \in Locals,
           j.new = run[r].new, j.file \in Files, NoAnswer(r, s, j)
    PROVE  Result(r, s) /\ Subdued(r)
<1>1. CASE j.attempt = 1
  <2> DEFINE l == [j EXCEPT !.pc = "backoff", !.reply = "none"]
  <2>1. l \in Locals /\ l.reply = "none" /\ l.pc = "backoff" /\ l.new = run[r].new /\ Placed(l)
    BY <1>1 DEF Locals, Placed
  <2> HIDE DEF l
  <2>2. Goto(r, s, l)
    BY <1>1 DEF NoAnswer, l
  <2>3. Result(r, s)
    BY <2>1, <2>2, GotoResult
  <2> QED BY <2>1, <2>2, <2>3 DEF Goto, Subdued, Typed
<1>2. CASE j.attempt # 1
  BY <1>2, StopResult DEF NoAnswer
<1> QED BY <1>1, <1>2

\* Every attempt counts, and none is made beyond the cap.
LEMMA AskResult ==
    ASSUME Typed, NEW r \in Runners, NEW s, Within(s), NEW j \in Locals,
           j.new = run[r].new, j.file \in Files, Ask(r, s, j)
    PROVE  Result(r, s) /\ (~available => Subdued(r))
<1> DEFINE asked == [s EXCEPT !.refreshes = @ + 1]
<1>1. CASE s.refreshes >= RefreshCap
  <2>1. "refresh-cap" \in Terminal
    BY DEF Terminal
  <2> QED BY <1>1, <2>1, StopAtLimitResult DEF Ask
<1>2. CASE ~(s.refreshes >= RefreshCap)
  <2>1. s.refreshes \in Nat /\ RefreshCap \in Nat
    BY LimitsPositive DEF Within, SessionType
  <2>2. Within(asked) /\ asked.rounds = s.rounds /\ asked.used = s.used
    BY <1>2, <2>1 DEF Within, SessionType
  <2>3. CASE available
    <3> DEFINE l == [j EXCEPT !.pc = "refresh", !.reply = "none"]
               w == [NoWindow EXCEPT !.file = j.file, !.open = TRUE]
    <3>1. l \in Locals /\ l.reply = "none" /\ l.pc = "refresh" /\ l.new = run[r].new /\ Placed(l)
      BY DEF Locals, Placed
    <3>2. w \in WindowType /\ ~w.own
      BY DEF Locals, NoWindow, WindowType
    <3>3. run' = [run EXCEPT ![r] = l] /\ session' = asked /\ window' = w
          /\ UNCHANGED <<armed, pending, served, registry, folders>>
      BY <1>2, <2>3 DEF Ask
    <3> HIDE DEF l, w, asked
    <3>5. QueueInv'
      BY <3>1, <3>3, MovingQueues
    <3>4. Imports(s)
      BY <2>2, <3>3 DEF Imports
    <3> QED BY <2>2, <2>3, <3>1, <3>2, <3>3, <3>4, <3>5 DEF Result
  <2>4. CASE ~available
    <3>1. NoAnswer(r, asked, j)
      BY <1>2, <2>4 DEF Ask
    <3> HIDE DEF asked
    <3> QED BY <2>2, <3>1, NoAnswerResult, ResultOfEqual
  <2> QED BY <2>3, <2>4
<1> QED BY <1>1, <1>2

LEMMA RefreshResult ==
    ASSUME Typed, NEW r \in Runners, NEW s, Within(s), NEW j \in Locals, j.reply = "none",
           j.new = run[r].new, Refresh(r, s, j)
    PROVE  Result(r, s) /\ (~available /\ j.still = {} => Subdued(r))
<1>1. CASE j.todo = {}
  BY <1>1, RefreshedResult DEF Refresh
<1>2. CASE j.todo # {}
  <2>1. PICK f \in j.todo : Ask(r, s, [j EXCEPT !.todo = @ \ {f}, !.file = f, !.attempt = 1])
    BY <1>2 DEF Refresh
  <2> DEFINE l == [j EXCEPT !.todo = @ \ {f}, !.file = f, !.attempt = 1]
  <2>0. f \in Files
    BY DEF Locals
  <2>2. l \in Locals /\ l.new = run[r].new /\ l.file \in Files
    <3>1. l \in Locals
      BY <2>0 DEF Locals, SomeFiles
    <3> QED BY <2>0, <3>1 DEF Locals
  <2> HIDE DEF l
  <2>3. Ask(r, s, l)
    BY <2>1 DEF l
  <2> QED BY <2>2, <2>3, AskResult
<1> QED BY <1>1, <1>2

LEMMA ProbeResult ==
    ASSUME Typed, NEW r \in Runners, NEW s, Within(s), NEW j \in Locals, j.reply = "none",
           j.new = run[r].new, NEW files \in SUBSET Files, Probe(r, s, j, files)
    PROVE  Result(r, s) /\ (~available => Subdued(r))
<1>1. PICK todo \in SUBSET files : Refresh(r, s, [j EXCEPT !.todo = todo, !.still = {}])
  BY DEF Probe, FirstOf
<1> DEFINE l == [j EXCEPT !.todo = todo, !.still = {}]
<1>2. l \in Locals /\ l.reply = "none" /\ l.still = {} /\ l.new = run[r].new
  BY DEF Locals
<1> HIDE DEF l
<1>3. Refresh(r, s, l)
  BY <1>1 DEF l
<1> QED BY <1>2, <1>3, RefreshResult

----------------------------------------------------------------------------
(* The invariant.                                                          *)

\* A task that outlived a reset has no jdtls any more, and its refresh has failed.
OrphanIsDone ==
    /\ run["orphan"].pc \in {"none", "idle", "refresh", "backoff"}
    /\ run["orphan"].pc # "none" => ~available
    /\ run["orphan"].reply = IF run["orphan"].pc = "refresh" THEN "no" ELSE "none"

\* A batch that is being sent still has its round.
LimitInv ==
    /\ Within(session)
    /\ run["main"].pc = "sending" => session.rounds < Rounds
    /\ OrphanIsDone

\* What the window holds after the refresh's own publish, or at the answer, is the
\* refresh's; no other place of the task keeps an answer.
VerdictInv ==
    /\ window.own /\ window.seen # None => window.seen.current
    /\ run["main"].reply = "yes" =>
          ~window.open /\ (window.seen # None => window.seen.current)
    /\ run["main"].pc # "refresh" => run["main"].reply = "none"

FolderInv ==
    /\ covered \subseteq Modules /\ registry \subseteq Modules /\ retired \subseteq Modules
    /\ FoldersMatch

RoundsInv == Typed /\ LimitInv /\ PendingHasRunner /\ VerdictInv /\ FolderInv

\* The steps of the task after its first await.
Awaits(r) ==
    \/ ProbeIdleEnds(r) \/ BuildIdleEnds(r) \/ RefreshEnds(r) \/ BackoffEnds(r)
    \/ MarkersEnd(r) \/ IndexBuilt(r) \/ QuietEnds(r)

LEMMA IdleWaitResult ==
    ASSUME RoundsInv, NEW r \in Runners, run[r].reply = "none", NEW files \in SUBSET Files,
           IdleWaitEnds(r, files)
    PROVE  Result(r, session) /\ (~available => Subdued(r))
<1>1. run[r] \in Locals /\ Within(session) /\ Typed
  BY DEF RoundsInv, Typed, LimitInv
<1>2. CASE Probe(r, session, run[r], files)
  BY <1>1, <1>2, ProbeResult
<1>3. CASE \E limit \in LimitReasons(session) :
              IF limit = "none" THEN Stop(r, session, "jdtls-busy")
              ELSE StopAtLimit(r, session, limit)
  BY <1>1, <1>3, LimitReasonsSound, StopResult, StopAtLimitResult
<1> QED BY <1>2, <1>3 DEF IdleWaitEnds

LEMMA AwaitResult ==
    ASSUME RoundsInv, NEW r \in Runners, Awaits(r)
    PROVE  /\ Result(r, session) /\ UNCHANGED outside /\ run[r].pc # "none"
           /\ r = "orphan" => ~available /\ Subdued(r)
<1> DEFINE l == run[r]
<1>1. l \in Locals /\ Within(session) /\ Typed /\ Placed(l)
  BY DEF RoundsInv, Typed, LimitInv
<1>2. /\ r = "main" /\ l.pc # "refresh" => l.reply = "none"
      /\ r = "orphan" => /\ l.pc \in {"none", "idle", "refresh", "backoff"}
                         /\ l.pc # "none" => ~available
                         /\ l.reply = IF l.pc = "refresh" THEN "no" ELSE "none"
      /\ r \in {"main", "orphan"}
  BY DEF RoundsInv, VerdictInv, LimitInv, OrphanIsDone, Runners
<1>3. CASE ProbeIdleEnds(r)
  <2>1. UNCHANGED outside /\ l.pc = "idle" /\ l.reply = "none"
    BY <1>2, <1>3 DEF ProbeIdleEnds, Resumes
  <2>2. {f \in open \cap latest : ModuleOf[f] \in l.new} \in SUBSET Files
    BY <1>1 DEF Typed, Locals
  <2>3. IdleWaitEnds(r, {f \in open \cap latest : ModuleOf[f] \in l.new})
    BY <1>3 DEF ProbeIdleEnds
  <2>4. Result(r, session) /\ (~available => Subdued(r))
    BY <2>1, <2>2, <2>3, IdleWaitResult
  <2> QED BY <1>2, <2>1, <2>4
<1>4. CASE BuildIdleEnds(r)
  <2>1. UNCHANGED outside /\ l.pc = "build" /\ r = "main" /\ l.reply = "none"
    BY <1>2, <1>4 DEF BuildIdleEnds, Resumes
  <2>2. l.demand \cap open \in SUBSET Files
    BY <1>1 DEF Typed, Locals
  <2>3. IdleWaitEnds(r, l.demand \cap open)
    BY <1>4 DEF BuildIdleEnds
  <2>4. Result(r, session)
    BY <2>1, <2>2, <2>3, IdleWaitResult
  <2> QED BY <2>1, <2>4
<1>5. CASE RefreshEnds(r)
  <2> DEFINE j == [l EXCEPT !.reply = "none"]
             k == [j EXCEPT !.still = @ \cup {l.file}]
  <2>1. UNCHANGED outside /\ l.pc = "refresh"
    BY <1>5 DEF RefreshEnds, Resumes
  <2>5. l.file \in Files
    BY <1>1, <2>1 DEF Placed
  <2>2. /\ j \in Locals /\ j.reply = "none" /\ j.new = run[r].new /\ j.file \in Files
        /\ k \in Locals /\ k.reply = "none" /\ k.new = run[r].new
    <3>1. /\ j \in Locals /\ j.reply = "none" /\ j.new = l.new /\ j.file = l.file
          /\ j.still = l.still
      BY <1>1 DEF Locals
    <3>2. k \in Locals /\ k.reply = "none" /\ k.new = l.new
      BY <1>1, <2>5, <3>1 DEF Locals
    <3> QED BY <2>5, <3>1, <3>2
  <2>3. CASE Accepts(r)
    <3>1. r = "main"
      BY <2>3 DEF Accepts
    <3>2. Refresh(r, session, j) \/ Refresh(r, session, k)
      BY <1>5, <2>3 DEF RefreshEnds
    <3> HIDE DEF l, j, k
    <3>3. Result(r, session)
      BY <1>1, <2>2, <3>2, RefreshResult
    <3> QED BY <2>1, <3>1, <3>3 DEF l
  <2>4. CASE ~Accepts(r)
    <3>1. NoAnswer(r, session, j)
      BY <1>5, <2>4 DEF RefreshEnds
    <3> HIDE DEF j
    <3>2. Result(r, session) /\ Subdued(r)
      BY <1>1, <2>2, <3>1, NoAnswerResult
    <3> QED BY <1>2, <2>1, <3>2
  <2> QED BY <2>3, <2>4
<1>6. CASE BackoffEnds(r)
  <2> DEFINE j == [l EXCEPT !.attempt = @ + 1]
  <2>1. UNCHANGED outside /\ l.pc = "backoff" /\ Ask(r, session, j)
    BY <1>6 DEF BackoffEnds, Resumes
  <2>2. j \in Locals /\ j.new = run[r].new /\ j.file \in Files
    <3>1. l.attempt = 1 /\ l.file \in Files
      BY <1>1, <2>1 DEF Placed
    <3>2. j = [l EXCEPT !.attempt = 2]
      BY <3>1
    <3> QED BY <1>1, <3>1, <3>2 DEF Locals
  <2> HIDE DEF j
  <2>3. Result(r, session) /\ (~available => Subdued(r))
    BY <1>1, <2>1, <2>2, AskResult
  <2> QED BY <1>2, <2>1, <2>3
<1>7. CASE MarkersEnd(r)
  <2> DEFINE j == [l EXCEPT !.late = l.awaited # {}]
  <2>1. UNCHANGED outside /\ l.pc = "markers" /\ r = "main" /\ l.reply = "none"
        /\ WithIndex(r, session, j)
    BY <1>2, <1>7 DEF MarkersEnd, Resumes
  <2>2. j \in Locals /\ j.reply = "none" /\ j.new = run[r].new
    BY <1>1, <2>1 DEF Locals
  <2> HIDE DEF j
  <2>3. Result(r, session)
    BY <1>1, <2>1, <2>2, WithIndexResult
  <2> QED BY <2>1, <2>3
<1>8. CASE IndexBuilt(r)
  <2>1. UNCHANGED outside /\ l.pc = "index" /\ r = "main" /\ l.reply = "none"
        /\ \E built : Choose(r, session, l, built)
    BY <1>2, <1>8 DEF IndexBuilt, Resumes
  <2>2. Result(r, session)
    BY <1>1, <2>1, ChooseResult
  <2> QED BY <2>1, <2>2
<1>9. CASE QuietEnds(r)
  <2>1. UNCHANGED outside /\ l.pc = "quiet" /\ r = "main" /\ l.reply = "none"
        /\ Choose(r, session, l, TRUE)
    BY <1>2, <1>9 DEF QuietEnds, Resumes
  <2>2. Result(r, session)
    BY <1>1, <2>1, ChooseResult
  <2> QED BY <2>1, <2>2
<1> QED BY <1>3, <1>4, <1>5, <1>6, <1>7, <1>8, <1>9 DEF Awaits

----------------------------------------------------------------------------
(* The invariant holds at first, and every step keeps it.                  *)

LEMMA RoundsInit == Init => RoundsInv
<1> SUFFICES ASSUME Init PROVE RoundsInv
  OBVIOUS
<1>1. run = [r \in Runners |-> Idle] /\ session = NewSession /\ window = NoWindow
  BY DEF Init
<1>0. QueueInv
  <2>1. <<>> \in Seq(Modules)
    OBVIOUS
  <2> QED BY <2>1 DEF Init, QueueInv, ArmedIsServed
<1>2. Typed
  BY <1>0, <1>1, IdleTyped, NewSessionWithin DEF Init, Typed, Within
<1>3. run["main"] = Idle /\ run["orphan"] = Idle /\ Idle.pc = "none" /\ Idle.reply = "none"
  BY <1>1 DEF Runners, Idle
<1>4. LimitInv
  BY <1>1, <1>3, NewSessionWithin DEF LimitInv, OrphanIsDone
<1>5. PendingHasRunner
  BY DEF Init, PendingHasRunner
<1>6. VerdictInv
  BY <1>1, <1>3 DEF VerdictInv, NoWindow
<1>7. session.used = 0 /\ registry \cup retired = {} /\ Cardinality({}) = 0
  BY FS_EmptySet DEF Init, NewSession
<1>8. FolderInv
  BY <1>7, GraphTyped DEF Init, FolderInv, FoldersMatch
<1> QED BY <1>2, <1>4, <1>5, <1>6, <1>8 DEF RoundsInv

\* A batch is disjoint from what the budget has counted.
LEMMA ImportsCounted ==
    ASSUME RoundsInv, Imports(session), UNCHANGED outside
    PROVE  FolderInv'
<1> USE DEF RoundsInv, FolderInv, FoldersMatch
<1>1. UNCHANGED <<covered, retired, available>>
  BY DEF outside
<1>2. CASE registry' = registry /\ folders' = folders /\ session'.used = session.used
  BY <1>1, <1>2
<1>3. CASE \E batch \in SUBSET Modules :
        /\ batch \cap (registry \cup covered \cup retired) = {}
        /\ registry' = registry \cup batch
        /\ session'.used = session.used + Cardinality(batch)
        /\ folders' = IF available THEN folders \cup batch ELSE folders
  <2>1. PICK batch \in SUBSET Modules :
        /\ batch \cap (registry \cup covered \cup retired) = {}
        /\ registry' = registry \cup batch
        /\ session'.used = session.used + Cardinality(batch)
        /\ folders' = IF available THEN folders \cup batch ELSE folders
    BY <1>3
  <2> DEFINE had == registry \cup retired
  <2>2. IsFiniteSet(had) /\ IsFiniteSet(batch) /\ had \cap batch = {}
    BY <2>1, ModulesFinite, FS_Subset
  <2>3. Cardinality(had \cup batch)
          = Cardinality(had) + Cardinality(batch) - Cardinality(had \cap batch)
    BY <2>2, FS_Union
  <2>4. Cardinality(had) \in Nat /\ Cardinality(batch) \in Nat /\ Cardinality(had \cap batch) = 0
    BY <2>2, FS_CardinalityType, FS_EmptySet
  <2>5. registry' \cup retired' = had \cup batch
    BY <1>1, <2>1
  <2>6. session'.used = Cardinality(registry' \cup retired')
    <3>1. session.used = Cardinality(had)
      OBVIOUS
    <3> DEFINE a == Cardinality(had)
               b == Cardinality(batch)
    <3>2. session'.used = a + b
      BY <2>1, <3>1
    <3>3. Cardinality(had \cup batch) = a + b - 0 /\ a \in Nat /\ b \in Nat
      BY <2>3, <2>4
    <3> HIDE DEF a, b
    <3>4. Cardinality(had \cup batch) = a + b
      BY <3>3
    <3> QED BY <2>5, <3>2, <3>4
  <2>7. covered' \subseteq Modules /\ registry' \subseteq Modules /\ retired' \subseteq Modules
    BY <1>1, <2>1
  <2>8. (available' => folders' = registry') /\ registry' \cap covered' = {}
    BY <1>1, <2>1
  <2> HIDE DEF had
  <2> QED BY <2>6, <2>7, <2>8
<1> QED BY <1>2, <1>3 DEF Imports

LEMMA AwaitsStep ==
    ASSUME RoundsInv, NEW r \in Runners, Awaits(r)
    PROVE  RoundsInv'
<1>1. /\ Result(r, session) /\ UNCHANGED outside /\ run[r].pc # "none"
      /\ r = "orphan" => ~available /\ Subdued(r)
  BY AwaitResult
<1>2. PICK j \in Locals : /\ run' = [run EXCEPT ![r] = j] /\ j.reply = "none"
                          /\ j.pc = "sending" => session.rounds < Rounds
                          /\ j.pc = "none" => pending' = <<>>
                          /\ Placed(j)
  BY <1>1 DEF Result
<1>3. /\ Within(session') /\ session'.rounds = session.rounds
      /\ pending = <<>> => pending' = <<>>
      /\ window' \in WindowType /\ ~window'.own
      /\ Imports(session) /\ QueueInv'
  BY <1>1 DEF Result
<1>4. /\ run \in [Runners -> Locals] /\ r \in {"main", "orphan"}
      /\ "main" \in Runners /\ "orphan" \in Runners
  BY DEF RoundsInv, Typed, Runners
<1>5. UNCHANGED <<open, markers, available>>
  BY <1>1 DEF outside
<1>6. Typed'
  <2>1. run' \in [Runners -> Locals] /\ \A q \in Runners : Placed(run'[q])
    BY <1>2, <1>4 DEF RoundsInv, Typed
  <2> QED BY <1>3, <1>5, <2>1 DEF RoundsInv, Typed, Within
<1>7. FolderInv'
  BY <1>1, <1>3, ImportsCounted
<1>8. CASE r = "main"
  <2>1. run'["main"] = j /\ run'["orphan"] = run["orphan"]
    BY <1>2, <1>4, <1>8
  <2>2. LimitInv'
    BY <1>2, <1>3, <1>5, <2>1 DEF RoundsInv, LimitInv, OrphanIsDone
  <2>3. PendingHasRunner'
    BY <1>2, <2>1 DEF PendingHasRunner
  <2>4. VerdictInv'
    BY <1>2, <1>3, <2>1 DEF VerdictInv
  <2> QED BY <1>6, <1>7, <2>2, <2>3, <2>4 DEF RoundsInv
<1>9. CASE r = "orphan"
  <2>1. run'["main"] = run["main"] /\ run'["orphan"] = j
    BY <1>2, <1>4, <1>9
  <2>2. ~available /\ j.pc \in {"none", "idle", "backoff"} /\ window' = NoWindow
    BY <1>1, <1>9, <2>1 DEF Subdued
  <2>3. LimitInv'
    BY <1>2, <1>3, <1>5, <2>1, <2>2 DEF RoundsInv, LimitInv, OrphanIsDone
  <2>4. PendingHasRunner'
    BY <1>3, <2>1 DEF RoundsInv, PendingHasRunner
  <2>5. VerdictInv'
    BY <2>1, <2>2 DEF RoundsInv, VerdictInv, NoWindow
  <2> QED BY <1>6, <1>7, <2>3, <2>4, <2>5 DEF RoundsInv
<1> QED BY <1>4, <1>8, <1>9

LEMMA StartsStep ==
    ASSUME RoundsInv, NEW r \in Runners, Starts(r)
    PROVE  RoundsInv'
<1>1. run \in [Runners -> Locals] /\ Typed /\ "main" \in Runners /\ "orphan" \in Runners
  BY DEF RoundsInv, Typed, Runners
<1>2. /\ run[r].pc = "start" /\ NextPhase(r, session)
      /\ UNCHANGED <<folders, registry, window, session>> /\ UNCHANGED outside
  BY DEF Starts, Resumes
<1>3. r = "main"
  BY <1>2 DEF RoundsInv, LimitInv, OrphanIsDone, Runners
<1>4. PICK j \in Locals : /\ run' = [run EXCEPT ![r] = j]
                          /\ j.reply = "none" /\ j.pc \in {"none", "idle"}
                          /\ j.pc = "none" => pending' = <<>>
                          /\ Placed(j)
  <2>1. CASE pending = <<>> \/ session.terminal # "none"
    BY <1>2, <2>1, IdleTyped DEF NextPhase, Idle
  <2>2. CASE ~(pending = <<>> \/ session.terminal # "none")
    <3> DEFINE new == TakePhase(pending)
               j == [Idle EXCEPT !.pc = "idle", !.new = new, !.awaited = new \ published]
    <3>1. run' = [run EXCEPT ![r] = j]
      BY <1>2, <2>2 DEF NextPhase
    <3>2. new \subseteq Modules
      BY DEF TakePhase
    <3> HIDE DEF new
    <3>3. j \in Locals /\ j.reply = "none" /\ j.pc = "idle" /\ Placed(j)
      BY <3>2, PhaseTyped
    <3> QED BY <3>1, <3>3
  <2> QED BY <2>1, <2>2
<1>5. run'["main"] = j /\ run'["orphan"] = run["orphan"]
  BY <1>1, <1>3, <1>4
<1>6. UNCHANGED <<open, markers, available, covered, retired>>
  BY <1>2 DEF outside
<1>7. Typed'
  <2>1. armed' = armed
        /\ served' = IF session.terminal # "none" THEN served \cup Range(pending) ELSE served
    BY DEF Starts
  <2>2. run[r].new = {} /\ served \subseteq Modules /\ Range(pending) \subseteq Modules
    BY <1>1, <1>2 DEF Typed, Placed, QueueInv, Range
  <2>3. QueueInv'
    BY <1>1, <1>2, <2>1, <2>2, NextPhaseQueues
  <2>4. run' \in [Runners -> Locals] /\ \A q \in Runners : Placed(run'[q])
    BY <1>1, <1>4 DEF Typed
  <2> QED BY <1>1, <1>2, <1>6, <2>3, <2>4 DEF Typed
<1>8. LimitInv'
  BY <1>2, <1>4, <1>5, <1>6 DEF RoundsInv, LimitInv, OrphanIsDone, Within
<1>9. PendingHasRunner'
  BY <1>4, <1>5 DEF PendingHasRunner
<1>10. VerdictInv'
  BY <1>2, <1>4, <1>5 DEF RoundsInv, VerdictInv
<1>11. FolderInv'
  BY <1>2, <1>6 DEF RoundsInv, FolderInv, FoldersMatch
<1> QED BY <1>7, <1>8, <1>9, <1>10, <1>11 DEF RoundsInv

\* The round that is sent is one that was left.
LEMMA ImportSentStep ==
    ASSUME RoundsInv, NEW r \in Runners, ImportSent(r)
    PROVE  RoundsInv'
<1> DEFINE j == [run[r] EXCEPT !.pc = "build"]
           s == [session EXCEPT !.rounds = @ + 1, !.importing = TRUE]
<1>1. run \in [Runners -> Locals] /\ Typed /\ "main" \in Runners /\ "orphan" \in Runners
  BY DEF RoundsInv, Typed, Runners
<1>2. /\ run[r].pc = "sending" /\ run' = [run EXCEPT ![r] = j] /\ session' = s
      /\ window' = NoWindow /\ UNCHANGED <<armed, pending, served>>
      /\ UNCHANGED <<folders, registry>> /\ UNCHANGED outside
  BY DEF ImportSent, Resumes, Goto
<1>3. r = "main"
  BY <1>2 DEF RoundsInv, LimitInv, OrphanIsDone, Runners
<1>4. run[r].reply = "none" /\ session.rounds < Rounds
  BY <1>2, <1>3 DEF RoundsInv, LimitInv, VerdictInv
<1>5. j \in Locals /\ j.reply = "none" /\ j.pc = "build" /\ j.new = run[r].new /\ Placed(j)
  BY <1>1, <1>4 DEF Locals, Placed
<1>6. Within(s) /\ s.used = session.used
  <2>1. session.rounds \in Nat /\ Rounds \in Nat
    BY LimitsPositive DEF RoundsInv, LimitInv, Within, SessionType
  <2>2. s.rounds <= Rounds
    BY <1>4, <2>1 DEF RoundsInv, LimitInv, Within, SessionType
  <2>3. s \in SessionType /\ s.used = session.used /\ s.refreshes = session.refreshes
    <3> DEFINE n == session.rounds + 1
    <3>1. n \in Nat /\ s = [session EXCEPT !.rounds = n, !.importing = TRUE]
          /\ session \in SessionType
      BY <2>1 DEF RoundsInv, LimitInv, Within
    <3> HIDE DEF n, s
    <3> QED BY <3>1 DEF SessionType
  <2> HIDE DEF s
  <2> QED BY <2>2, <2>3 DEF RoundsInv, LimitInv, Within
<1> HIDE DEF j, s
<1>7. run'["main"] = j /\ run'["orphan"] = run["orphan"]
  BY <1>1, <1>2, <1>3
<1>8. UNCHANGED <<open, markers, available, covered, retired>>
  BY <1>2 DEF outside
<1>9. Typed'
  <2>1. QueueInv'
    BY <1>1, <1>2, <1>5, MovingQueues
  <2>2. run' \in [Runners -> Locals] /\ \A q \in Runners : Placed(run'[q])
    BY <1>1, <1>2, <1>5 DEF Typed
  <2> QED BY <1>1, <1>2, <1>6, <1>8, <2>1, <2>2, IdleTyped DEF Typed, Within
<1>10. LimitInv'
  BY <1>2, <1>5, <1>6, <1>7, <1>8 DEF RoundsInv, LimitInv, OrphanIsDone
<1>11. PendingHasRunner'
  BY <1>5, <1>7 DEF PendingHasRunner
<1>12. VerdictInv'
  BY <1>2, <1>5, <1>7 DEF VerdictInv, NoWindow
<1>13. FolderInv'
  BY <1>2, <1>6, <1>8 DEF RoundsInv, FolderInv, FoldersMatch
<1> QED BY <1>9, <1>10, <1>11, <1>12, <1>13 DEF RoundsInv

\* A step that leaves the session and the import record alone.
LEMMA OthersStep ==
    ASSUME RoundsInv, open' \subseteq Files, markers' \in [Modules -> SUBSET Modules],
           run' \in [Runners -> Locals], window' \in WindowType,
           run'["main"].pc = "sending" => run["main"].pc = "sending", OrphanIsDone',
           PendingHasRunner', VerdictInv', available' => available,
           \A r \in Runners : Placed(run'[r]), QueueInv',
           UNCHANGED <<session, folders, registry, covered, retired>>
    PROVE  RoundsInv'
<1>1. Typed' /\ LimitInv'
  BY DEF RoundsInv, Typed, LimitInv, Within
<1>2. FolderInv'
  BY DEF RoundsInv, FolderInv, FoldersMatch
<1> QED BY <1>1, <1>2 DEF RoundsInv

\* No module moves where the queue and the phases of the tasks stay as they are.
LEMMA QueueRests ==
    ASSUME RoundsInv, \A r \in Runners : run'[r].new = run[r].new,
           UNCHANGED <<armed, pending, served>>
    PROVE  QueueInv'
<1>1. QueueInv
  BY DEF RoundsInv, Typed
<1> QED BY <1>1 DEF QueueInv, ArmedIsServed

\* What a publish leaves of the window.
LEMMA InWindowTyped ==
    ASSUME RoundsInv, NEW f \in Files, NEW demand \in BOOLEAN, NEW current \in BOOLEAN
    PROVE  /\ InWindow(f, demand, current) \in WindowType
           /\ InWindow(f, demand, current).open = window.open
           /\ InWindow(f, demand, current).own = window.own
           /\ ~(window.open /\ window.file = f) => InWindow(f, demand, current) = window
<1> DEFINE rec == [demand |-> demand, current |-> current, same |-> TRUE]
<1>1. rec \in Seen
  BY DEF Seen
<1>2. window \in WindowType
  BY DEF RoundsInv, Typed
<1> HIDE DEF rec
<1>3. InWindow(f, demand, current) =
        IF window.open /\ window.file = f
        THEN [window EXCEPT !.seen = IF f \in open THEN rec ELSE None] ELSE window
  BY DEF InWindow, rec
<1> QED BY <1>1, <1>2, <1>3 DEF WindowType

\* An armed module gets a runner unless one is there.
LEMMA NotePublishKeeps ==
    ASSUME RoundsInv, NEW f, NEW demand, NotePublish(f, demand), served' = served
    PROVE  /\ run' \in [Runners -> Locals] /\ run'["orphan"] = run["orphan"]
           /\ run'["main"].pc \in {run["main"].pc, "start"}
           /\ run'["main"].reply = run["main"].reply
           /\ run'["main"].pc # "refresh" => run'["main"].reply = "none"
           /\ PendingHasRunner' /\ QueueInv' /\ \A r \in Runners : Placed(run'[r])
<1>1. run \in [Runners -> Locals] /\ "main" \in Runners /\ "orphan" \in Runners
      /\ (run["main"].pc # "refresh" => run["main"].reply = "none")
      /\ QueueInv /\ \A r \in Runners : Placed(run[r]) /\ (r = "main" \/ r = "orphan")
  BY DEF RoundsInv, Typed, Runners, VerdictInv
<1> DEFINE j == [Idle EXCEPT !.pc = "start"]
           m == ModuleOf[f]
<1>2. j \in Locals /\ j.pc = "start" /\ j.reply = "none" /\ j.new = {} /\ Placed(j)
  <2>1. Idle.reply = "none"
    BY DEF Idle
  <2> QED BY <2>1, IdleTyped DEF Locals, Placed
<1>5. f \in open => m \in Modules
  BY GraphTyped DEF RoundsInv, Typed
<1> HIDE DEF j, m
<1>3. CASE UNCHANGED <<armed, pending, run>>
  <2>1. QueueInv'
    BY <1>3, QueueRests
  <2> QED BY <1>1, <1>3, <2>1 DEF RoundsInv, PendingHasRunner
<1>4. CASE /\ f \in open /\ armed' = armed \cup {m} /\ pending' = Append(pending, m)
           /\ run' = IF run["main"].pc = "none" THEN [run EXCEPT !["main"] = j] ELSE run
  <2>1. /\ run' \in [Runners -> Locals] /\ \A r \in Runners : Placed(run'[r])
        /\ \A r \in Runners : run'[r].new = run[r].new
        /\ run'["orphan"] = run["orphan"]
        /\ run'["main"] = IF run["main"].pc = "none" THEN j ELSE run["main"]
    <3>1. CASE run["main"].pc = "none"
      <4>1. run' = [run EXCEPT !["main"] = j] /\ run["main"].new = {}
        BY <1>1, <1>4, <3>1 DEF Placed
      <4> QED BY <1>1, <1>2, <3>1, <4>1
    <3>2. CASE run["main"].pc # "none"
      BY <1>1, <1>4, <3>2
    <3> QED BY <3>1, <3>2
  <2>2. QueueInv'
    <3>1. pending' \in Seq(Modules) /\ Range(pending') = Range(pending) \cup {m}
      <4>1. pending \in Seq(Modules)
        BY <1>1 DEF QueueInv
      <4> QED BY <1>4, <1>5, <4>1 DEF Range
    <3>2. QueueInv /\ served' = served /\ armed' = armed \cup {m}
      BY <1>1, <1>4
    <3>3. ArmedIsServed'
      BY <2>1, <3>1, <3>2 DEF QueueInv, ArmedIsServed
    <3>4. armed' \subseteq Modules /\ served' \subseteq Modules
      BY <1>4, <1>5, <3>2 DEF QueueInv
    <3> QED BY <3>1, <3>3, <3>4 DEF QueueInv
  <2>3. PendingHasRunner'
    BY <1>2, <2>1 DEF PendingHasRunner
  <2> QED BY <1>1, <1>2, <2>1, <2>2, <2>3
<1> QED BY <1>3, <1>4 DEF NotePublish, j, m

LEMMA PublishesStep ==
    ASSUME RoundsInv, NEW f \in Files, Publishes(f)
    PROVE  RoundsInv'
<1>1. PICK demand \in BOOLEAN, current \in BOOLEAN :
        window' = InWindow(f, demand, current) /\ NotePublish(f, demand)
  BY DEF Publishes
<1>2. /\ ~(window.open /\ window.file = f /\ window.own)
      /\ UNCHANGED <<open, available, covered, retired, markers, folders, registry, session,
                     served>>
  BY DEF Publishes, process
<1>3. /\ window' \in WindowType /\ window'.open = window.open /\ window'.own = window.own
      /\ ~(window.open /\ window.file = f) => window' = window
  BY <1>1, InWindowTyped
<1>4. /\ run' \in [Runners -> Locals] /\ run'["orphan"] = run["orphan"]
      /\ run'["main"].pc \in {run["main"].pc, "start"}
      /\ run'["main"].reply = run["main"].reply
      /\ run'["main"].pc # "refresh" => run'["main"].reply = "none"
      /\ PendingHasRunner' /\ QueueInv' /\ \A r \in Runners : Placed(run'[r])
  BY <1>1, <1>2, NotePublishKeeps
<1>5. VerdictInv'
  BY <1>2, <1>3, <1>4 DEF RoundsInv, VerdictInv
<1>6. OrphanIsDone'
  BY <1>2, <1>4 DEF RoundsInv, LimitInv, OrphanIsDone
<1> QED BY <1>2, <1>3, <1>4, <1>5, <1>6, OthersStep DEF RoundsInv, Typed

\* The refresh's own publish is computed after the last import.
LEMMA RefreshPublishesStep ==
    ASSUME RoundsInv, RefreshPublishes
    PROVE  RoundsInv'
<1> DEFINE f == window.file
<1>1. PICK demand \in BOOLEAN :
        /\ window' = [InWindow(f, demand, TRUE) EXCEPT !.own = TRUE]
        /\ NotePublish(f, demand)
  BY DEF RefreshPublishes
<1>2. /\ window.open
      /\ UNCHANGED <<open, available, covered, retired, markers, folders, registry, session,
                     served>>
  BY DEF RefreshPublishes, process
<1> DEFINE w == InWindow(f, demand, TRUE)
<1>3. w \in WindowType /\ w.open = window.open /\ (w.seen # None => w.seen.current)
  <2>1. window \in WindowType
    BY DEF RoundsInv, Typed
  <2>2. w.seen # None => w.seen.current
    BY <1>2, <2>1 DEF InWindow, WindowType
  <2>3. w \in WindowType /\ w.open = window.open
    BY <2>1 DEF InWindow, WindowType, Seen
  <2> QED BY <2>2, <2>3
<1> HIDE DEF w
<1>4. window' = [w EXCEPT !.own = TRUE]
  BY <1>1 DEF w
<1>5. window' \in WindowType /\ window'.open /\ (window'.seen # None => window'.seen.current)
  BY <1>2, <1>3, <1>4 DEF WindowType
<1>6. /\ run' \in [Runners -> Locals] /\ run'["orphan"] = run["orphan"]
      /\ run'["main"].pc \in {run["main"].pc, "start"}
      /\ run'["main"].reply = run["main"].reply
      /\ run'["main"].pc # "refresh" => run'["main"].reply = "none"
      /\ PendingHasRunner' /\ QueueInv' /\ \A r \in Runners : Placed(run'[r])
  BY <1>1, <1>2, NotePublishKeeps
<1>7. VerdictInv'
  BY <1>2, <1>5, <1>6 DEF RoundsInv, VerdictInv
<1>8. OrphanIsDone'
  BY <1>2, <1>6 DEF RoundsInv, LimitInv, OrphanIsDone
<1> QED BY <1>2, <1>5, <1>6, <1>7, <1>8, OthersStep DEF RoundsInv, Typed

\* The answer, or the end of the wait for it, is the last thing the window sees.
LEMMA RefreshAnsweredStep ==
    ASSUME RoundsInv, RefreshReplies \/ RefreshTimesOut
    PROVE  RoundsInv'
<1>1. run \in [Runners -> Locals] /\ "main" \in Runners /\ "orphan" \in Runners
      /\ window \in WindowType
  BY DEF RoundsInv, Typed, Runners
<1>2. /\ run["main"].pc = "refresh"
      /\ UNCHANGED <<open, available, covered, retired, markers, folders, registry, session,
                     pending, armed, served>>
  BY DEF RefreshReplies, RefreshTimesOut, outside
<1>3. PICK reply \in {"yes", "no"} :
        /\ run' = [run EXCEPT !["main"].reply = reply]
        /\ \/ reply = "no" /\ window' = window
           \/ /\ reply = "yes" => window.own \/ window.seen = None
              /\ window' = [window EXCEPT !.open = FALSE]
  BY DEF RefreshReplies, RefreshTimesOut, WindowClosed
<1>4. /\ run' \in [Runners -> Locals] /\ run'["orphan"] = run["orphan"]
      /\ run'["main"].pc = "refresh" /\ run'["main"].reply = reply
  BY <1>1, <1>2, <1>3 DEF Locals
<1>8. \A r \in Runners : Placed(run'[r]) /\ run'[r].new = run[r].new
  BY <1>1, <1>2, <1>3 DEF RoundsInv, Typed, Placed, Locals
<1>9. QueueInv'
  BY <1>2, <1>8, QueueRests
<1>5. /\ window' \in WindowType /\ window'.own = window.own /\ window'.seen = window.seen
      /\ reply = "yes" => ~window'.open /\ (window.own \/ window.seen = None)
  BY <1>1, <1>3 DEF WindowType
<1>6. VerdictInv'
  BY <1>4, <1>5 DEF RoundsInv, VerdictInv
<1>7. PendingHasRunner' /\ OrphanIsDone'
  BY <1>2, <1>4 DEF PendingHasRunner, RoundsInv, LimitInv, OrphanIsDone
<1> QED BY <1>2, <1>4, <1>5, <1>6, <1>7, <1>8, <1>9, OthersStep DEF RoundsInv, Typed

LEMMA PomPublishesStep ==
    ASSUME RoundsInv, NEW m \in Modules, PomPublishes(m)
    PROVE  RoundsInv'
<1>1. run \in [Runners -> Locals] /\ "main" \in Runners /\ "orphan" \in Runners
      /\ window \in WindowType
  BY DEF RoundsInv, Typed, Runners
<1>2. /\ run' = [r \in Runners |-> [run[r] EXCEPT !.awaited = @ \ {m}]]
      /\ UNCHANGED <<open, available, covered, retired, folders, registry, session, pending,
                     window, armed, served>>
  BY DEF PomPublishes, process
<1>3. markers' \in [Modules -> SUBSET Modules]
  <2>1. PICK missing \in SUBSET Deps[m] : markers' = [markers EXCEPT ![m] = missing]
    BY DEF PomPublishes
  <2>2. missing \in SUBSET Modules
    BY <2>1, GraphTyped
  <2> QED BY <2>1, <2>2 DEF RoundsInv, Typed
<1>4. /\ run' \in [Runners -> Locals]
      /\ \A r \in Runners : /\ run'[r].pc = run[r].pc /\ run'[r].reply = run[r].reply
                             /\ run'[r].new = run[r].new /\ Placed(run'[r])
  <2> DEFINE Left(r) == [run[r] EXCEPT !.awaited = @ \ {m}]
  <2>1. \A r \in Runners : /\ Left(r) \in Locals /\ Left(r).pc = run[r].pc
                           /\ Left(r).reply = run[r].reply /\ Left(r).new = run[r].new
                           /\ Left(r).file = run[r].file /\ Left(r).attempt = run[r].attempt
                           /\ Left(r).again = run[r].again
    BY <1>1 DEF Locals
  <2>2. run' = [r \in Runners |-> Left(r)]
    BY <1>2
  <2> HIDE DEF Left
  <2> QED BY <2>1, <2>2 DEF RoundsInv, Typed, Placed
<1>5. PendingHasRunner' /\ VerdictInv' /\ OrphanIsDone'
  BY <1>1, <1>2, <1>4 DEF RoundsInv, PendingHasRunner, VerdictInv, LimitInv, OrphanIsDone
<1>6. QueueInv'
  BY <1>2, <1>4, QueueRests
<1> QED BY <1>1, <1>2, <1>3, <1>4, <1>5, <1>6, OthersStep DEF RoundsInv, Typed

\* An edit can only make a verdict unusable.
LEMMA DocumentStep ==
    ASSUME RoundsInv, NEW f \in Files, DidOpen(f) \/ DidChange(f) \/ DidClose(f)
    PROVE  RoundsInv'
<1>1. /\ open' \subseteq Files
      /\ \E same \in BOOLEAN : window' = Redigested(f, same)
      /\ UNCHANGED <<available, covered, retired, markers, folders, registry, session, pending,
                     run, armed, served>>
  BY DEF DidOpen, DidChange, DidClose, process, controller, RoundsInv, Typed
<1>2. PICK same \in BOOLEAN : window' = Redigested(f, same)
  BY <1>1
<1>3. window \in WindowType
  BY DEF RoundsInv, Typed
<1>4. /\ window' \in WindowType /\ window'.own = window.own /\ window'.open = window.open
      /\ window'.seen # None => window.seen # None /\ window'.seen.current = window.seen.current
  <2>1. CASE window.file = f /\ window.seen # None
    <3>1. window.seen \in Seen
      BY <1>3, <2>1 DEF WindowType
    <3> DEFINE seen == [window.seen EXCEPT !.same = same]
    <3>2. seen \in Seen /\ seen.current = window.seen.current
      BY <3>1 DEF Seen
    <3>3. window' = [window EXCEPT !.seen = seen]
      BY <1>2, <2>1 DEF Redigested
    <3> HIDE DEF seen
    <3> QED BY <1>3, <2>1, <3>2, <3>3 DEF WindowType
  <2>2. CASE ~(window.file = f /\ window.seen # None)
    BY <1>2, <1>3, <2>2 DEF Redigested
  <2> QED BY <2>1, <2>2
<1>5. PendingHasRunner' /\ VerdictInv' /\ OrphanIsDone'
  BY <1>1, <1>4 DEF RoundsInv, PendingHasRunner, VerdictInv, LimitInv, OrphanIsDone
<1>6. QueueInv'
  BY <1>1, QueueRests
<1> QED BY <1>1, <1>4, <1>5, <1>6, OthersStep DEF RoundsInv, Typed

\* A group takes over the folders it covers: what the budget counted stays counted.
LEMMA ExpandGroupStep ==
    ASSUME RoundsInv, NEW group \in Groups, ExpandGroup(group)
    PROVE  RoundsInv'
<1>1. /\ covered' = covered \cup group /\ group \subseteq Modules
      /\ registry' = registry \ (registry \cap group)
      /\ retired' = retired \cup (registry \cap group)
      /\ folders' = folders \ (registry \cap group)
      /\ UNCHANGED <<open, available, markers, pending, window, session, run, armed, served>>
  BY GraphTyped DEF ExpandGroup, TakenBy
<1>2. registry' \cup retired' = registry \cup retired
  BY <1>1
<1>3. FolderInv'
  <2>1. FolderInv
    BY DEF RoundsInv
  <2>2. session'.used = Cardinality(registry' \cup retired')
    BY <1>1, <1>2, <2>1 DEF FolderInv, FoldersMatch
  <2>3. /\ covered' \subseteq Modules /\ registry' \subseteq Modules /\ retired' \subseteq Modules
        /\ registry' \cap covered' = {} /\ (available' => folders' = registry')
    BY <1>1, <2>1 DEF FolderInv, FoldersMatch
  <2> QED BY <2>2, <2>3 DEF FolderInv, FoldersMatch
<1>5. QueueInv'
  BY <1>1, QueueRests
<1>4. Typed' /\ LimitInv' /\ PendingHasRunner' /\ VerdictInv'
  BY <1>1, <1>5 DEF RoundsInv, Typed, LimitInv, OrphanIsDone, PendingHasRunner, VerdictInv, Within
<1> QED BY <1>3, <1>4 DEF RoundsInv

\* The end of jdtls leaves at most a refresh that has failed.
LEMMA MarkStoppedStep ==
    ASSUME RoundsInv, MarkStopped
    PROVE  RoundsInv'
<1>1. run \in [Runners -> Locals] /\ "main" \in Runners /\ "orphan" \in Runners
      /\ available' = FALSE /\ UNCHANGED <<open, folders, covered>>
  BY DEF RoundsInv, Typed, Runners, MarkStopped
<1>2. CASE Reset
  <2> DEFINE j == [run["main"] EXCEPT !.reply = "no"]
             k == IF run["main"].pc = "refresh" THEN j ELSE run["orphan"]
  <2>1. k \in Locals /\ k.pc \in {"none", "idle", "refresh", "backoff"} /\ Placed(k)
        /\ k.reply = IF k.pc = "refresh" THEN "no" ELSE "none"
    <3>1. CASE run["main"].pc = "refresh"
      <4>1. j \in Locals /\ j.pc = "refresh" /\ j.reply = "no" /\ j.file = run["main"].file
        BY <1>1, <3>1 DEF Locals
      <4>2. Placed(j)
        BY <1>1, <3>1, <4>1 DEF RoundsInv, Typed, Placed
      <4> QED BY <3>1, <4>1, <4>2
    <3>2. CASE run["main"].pc # "refresh"
      BY <1>1, <3>2 DEF RoundsInv, Typed, LimitInv, OrphanIsDone
    <3> QED BY <3>1, <3>2
  <2>2. run' = [main |-> Idle, orphan |-> k]
    BY <1>2 DEF Reset
  <2> HIDE DEF k
  <2>3. /\ run' \in [Runners -> Locals] /\ run'["main"] = Idle /\ run'["orphan"] = k
        /\ Idle.pc = "none" /\ Idle.reply = "none"
        /\ \A r \in Runners : Placed(run'[r])
    <3>1. run' = [r \in Runners |-> IF r = "main" THEN Idle ELSE k]
      BY <2>2 DEF Runners
    <3>2. run' \in [Runners -> Locals] /\ \A r \in Runners : Placed(run'[r])
      BY <2>1, <3>1, IdleTyped
    <3>3. run'["main"] = Idle /\ run'["orphan"] = k
      BY <1>1, <3>1
    <3>4. Idle.pc = "none" /\ Idle.reply = "none"
      BY DEF Idle
    <3> QED BY <3>2, <3>3, <3>4
  <2>4. /\ registry' = {} /\ retired' = {} /\ markers' = [m \in Modules |-> {}]
        /\ pending' = <<>> /\ window' = NoWindow /\ session' = NewSession
        /\ armed' = {} /\ served' = {}
    BY <1>2 DEF Reset
  <2>10. QueueInv'
    <3>1. <<>> \in Seq(Modules)
      OBVIOUS
    <3> QED BY <2>4, <3>1 DEF QueueInv, ArmedIsServed
  <2>5. Typed'
    BY <1>1, <2>3, <2>4, <2>10, IdleTyped, NewSessionWithin DEF RoundsInv, Typed, Within
  <2>6. LimitInv'
    BY <1>1, <2>1, <2>3, <2>4, NewSessionWithin DEF LimitInv, OrphanIsDone
  <2>7. PendingHasRunner'
    BY <2>4 DEF PendingHasRunner
  <2>8. VerdictInv'
    BY <2>3, <2>4 DEF VerdictInv, NoWindow
  <2>9. FolderInv'
    <3>1. session'.used = 0 /\ registry' \cup retired' = {} /\ Cardinality({}) = 0
      BY <2>4, FS_EmptySet DEF NewSession
    <3> QED BY <1>1, <2>4, <3>1 DEF RoundsInv, FolderInv, FoldersMatch
  <2> QED BY <2>5, <2>6, <2>7, <2>8, <2>9 DEF RoundsInv
<1>3. CASE ~(available \/ cached)
  <2>1. UNCHANGED <<run, registry, retired, markers, pending, window, session, armed, served>>
    BY <1>3 DEF MarkStopped
  <2>3. QueueInv'
    BY <2>1, QueueRests
  <2>2. PendingHasRunner' /\ VerdictInv' /\ OrphanIsDone'
    BY <1>1, <2>1 DEF RoundsInv, PendingHasRunner, VerdictInv, LimitInv, OrphanIsDone
  <2> QED BY <1>1, <2>1, <2>2, <2>3, OthersStep DEF RoundsInv, Typed
<1> QED BY <1>2, <1>3 DEF MarkStopped

LEMMA SendFailsStep ==
    ASSUME RoundsInv, SendFails
    PROVE  RoundsInv'
<1>1. /\ available' = FALSE
      /\ UNCHANGED <<open, covered, retired, markers, window, pending, run, session, folders,
                     registry, armed, served>>
  BY DEF SendFails, controller
<1>3. QueueInv'
  BY <1>1, QueueRests
<1>2. PendingHasRunner' /\ VerdictInv' /\ OrphanIsDone'
  BY <1>1 DEF RoundsInv, PendingHasRunner, VerdictInv, LimitInv, OrphanIsDone
<1> QED BY <1>1, <1>2, <1>3, OthersStep DEF RoundsInv, Typed

LEMMA RoundsNext == RoundsInv /\ [Next]_vars => RoundsInv'
<1> SUFFICES ASSUME RoundsInv, [Next]_vars PROVE RoundsInv'
  OBVIOUS
<1>1. ASSUME NEW r \in Runners, TaskRuns(r) PROVE RoundsInv'
  BY <1>1, StartsStep, AwaitsStep, ImportSentStep DEF TaskRuns, Awaits
<1>2. CASE RefreshPublishes
  BY <1>2, RefreshPublishesStep
<1>3. CASE RefreshReplies \/ RefreshTimesOut
  BY <1>3, RefreshAnsweredStep
<1>4. CASE \E f \in Files : Publishes(f) \/ DidOpen(f) \/ DidChange(f) \/ DidClose(f)
  BY <1>4, PublishesStep, DocumentStep
<1>5. CASE \E m \in Modules : PomPublishes(m)
  BY <1>5, PomPublishesStep
<1>6. CASE \E g \in Groups : ExpandGroup(g)
  BY <1>6, ExpandGroupStep
<1>7. CASE JdtlsStops \/ JdtlsExits
  BY <1>7, MarkStoppedStep DEF JdtlsStops, JdtlsExits
<1>8. CASE SendFails
  BY <1>8, SendFailsStep
<1>9. CASE UNCHANGED vars
  <2>1. /\ UNCHANGED <<open, markers, run, window, session, folders, registry, covered, retired>>
        /\ UNCHANGED <<pending, available, armed, served>>
    BY <1>9 DEF vars, outside
  <2>3. QueueInv'
    BY <2>1, QueueRests
  <2>2. PendingHasRunner' /\ VerdictInv' /\ OrphanIsDone'
    BY <2>1 DEF RoundsInv, PendingHasRunner, VerdictInv, LimitInv, OrphanIsDone
  <2> QED BY <2>1, <2>2, <2>3, OthersStep DEF RoundsInv, Typed
<1> QED BY <1>1, <1>2, <1>3, <1>4, <1>5, <1>6, <1>7, <1>8, <1>9 DEF Next

LEMMA RoundsAlways == Spec => []RoundsInv
BY RoundsInit, RoundsNext, PTL DEF Spec

----------------------------------------------------------------------------
(* The types of what the invariant does not tie to anything.               *)

RestTyped ==
    /\ jdtls \in {"running", "stopping", "exited"} /\ available \in BOOLEAN /\ cached \in BOOLEAN
    /\ latest \subseteq Files /\ folders \subseteq Modules /\ published \subseteq Modules
    /\ indexed \in [Roots -> {"no", "built", "failed"}]

LEMMA ImportsTyped ==
    ASSUME RestTyped, NEW s, Imports(s)
    PROVE  folders' \subseteq Modules
BY DEF RestTyped, Imports

LEMMA AwaitsTyped ==
    ASSUME RoundsInv, RestTyped, NEW r \in Runners, Awaits(r)
    PROVE  RestTyped'
<1>1. UNCHANGED <<jdtls, available, cached, published>> /\ folders' \subseteq Modules
  <2>1. Result(r, session) /\ UNCHANGED outside
    BY AwaitResult
  <2> QED BY <2>1, ImportsTyped DEF Result, outside
<1>2. latest' \subseteq Files /\ indexed' \in [Roots -> {"no", "built", "failed"}]
  <2>1. CASE RefreshEnds(r)
    <3>1. run[r].file \in Files
      BY <2>1 DEF RefreshEnds, Resumes, RoundsInv, Typed, Placed
    <3>2. latest' \subseteq latest \cup {run[r].file} /\ indexed' = indexed
      BY <2>1 DEF RefreshEnds
    <3> QED BY <3>1, <3>2 DEF RestTyped
  <2>2. CASE IndexBuilt(r)
    <3>1. PICK result \in {"built", "failed"} : indexed' = [indexed EXCEPT ![RootIn(run[r])] = result]
      BY <2>2 DEF IndexBuilt
    <3>2. latest' = latest
      BY <2>2 DEF IndexBuilt
    <3> QED BY <3>1, <3>2 DEF RestTyped
  <2>3. CASE UNCHANGED <<latest, indexed>>
    BY <2>3 DEF RestTyped
  <2> QED BY <2>1, <2>2, <2>3 DEF Awaits, ProbeIdleEnds, BuildIdleEnds, IdleWaitEnds, BackoffEnds,
                                  MarkersEnd, QuietEnds
<1> QED BY <1>1, <1>2 DEF RestTyped

LEMMA NotePublishTyped ==
    ASSUME RoundsInv, RestTyped, NEW f, NEW demand, NotePublish(f, demand)
    PROVE  latest' \subseteq Files
BY DEF NotePublish, RoundsInv, Typed, RestTyped

LEMMA RestStep == RoundsInv /\ RestTyped /\ [Next]_vars => RestTyped'
<1> SUFFICES ASSUME RoundsInv, RestTyped, [Next]_vars PROVE RestTyped'
  OBVIOUS
<1>1. ASSUME NEW r \in Runners, Starts(r) \/ ImportSent(r) PROVE RestTyped'
  BY <1>1 DEF Starts, ImportSent, Resumes, Goto, outside, RestTyped
<1>2. ASSUME NEW r \in Runners, TaskRuns(r) PROVE RestTyped'
  BY <1>1, <1>2, AwaitsTyped DEF TaskRuns, Awaits
<1>3. CASE RefreshPublishes
  <2>1. latest' \subseteq Files
    BY <1>3, NotePublishTyped DEF RefreshPublishes
  <2> QED BY <1>3, <2>1 DEF RefreshPublishes, process, RestTyped
<1>4. CASE RefreshReplies \/ RefreshTimesOut
  BY <1>4 DEF RefreshReplies, RefreshTimesOut, outside, RestTyped
<1>5. ASSUME NEW f \in Files, Publishes(f) PROVE RestTyped'
  <2>1. latest' \subseteq Files
    BY <1>5, NotePublishTyped DEF Publishes
  <2> QED BY <1>5, <2>1 DEF Publishes, process, RestTyped
<1>6. ASSUME NEW f \in Files, DidOpen(f) \/ DidChange(f) \/ DidClose(f) PROVE RestTyped'
  BY <1>6 DEF DidOpen, DidChange, DidClose, process, controller, RestTyped
<1>7. ASSUME NEW m \in Modules, PomPublishes(m) PROVE RestTyped'
  BY <1>7 DEF PomPublishes, process, RestTyped
<1>8. ASSUME NEW g \in Groups, ExpandGroup(g) PROVE RestTyped'
  BY <1>8 DEF ExpandGroup, RestTyped
<1>9. CASE JdtlsStops \/ JdtlsExits
  <2>1. jdtls' \in {"stopping", "exited"} /\ MarkStopped
    BY <1>9 DEF JdtlsStops, JdtlsExits
  <2>2. CASE Reset
    BY <2>1, <2>2 DEF MarkStopped, Reset, RestTyped
  <2>3. CASE UNCHANGED <<published, latest, indexed>>
    BY <2>1, <2>3 DEF MarkStopped, RestTyped
  <2> QED BY <2>1, <2>2, <2>3 DEF MarkStopped
<1>10. CASE SendFails
  BY <1>10 DEF SendFails, controller, RestTyped
<1>11. CASE UNCHANGED vars
  BY <1>11 DEF vars, outside, RestTyped
<1> QED BY <1>2, <1>3, <1>4, <1>5, <1>6, <1>7, <1>8, <1>9, <1>10, <1>11 DEF Next

LEMMA TypesFollow == RoundsInv /\ RestTyped => TypeOK
<1> SUFFICES ASSUME RoundsInv, RestTyped PROVE TypeOK
  OBVIOUS
<1>1. {1, 2} = 1 .. 2
  OBVIOUS
<1>2. run \in [Runners ->
            [pc : {"none", "start", "idle", "refresh", "backoff", "markers", "index",
                   "quiet", "sending", "build"},
             new : SUBSET Modules, todo : SUBSET Files, file : Files \cup {None},
             attempt : 1..2, reply : {"none", "yes", "no"}, demand : SUBSET Files,
             still : SUBSET Files, awaited : SUBSET Modules,
             late : BOOLEAN, again : BOOLEAN]]
  BY <1>1 DEF RoundsInv, Typed, Locals, SomeFiles
<1> QED BY <1>2 DEF RoundsInv, Typed, QueueInv, LimitInv, Within, FolderInv, RestTyped, TypeOK,
                    SessionType, WindowType, SomeFiles

LEMMA RestAlways == Spec => []RestTyped
<1>1. Init => RestTyped
  BY DEF Init, RestTyped
<1> QED BY <1>1, RestStep, RoundsAlways, PTL DEF Spec

----------------------------------------------------------------------------
(* A phase takes something from what is left of it with every step.  The    *)
(* lemmas follow the task from an await to the next, as those above do; n is *)
(* the stage it comes from.                                                 *)

Lowers(r, s, n) ==
    /\ session'.refreshes \in Nat /\ s.refreshes <= session'.refreshes
    /\ \/ run'[r].pc \in {"none", "idle"}
       \/ /\ Stage(run'[r]) \in 1 .. 9
          /\ Stage(run'[r]) < 10 * (session'.refreshes - s.refreshes) + n

LEMMA StageValues ==
    ASSUME NEW j
    PROVE  /\ j.pc = "refresh" => Stage(j) = IF j.reply = "none" THEN 9 ELSE 8
           /\ j.pc = "backoff" => Stage(j) = 7
           /\ j.pc = "markers" => Stage(j) = 6
           /\ j.pc = "index" => Stage(j) = 5
           /\ j.pc = "quiet" => Stage(j) = 4
           /\ j.pc = "sending" => Stage(j) = 3
           /\ j.pc = "build" => Stage(j) = 2
BY DEF Stage

LEMMA LowersMore ==
    ASSUME NEW r, NEW s, Within(s), NEW m \in Int, NEW n \in Int, m <= n, Lowers(r, s, m)
    PROVE  Lowers(r, s, n)
BY DEF Lowers, Within, SessionType

\* Where the task only moves on, to a stage below the one it comes from.
LEMMA GotoLowers ==
    ASSUME Typed, NEW r \in Runners, NEW s, Within(s), NEW j, NEW n \in Int,
           run'[r] = j, session'.refreshes = s.refreshes,
           Stage(j) \in 1 .. 9, Stage(j) < n
    PROVE  Lowers(r, s, n)
<1>1. s.refreshes \in Nat
  BY DEF Within, SessionType
<1> QED BY <1>1 DEF Lowers

\* The end of a phase leaves nothing of it.
LEMMA PhaseOverEnds ==
    ASSUME Typed, NEW r \in Runners, NEW s, Within(s), NEW unarmed, NEW dealtWith,
           PhaseOver(r, s, unarmed, dealtWith)
    PROVE  /\ run'[r].pc \in {"none", "idle"} /\ window' = NoWindow /\ registry' = registry
           /\ session'.refreshes = s.refreshes /\ session'.rounds = s.rounds
<1>1. session' = [s EXCEPT !.importing = FALSE] /\ NextPhase(r, s)
      /\ window' = NoWindow /\ registry' = registry
  BY DEF PhaseOver
<1>2. session'.refreshes = s.refreshes /\ session'.rounds = s.rounds
  BY <1>1 DEF Within, SessionType
<1>3. CASE pending = <<>> \/ s.terminal # "none"
  <2>1. run' = [run EXCEPT ![r] = Idle] /\ Idle.pc = "none"
    BY <1>1, <1>3 DEF NextPhase, Idle
  <2> QED BY <1>1, <1>2, <2>1 DEF Typed
<1>4. CASE ~(pending = <<>> \/ s.terminal # "none")
  <2>1. PICK new, awaited :
          run' = [run EXCEPT ![r] = [Idle EXCEPT !.pc = "idle", !.new = new, !.awaited = awaited]]
    BY <1>1, <1>4 DEF NextPhase
  <2> DEFINE j == [Idle EXCEPT !.pc = "idle", !.new = new, !.awaited = awaited]
  <2>2. j.pc = "idle"
    BY DEF Idle
  <2> HIDE DEF j
  <2>3. run' = [run EXCEPT ![r] = j]
    BY <2>1 DEF j
  <2> QED BY <1>1, <1>2, <2>2, <2>3 DEF Typed
<1> QED BY <1>3, <1>4

LEMMA PhaseOverLowers ==
    ASSUME Typed, NEW r \in Runners, NEW s, Within(s), NEW unarmed, NEW dealtWith,
           PhaseOver(r, s, unarmed, dealtWith), NEW n
    PROVE  Lowers(r, s, n)
<1>1. s.refreshes \in Nat
  BY DEF Within, SessionType
<1> QED BY <1>1, PhaseOverEnds DEF Lowers

LEMMA StopLowers ==
    ASSUME Typed, NEW r \in Runners, NEW s, Within(s), NEW n,
           (\E reason : Stop(r, s, reason)) \/ Raises(r, s)
    PROVE  Lowers(r, s, n)
BY PhaseOverLowers DEF Stop, Raises

LEMMA StopAtLimitLowers ==
    ASSUME Typed, NEW r \in Runners, NEW s, Within(s), NEW limit \in Terminal,
           StopAtLimit(r, s, limit), NEW n
    PROVE  Lowers(r, s, n)
<1> DEFINE t == [s EXCEPT !.terminal = limit]
<1>1. Stop(r, t, limit)
  BY DEF StopAtLimit
<1>2. Within(t) /\ t.refreshes = s.refreshes
  BY TerminalWithin DEF Within, SessionType
<1> HIDE DEF t
<1>3. Lowers(r, t, n)
  BY <1>1, <1>2, StopLowers
<1> QED BY <1>2, <1>3 DEF Lowers

\* The quiet wait for the markers is taken once in a phase's round.
LEMMA ChooseLowers ==
    ASSUME Typed, NEW r \in Runners, NEW s, Within(s), NEW j \in Locals, NEW built,
           Choose(r, s, j, built)
    PROVE  Lowers(r, s, 5) /\ (j.again = TRUE => Lowers(r, s, 4))
<1>1. CASE (\E reason : Stop(r, s, reason)) \/ Raises(r, s)
  BY <1>1, StopLowers
<1>2. CASE ~j.again /\ Goto(r, s, [j EXCEPT !.pc = "quiet", !.again = TRUE])
  <2> DEFINE l == [j EXCEPT !.pc = "quiet", !.again = TRUE]
  <2>1. Stage(l) = 4
    <3>1. l.pc = "quiet"
      BY DEF Locals
    <3> HIDE DEF l
    <3> QED BY <3>1, StageValues
  <2> HIDE DEF l
  <2>2. run'[r] = l /\ session' = s
    BY <1>2 DEF Goto, l, Typed
  <2>3. Lowers(r, s, 5)
    BY <2>1, <2>2, GotoLowers
  <2> QED BY <1>2, <2>3
<1>3. CASE \E limit \in LimitReasons(s) :
              IF limit = "none" THEN Import(r, s, j) ELSE StopAtLimit(r, s, limit)
  <2>1. CASE \E limit \in Terminal : StopAtLimit(r, s, limit)
    BY <2>1, StopAtLimitLowers
  <2>2. CASE Import(r, s, j)
    <3>1. PICK batch : /\ run' = [run EXCEPT ![r] = [j EXCEPT !.pc = "sending", !.awaited = batch]]
                       /\ session' = [s EXCEPT !.used = @ + Cardinality(batch)]
      BY <2>2 DEF Import
    <3> DEFINE l == [j EXCEPT !.pc = "sending", !.awaited = batch]
    <3>2. l.pc = "sending"
      BY DEF Locals
    <3>3. session'.refreshes = s.refreshes
      BY <3>1 DEF Within, SessionType
    <3> HIDE DEF l
    <3>4. Stage(l) = 3
      BY <3>2, StageValues
    <3>5. run'[r] = l
      BY <3>1 DEF l, Typed
    <3>6. Lowers(r, s, 4)
      BY <3>3, <3>4, <3>5, GotoLowers
    <3> QED BY <3>6, LowersMore
  <2> QED BY <1>3, <2>1, <2>2, LimitReasonsSound
<1> QED BY <1>1, <1>2, <1>3 DEF Choose

LEMMA WithIndexLowers ==
    ASSUME Typed, NEW r \in Runners, NEW s, Within(s), NEW j \in Locals, WithIndex(r, s, j)
    PROVE  Lowers(r, s, 6)
<1> DEFINE l == [j EXCEPT !.pc = "index"]
<1>1. l.pc = "index"
  BY DEF Locals
<1> HIDE DEF l
<1>2. Stage(l) = 5
  BY <1>1, StageValues
<1>3. Goto(r, s, l) \/ \E built : Choose(r, s, j, built)
  BY DEF WithIndex, l
<1>4. CASE Goto(r, s, l)
  <2>1. run'[r] = l /\ session' = s
    BY <1>4 DEF Goto, Typed
  <2> QED BY <1>2, <2>1, GotoLowers
<1>5. CASE \E built : Choose(r, s, j, built)
  <2>1. Lowers(r, s, 5)
    BY <1>5, ChooseLowers
  <2> QED BY <2>1, LowersMore
<1> QED BY <1>3, <1>4, <1>5

\* Without a file that still has demand, a refresh ends the phase.
LEMMA RefreshedLowers ==
    ASSUME Typed, NEW r \in Runners, NEW s, Within(s), NEW j \in Locals, Refreshed(r, s, j)
    PROVE  Lowers(r, s, 7) /\ (j.still = {} => Lowers(r, s, 0))
<1>1. CASE j.still = {}
  BY <1>1, StopLowers DEF Refreshed
<1>2. CASE j.still # {}
  <2> DEFINE next == [j EXCEPT !.demand = j.still, !.still = {}, !.late = FALSE, !.again = FALSE]
             l == [next EXCEPT !.pc = "markers"]
  <2>1. next \in Locals /\ l.pc = "markers"
    BY DEF Locals
  <2>2. Goto(r, s, l) \/ WithIndex(r, s, next)
    BY <1>2 DEF Refreshed
  <2> HIDE DEF l, next
  <2>3. Stage(l) = 6
    BY <2>1, StageValues
  <2>4. CASE Goto(r, s, l)
    <3>1. run'[r] = l /\ session' = s
      BY <2>4 DEF Goto, Typed
    <3> QED BY <1>2, <2>3, <3>1, GotoLowers
  <2>5. CASE WithIndex(r, s, next)
    <3>1. Lowers(r, s, 6)
      BY <2>1, <2>5, WithIndexLowers
    <3> QED BY <1>2, <3>1, LowersMore
  <2> QED BY <2>2, <2>4, <2>5
<1> QED BY <1>1, <1>2

LEMMA NoAnswerLowers ==
    ASSUME Typed, NEW r \in Runners, NEW s, Within(s), NEW j \in Locals, NoAnswer(r, s, j)
    PROVE  Lowers(r, s, 8)
<1>1. CASE j.attempt = 1
  <2> DEFINE l == [j EXCEPT !.pc = "backoff", !.reply = "none"]
  <2>1. l.pc = "backoff"
    BY DEF Locals
  <2> HIDE DEF l
  <2>2. Stage(l) = 7
    BY <2>1, StageValues
  <2>3. run'[r] = l /\ session' = s
    BY <1>1 DEF NoAnswer, Goto, l, Typed
  <2> QED BY <2>2, <2>3, GotoLowers
<1>2. CASE j.attempt # 1
  BY <1>2, StopLowers DEF NoAnswer
<1> QED BY <1>1, <1>2

\* A refresh takes one of those that are left, whatever comes of it.
LEMMA AskLowers ==
    ASSUME Typed, NEW r \in Runners, NEW s, Within(s), NEW j \in Locals, Ask(r, s, j)
    PROVE  Lowers(r, s, 0)
<1> DEFINE asked == [s EXCEPT !.refreshes = @ + 1]
<1>1. CASE s.refreshes >= RefreshCap
  <2>1. "refresh-cap" \in Terminal
    BY DEF Terminal
  <2> QED BY <1>1, <2>1, StopAtLimitLowers DEF Ask
<1>2. CASE ~(s.refreshes >= RefreshCap)
  <2>1. s.refreshes \in Nat /\ RefreshCap \in Nat
    BY LimitsPositive DEF Within, SessionType
  <2>2. Within(asked) /\ asked.refreshes = s.refreshes + 1
    BY <1>2, <2>1 DEF Within, SessionType
  <2>3. Lowers(r, asked, 10)
    <3>1. CASE available
      <4> DEFINE l == [j EXCEPT !.pc = "refresh", !.reply = "none"]
      <4>1. l.pc = "refresh" /\ l.reply = "none"
        BY DEF Locals
      <4>2. run'[r] = l /\ session' = asked
        BY <1>2, <3>1 DEF Ask, Typed
      <4> HIDE DEF l, asked
      <4>3. Stage(l) = 9
        BY <4>1, StageValues
      <4> QED BY <2>2, <4>2, <4>3, GotoLowers
    <3>2. CASE ~available
      <4>1. NoAnswer(r, asked, j)
        BY <1>2, <3>2 DEF Ask
      <4> HIDE DEF asked
      <4>2. Lowers(r, asked, 8)
        BY <2>2, <4>1, NoAnswerLowers
      <4> QED BY <2>2, <4>2, LowersMore
    <3> QED BY <3>1, <3>2
  <2> HIDE DEF asked
  <2> QED BY <2>1, <2>2, <2>3 DEF Lowers
<1> QED BY <1>1, <1>2

LEMMA RefreshLowers ==
    ASSUME Typed, NEW r \in Runners, NEW s, Within(s), NEW j \in Locals, Refresh(r, s, j)
    PROVE  Lowers(r, s, 7) /\ (j.still = {} => Lowers(r, s, 0))
<1>1. CASE j.todo = {}
  BY <1>1, RefreshedLowers DEF Refresh
<1>2. CASE j.todo # {}
  <2>1. PICK f \in j.todo : Ask(r, s, [j EXCEPT !.todo = @ \ {f}, !.file = f, !.attempt = 1])
    BY <1>2 DEF Refresh
  <2> DEFINE l == [j EXCEPT !.todo = @ \ {f}, !.file = f, !.attempt = 1]
  <2>0. f \in Files
    BY DEF Locals
  <2>2. l \in Locals
    BY <2>0 DEF Locals, SomeFiles
  <2> HIDE DEF l
  <2>3. Ask(r, s, l)
    BY <2>1 DEF l
  <2>4. Lowers(r, s, 0)
    BY <2>2, <2>3, AskLowers
  <2> QED BY <2>4, LowersMore
<1> QED BY <1>1, <1>2

LEMMA IdleWaitLowers ==
    ASSUME RoundsInv, NEW r \in Runners, NEW files \in SUBSET Files, IdleWaitEnds(r, files)
    PROVE  Lowers(r, session, 0)
<1>1. run[r] \in Locals /\ Within(session) /\ Typed
  BY DEF RoundsInv, Typed, LimitInv
<1>2. CASE Probe(r, session, run[r], files)
  <2>1. PICK todo \in SUBSET files :
          Refresh(r, session, [run[r] EXCEPT !.todo = todo, !.still = {}])
    BY <1>2 DEF Probe, FirstOf
  <2> DEFINE l == [run[r] EXCEPT !.todo = todo, !.still = {}]
  <2>2. l \in Locals /\ l.still = {}
    BY <1>1 DEF Locals
  <2> HIDE DEF l
  <2>3. Refresh(r, session, l)
    BY <2>1 DEF l
  <2> QED BY <1>1, <2>2, <2>3, RefreshLowers
<1>3. CASE \E limit \in LimitReasons(session) :
              IF limit = "none" THEN Stop(r, session, "jdtls-busy")
              ELSE StopAtLimit(r, session, limit)
  BY <1>1, <1>3, LimitReasonsSound, StopLowers, StopAtLimitLowers
<1> QED BY <1>2, <1>3 DEF IdleWaitEnds

\* From every await of a phase the task comes to a lower one, or to the phase's end.
LEMMA AwaitsLower ==
    ASSUME RoundsInv, NEW r \in Runners, Awaits(r), InPhase(r)
    PROVE  Lowers(r, session, Stage(run[r]))
<1> DEFINE l == run[r]
<1>1. l \in Locals /\ Within(session) /\ Typed /\ Placed(l)
  BY DEF RoundsInv, Typed, LimitInv
<1>2. l.pc # "idle" /\ l.pc # "none"
  BY DEF InPhase
<1>3. CASE BuildIdleEnds(r)
  <2>1. Stage(l) = 2
    BY <1>3, StageValues DEF BuildIdleEnds, Resumes
  <2>2. l.demand \cap open \in SUBSET Files
    BY <1>1 DEF Typed, Locals
  <2>3. Lowers(r, session, 0)
    BY <1>3, <2>2, IdleWaitLowers DEF BuildIdleEnds
  <2> QED BY <1>1, <2>1, <2>3, LowersMore
<1>4. CASE RefreshEnds(r)
  <2> DEFINE j == [l EXCEPT !.reply = "none"]
             k == [j EXCEPT !.still = @ \cup {l.file}]
  <2>1. Stage(l) = 8
    BY <1>4, StageValues DEF RefreshEnds, Resumes
  <2>2. j \in Locals /\ k \in Locals
    <3>1. l.file \in Files
      BY <1>1, <1>4 DEF Placed, RefreshEnds, Resumes
    <3>2. j \in Locals /\ j.still = l.still
      BY <1>1 DEF Locals
    <3> QED BY <3>1, <3>2 DEF Locals
  <2>3. Refresh(r, session, j) \/ Refresh(r, session, k) \/ NoAnswer(r, session, j)
    BY <1>4 DEF RefreshEnds
  <2> HIDE DEF l, j, k
  <2>4. Lowers(r, session, 7) \/ Lowers(r, session, 8)
    BY <1>1, <2>2, <2>3, RefreshLowers, NoAnswerLowers
  <2>5. Lowers(r, session, Stage(l))
    BY <1>1, <2>1, <2>4, LowersMore
  <2> QED BY <2>5 DEF l
<1>5. CASE BackoffEnds(r)
  <2> DEFINE j == [l EXCEPT !.attempt = @ + 1]
  <2>1. l.pc = "backoff" /\ Ask(r, session, j)
    BY <1>5 DEF BackoffEnds, Resumes
  <2>2. j \in Locals
    <3>1. l.attempt = 1
      BY <1>1, <2>1 DEF Placed
    <3>2. j = [l EXCEPT !.attempt = 2]
      BY <3>1
    <3> QED BY <1>1, <3>2 DEF Locals
  <2>3. Stage(l) = 7
    BY <2>1, StageValues
  <2> HIDE DEF j
  <2>4. Lowers(r, session, 0)
    BY <1>1, <2>1, <2>2, AskLowers
  <2> QED BY <1>1, <2>3, <2>4, LowersMore
<1>6. CASE MarkersEnd(r)
  <2> DEFINE j == [l EXCEPT !.late = l.awaited # {}]
  <2>1. l.pc = "markers" /\ WithIndex(r, session, j)
    BY <1>6 DEF MarkersEnd, Resumes
  <2>2. j \in Locals
    BY <1>1 DEF Locals
  <2>3. Stage(l) = 6
    BY <2>1, StageValues
  <2> HIDE DEF j
  <2>4. Lowers(r, session, 6)
    BY <1>1, <2>1, <2>2, WithIndexLowers
  <2> QED BY <2>3, <2>4
<1>7. CASE IndexBuilt(r)
  <2>1. Stage(l) = 5 /\ \E built : Choose(r, session, l, built)
    BY <1>7, StageValues DEF IndexBuilt, Resumes
  <2>2. Lowers(r, session, 5)
    BY <1>1, <2>1, ChooseLowers
  <2> QED BY <2>1, <2>2
<1>8. CASE QuietEnds(r)
  <2>1. l.pc = "quiet" /\ Choose(r, session, l, TRUE)
    BY <1>8 DEF QuietEnds, Resumes
  <2>2. l.again = TRUE /\ Stage(l) = 4
    BY <1>1, <2>1, StageValues DEF Placed
  <2>3. Lowers(r, session, 4)
    BY <1>1, <2>1, <2>2, ChooseLowers
  <2> QED BY <2>2, <2>3
<1>9. ~ProbeIdleEnds(r)
  BY <1>2 DEF ProbeIdleEnds, Resumes
<1> QED BY <1>3, <1>4, <1>5, <1>6, <1>7, <1>8, <1>9 DEF Awaits

LEMMA StageTyped ==
    ASSUME NEW j \in Locals, j.pc \notin {"none", "start", "idle"}
    PROVE  Stage(j) \in 1 .. 9
<1>1. j.pc \in {"refresh", "backoff", "markers", "index", "quiet", "sending", "build"}
  BY DEF Locals
<1> QED BY <1>1, StageValues

LEMMA SameLocals ==
    ASSUME NEW j \in Locals
    PROVE  j = [j EXCEPT !.awaited = j.awaited]
BY DEF Locals

\* Two ways to advance: down a stage or by a refresh, or by a publish of a pom only.
LEMMA AdvancesBy ==
    ASSUME RoundsInv, RoundsInv', NEW r \in Runners,
           session'.refreshes >= session.refreshes,
           InPhase(r) /\ InPhase(r)' =>
              \/ Stage(run'[r])
                   < 10 * (session'.refreshes - session.refreshes) + Stage(run[r])
              \/ /\ Stage(run'[r]) = Stage(run[r])
                 /\ run'[r] = [run[r] EXCEPT !.awaited = run'[r].awaited]
    PROVE  Advances(r)
<1> SUFFICES ASSUME InPhase(r), InPhase(r)'
             PROVE  /\ 0 < WorkLeft(r)' /\ WorkLeft(r)' <= WorkLeft(r)
                    /\ WorkLeft(r)' = WorkLeft(r) =>
                          run'[r] = [run[r] EXCEPT !.awaited = run'[r].awaited]
  BY DEF Advances
<1>1. /\ run[r] \in Locals /\ run'[r] \in Locals
      /\ session.refreshes \in Nat /\ session'.refreshes \in Nat /\ RefreshCap \in Nat
      /\ session'.refreshes <= RefreshCap
  BY LimitsPositive DEF RoundsInv, Typed, LimitInv, Within, SessionType
<1>2. Stage(run[r]) \in 1 .. 9 /\ Stage(run'[r]) \in 1 .. 9
  BY <1>1, StageTyped DEF InPhase
<1>3. /\ WorkLeft(r) = 10 * (RefreshCap - session.refreshes) + Stage(run[r])
      /\ WorkLeft(r)' = 10 * (RefreshCap - session'.refreshes) + Stage(run'[r])
  BY DEF WorkLeft, Stage
<1> DEFINE a == session.refreshes
           b == session'.refreshes
           x == Stage(run[r])
           y == Stage(run'[r])
           only == run'[r] = [run[r] EXCEPT !.awaited = run'[r].awaited]
<1>4. a \in Nat /\ b \in Nat /\ b <= RefreshCap /\ a <= b /\ x \in 1 .. 9 /\ y \in 1 .. 9
  BY <1>1, <1>2
<1>5. (y < 10 * (b - a) + x) \/ (y = x /\ only)
  OBVIOUS
<1>6. WorkLeft(r) = 10 * (RefreshCap - a) + x /\ WorkLeft(r)' = 10 * (RefreshCap - b) + y
  BY <1>3
<1> HIDE DEF a, b, x, y, only
<1>7. 0 < 10 * (RefreshCap - b) + y
      /\ (10 * (RefreshCap - b) + y <= 10 * (RefreshCap - a) + x)
      /\ ((10 * (RefreshCap - b) + y = 10 * (RefreshCap - a) + x) => only)
  BY <1>1, <1>4, <1>5
<1> QED BY <1>6, <1>7 DEF only

LEMMA RestsAdvances ==
    ASSUME RoundsInv, RoundsInv', NEW r \in Runners, run'[r] = run[r],
           session'.refreshes >= session.refreshes
    PROVE  Advances(r)
<1>1. run[r] \in Locals
  BY DEF RoundsInv, Typed
<1>2. run'[r] = [run[r] EXCEPT !.awaited = run'[r].awaited] /\ Stage(run'[r]) = Stage(run[r])
  BY <1>1, SameLocals
<1> QED BY <1>2, AdvancesBy

\* The refreshes of a session are only counted up.
LEMMA TaskRunsCounts ==
    ASSUME RoundsInv, NEW q \in Runners, TaskRuns(q)
    PROVE  /\ session'.refreshes >= session.refreshes
           /\ \A r \in Runners : r # q => run'[r] = run[r]
<1>1. /\ run \in [Runners -> Locals] /\ session \in SessionType /\ session.refreshes \in Nat
      /\ open \subseteq Files
  BY DEF RoundsInv, Typed, SessionType
<1>2. CASE Starts(q)
  <2>1. session' = session /\ NextPhase(q, session)
    BY <1>2 DEF Starts
  <2> QED BY <1>1, <2>1 DEF NextPhase
<1>3. CASE ImportSent(q)
  <2>1. session' = [session EXCEPT !.rounds = @ + 1, !.importing = TRUE]
        /\ \E j : run' = [run EXCEPT ![q] = j]
    BY <1>3 DEF ImportSent, Goto
  <2> QED BY <1>1, <2>1 DEF SessionType
<1>4. CASE Awaits(q)
  <2>1. \E j \in Locals : run' = [run EXCEPT ![q] = j]
    BY <1>4, AwaitResult DEF Result
  <2>2. \E n : Lowers(q, session, n)
    <3>1. CASE ProbeIdleEnds(q)
      <4>1. {f \in open \cap latest : ModuleOf[f] \in run[q].new} \in SUBSET Files
        BY <1>1
      <4> QED BY <3>1, <4>1, IdleWaitLowers DEF ProbeIdleEnds
    <3>2. CASE ~ProbeIdleEnds(q)
      <4>1. InPhase(q)
        BY <1>4, <3>2 DEF Awaits, InPhase, Resumes, BuildIdleEnds, RefreshEnds, BackoffEnds,
                          MarkersEnd, IndexBuilt, QuietEnds
      <4> QED BY <1>4, <4>1, AwaitsLower
    <3> QED BY <3>1, <3>2
  <2> QED BY <1>1, <2>1, <2>2 DEF Lowers
<1> QED BY <1>2, <1>3, <1>4 DEF TaskRuns, Awaits

LEMMA TaskRunsAdvances ==
    ASSUME RoundsInv, RoundsInv', NEW q \in Runners, TaskRuns(q), NEW r \in Runners
    PROVE  Advances(r)
<1>1. session'.refreshes >= session.refreshes /\ (r # q => run'[r] = run[r])
  BY TaskRunsCounts
<1>2. CASE r # q
  BY <1>1, <1>2, RestsAdvances
<1>3. CASE r = q
  <2>1. CASE Starts(r)
    <3>1. ~InPhase(r)
      BY <2>1 DEF Starts, Resumes, InPhase
    <3> QED BY <3>1 DEF Advances
  <2>2. CASE ImportSent(r)
    <3>1. /\ run[r].pc = "sending" /\ run' = [run EXCEPT ![r] = [run[r] EXCEPT !.pc = "build"]]
          /\ session'.refreshes = session.refreshes /\ session.refreshes \in Nat
          /\ run \in [Runners -> Locals]
      BY <2>2 DEF ImportSent, Goto, Resumes, RoundsInv, Typed, SessionType
    <3>2. run'[r].pc = "build"
      BY <3>1 DEF Locals
    <3>3. Stage(run[r]) = 3 /\ Stage(run'[r]) = 2
      BY <3>1, <3>2, StageValues
    <3>4. Stage(run'[r]) < 10 * (session'.refreshes - session.refreshes) + Stage(run[r])
      BY <3>1, <3>3
    <3> QED BY <1>1, <3>4, AdvancesBy
  <2>3. CASE Awaits(r)
    <3>1. InPhase(r) => Lowers(r, session, Stage(run[r]))
      BY <2>3, AwaitsLower
    <3>2. InPhase(r)' => run'[r].pc \notin {"none", "idle"}
      BY DEF InPhase
    <3>3. InPhase(r) /\ InPhase(r)' =>
            Stage(run'[r]) < 10 * (session'.refreshes - session.refreshes) + Stage(run[r])
      BY <3>1, <3>2 DEF Lowers
    <3> QED BY <1>1, <3>3, AdvancesBy
  <2> QED BY <1>3, <2>1, <2>2, <2>3 DEF TaskRuns, Awaits
<1> QED BY <1>2, <1>3

LEMMA PhaseAdvancesStep ==
    ASSUME RoundsInv, RoundsInv', [Next]_vars, NEW r \in Runners
    PROVE  Advances(r)
<1>0. /\ run \in [Runners -> Locals] /\ session.refreshes \in Nat /\ run[r] \in Locals
      /\ r \in {"main", "orphan"} /\ "main" \in Runners
  BY DEF RoundsInv, Typed, SessionType, Runners
<1>1. ASSUME NEW q \in Runners, TaskRuns(q) PROVE Advances(r)
  BY <1>1, TaskRunsAdvances
<1>2. CASE UNCHANGED <<run, session>>
  BY <1>0, <1>2, RestsAdvances
<1>3. ASSUME NEW f, NEW demand, NotePublish(f, demand), UNCHANGED session PROVE Advances(r)
  <2>1. CASE run'[r] = run[r]
    BY <1>0, <1>3, <2>1, RestsAdvances
  <2>2. CASE run'[r] # run[r]
    <3>1. run[r].pc = "none"
      BY <1>0, <1>3, <2>2 DEF NotePublish
    <3> QED BY <3>1 DEF Advances, InPhase
  <2> QED BY <2>1, <2>2
<1>4. CASE RefreshPublishes \/ \E f \in Files : Publishes(f)
  BY <1>3, <1>4 DEF RefreshPublishes, Publishes
<1>5. CASE RefreshReplies \/ RefreshTimesOut
  <2>1. PICK reply \in {"yes", "no"} : run' = [run EXCEPT !["main"].reply = reply]
    BY <1>5 DEF RefreshReplies, RefreshTimesOut
  <2>2. session' = session /\ run["main"].pc = "refresh" /\ run["main"].reply = "none"
    BY <1>5 DEF RefreshReplies, RefreshTimesOut
  <2>3. CASE r = "main"
    <3>1. run'[r].pc = "refresh" /\ run'[r].reply # "none"
      BY <1>0, <2>1, <2>2, <2>3 DEF Locals
    <3>2. Stage(run[r]) = 9 /\ Stage(run'[r]) = 8
      BY <2>2, <2>3, <3>1, StageValues
    <3>3. Stage(run'[r]) < 10 * (session'.refreshes - session.refreshes) + Stage(run[r])
      BY <1>0, <2>2, <3>2
    <3>4. session'.refreshes >= session.refreshes
      BY <1>0, <2>2
    <3> QED BY <3>3, <3>4, AdvancesBy
  <2>4. CASE r # "main"
    BY <1>0, <2>1, <2>2, <2>4, RestsAdvances
  <2> QED BY <2>3, <2>4
<1>6. CASE \E m \in Modules : PomPublishes(m)
  <2>1. PICK m \in Modules : run' = [q \in Runners |-> [run[q] EXCEPT !.awaited = @ \ {m}]]
    BY <1>6 DEF PomPublishes
  <2>2. session' = session
    BY <1>6 DEF PomPublishes
  <2> DEFINE awaited == run[r].awaited \ {m}
  <2>3. run'[r] = [run[r] EXCEPT !.awaited = awaited]
    BY <2>1
  <2> HIDE DEF awaited
  <2>4. run'[r].pc = run[r].pc /\ run'[r].reply = run[r].reply /\ run'[r].awaited = awaited
    BY <1>0, <2>3 DEF Locals
  <2>5. Stage(run'[r]) = Stage(run[r])
    BY <2>4 DEF Stage
  <2> QED BY <1>0, <2>2, <2>3, <2>4, <2>5, AdvancesBy
<1>7. CASE \E f \in Files : DidOpen(f) \/ DidChange(f) \/ DidClose(f)
  BY <1>2, <1>7 DEF DidOpen, DidChange, DidClose, controller
<1>8. CASE (\E g \in Groups : ExpandGroup(g)) \/ SendFails
  BY <1>2, <1>8 DEF ExpandGroup, SendFails, controller
<1>9. CASE JdtlsStops \/ JdtlsExits
  BY <1>9 DEF JdtlsStops, JdtlsExits, Advances
<1>10. CASE UNCHANGED vars
  BY <1>2, <1>10 DEF vars
<1> QED BY <1>1, <1>4, <1>5, <1>6, <1>7, <1>8, <1>9, <1>10 DEF Next

----------------------------------------------------------------------------
(* The controller keeps ImportContract.  W are the files that are found to  *)
(* have demand by the time an operator of the task runs.                    *)

\* Modules are chosen for some file.
DemandInv ==
    run["main"].pc \in {"markers", "index", "quiet"} => run["main"].demand # {}

\* A round that is left, and a batch of what the files in W need.
UsesUp(s, W) ==
    /\ W # {} /\ s.rounds < Rounds /\ Made' = s.rounds + 1 /\ Warrant' = {}
    /\ \E batch \in SUBSET Modules :
        /\ batch # {} /\ batch \subseteq Frontier(W) /\ Cardinality(batch) <= PerRound
        /\ registry' = registry \cup batch

Settles(s, W) ==
    /\ window'.seen = None /\ DemandInv'
    /\ \/ Warrant' \in {W, {}} /\ registry' = registry /\ Made' = s.rounds
       \/ UsesUp(s, W)

\* Where the task only moves on, with the files in W.
LEMMA MoveSettles ==
    ASSUME Typed, NEW s, Within(s), NEW j, NEW W,
           run'["main"] = j, session'.rounds = s.rounds, window'.seen = None,
           registry' = registry, j.pc # "sending", WarrantOf(j) = W,
           j.pc \in {"markers", "index", "quiet"} => W # {}
    PROVE  Settles(s, W)
<1>1. s.rounds \in Nat
  BY DEF Within, SessionType
<1>2. Warrant' = W
  BY DEF Warrant, WarrantOf
<1>3. Made' = s.rounds
  BY <1>1 DEF Made
<1>4. DemandInv'
  BY DEF DemandInv, WarrantOf
<1> QED BY <1>2, <1>3, <1>4 DEF Settles

LEMMA PhaseOverSettles ==
    ASSUME Typed, NEW s, Within(s), NEW unarmed, NEW dealtWith,
           PhaseOver("main", s, unarmed, dealtWith), NEW W
    PROVE  Settles(s, W)
<1>1. /\ run'["main"].pc \in {"none", "idle"} /\ window' = NoWindow /\ registry' = registry
      /\ session'.rounds = s.rounds /\ s.rounds \in Nat
  BY PhaseOverEnds DEF Runners, Within, SessionType
<1>2. Warrant' = {}
  BY <1>1 DEF Warrant, WarrantOf
<1>3. Made' = s.rounds
  BY <1>1 DEF Made
<1>4. DemandInv' /\ window'.seen = None
  BY <1>1 DEF DemandInv, NoWindow
<1> QED BY <1>1, <1>2, <1>3, <1>4 DEF Settles

LEMMA StopSettles ==
    ASSUME Typed, NEW s, Within(s), NEW W,
           (\E reason : Stop("main", s, reason)) \/ Raises("main", s)
    PROVE  Settles(s, W)
BY PhaseOverSettles DEF Stop, Raises

LEMMA StopAtLimitSettles ==
    ASSUME Typed, NEW s, Within(s), NEW limit \in Terminal, StopAtLimit("main", s, limit), NEW W
    PROVE  Settles(s, W)
<1> DEFINE t == [s EXCEPT !.terminal = limit]
<1>1. Stop("main", t, limit)
  BY DEF StopAtLimit
<1>2. Within(t) /\ t.rounds = s.rounds
  BY TerminalWithin
<1> HIDE DEF t
<1>3. Settles(t, W)
  BY <1>1, <1>2, StopSettles
<1> QED BY <1>2, <1>3 DEF Settles, UsesUp

\* A batch that is not empty, of what some pom reports missing.
LEMMA ImportSettles ==
    ASSUME Typed, NEW s, Within(s), s.rounds < Rounds, s.used < Budget, NEW j \in Locals,
           j.demand # {}, Candidates(j.demand) # {}, Import("main", s, j)
    PROVE  Settles(s, j.demand)
<1> DEFINE left == Budget - s.used
           C == Candidates(j.demand)
<1>1. /\ left \in Nat \ {0} /\ PerRound \in Nat \ {0} /\ s.rounds \in Nat
  BY LimitsPositive DEF Within, SessionType
<1>2. PICK batch \in FirstOf(C, Min({PerRound, left})) :
        /\ registry' = registry \cup batch
        /\ session' = [s EXCEPT !.used = @ + Cardinality(batch)]
        /\ run' = [run EXCEPT !["main"] = [j EXCEPT !.pc = "sending", !.awaited = batch]]
        /\ window' = NoWindow
  BY DEF Import
<1>3. batch \subseteq C /\ Cardinality(batch) = Min({Cardinality(C), Min({PerRound, left})})
  BY DEF FirstOf
<1>4. C \subseteq Modules /\ C \subseteq Frontier(j.demand)
  BY DEF Candidates, Typed
<1>5. Cardinality(C) \in Nat \ {0}
  BY <1>4, ModulesFinite, FS_Subset, FS_CardinalityType, FS_EmptySet
<1>6. Min({PerRound, left}) \in Nat \ {0} /\ Min({PerRound, left}) <= PerRound
  <2>1. Min({PerRound, left}) \in {PerRound, left}
    BY <1>1, SMT DEF Min
  <2> QED BY <1>1, <2>1, MinOfTwo
<1>7. Cardinality(batch) \in Nat \ {0} /\ Cardinality(batch) <= PerRound
  <2> DEFINE a == Cardinality(C)
             b == Min({PerRound, left})
  <2> HIDE DEF a, b
  <2>1. a \in Nat \ {0} /\ b \in Nat \ {0} /\ b <= PerRound
    BY <1>5, <1>6 DEF a, b
  <2>2. Min({a, b}) \in {a, b} /\ Min({a, b}) <= b
    BY <2>1, SMT DEF Min
  <2>3. Cardinality(batch) = Min({a, b})
    BY <1>3 DEF a, b
  <2> QED BY <1>1, <2>1, <2>2, <2>3
<1>8. batch # {} /\ batch \in SUBSET Modules /\ batch \subseteq Frontier(j.demand)
  BY <1>3, <1>4, <1>7, FS_EmptySet
<1>9. run'["main"].pc = "sending" /\ session'.rounds = s.rounds /\ window'.seen = None
  <2>1. run'["main"] = [j EXCEPT !.pc = "sending", !.awaited = batch]
    BY <1>2 DEF Typed, Runners
  <2>2. run'["main"].pc = "sending"
    BY <2>1 DEF Locals
  <2> QED BY <1>2, <2>2 DEF NoWindow, Within, SessionType
<1>10. Warrant' = {} /\ DemandInv'
  BY <1>9 DEF Warrant, WarrantOf, DemandInv
<1>11. Made' = s.rounds + 1
  BY <1>9 DEF Made
<1> QED BY <1>2, <1>7, <1>8, <1>9, <1>10, <1>11 DEF Settles, UsesUp

LEMMA ChooseSettles ==
    ASSUME Typed, NEW s, Within(s), NEW j \in Locals, j.demand # {}, NEW built,
           Choose("main", s, j, built)
    PROVE  Settles(s, j.demand)
<1>1. CASE (\E reason : Stop("main", s, reason)) \/ Raises("main", s)
  BY <1>1, StopSettles
<1>2. CASE Goto("main", s, [j EXCEPT !.pc = "quiet", !.again = TRUE])
  <2> DEFINE l == [j EXCEPT !.pc = "quiet", !.again = TRUE]
  <2>1. l.pc = "quiet" /\ l.demand = j.demand
    BY DEF Locals
  <2> HIDE DEF l
  <2>2. run'["main"] = l /\ session' = s /\ window' = NoWindow /\ registry' = registry
    BY <1>2 DEF Goto, l, Typed, Runners
  <2>3. WarrantOf(l) = j.demand /\ window'.seen = None
    BY <2>1, <2>2 DEF WarrantOf, NoWindow
  <2> QED BY <2>1, <2>2, <2>3, MoveSettles
<1>3. CASE /\ Candidates(j.demand) # {}
           /\ \E limit \in LimitReasons(s) :
                IF limit = "none" THEN Import("main", s, j) ELSE StopAtLimit("main", s, limit)
  BY <1>3, LimitReasonsSound, ImportSettles, StopAtLimitSettles
<1> QED BY <1>1, <1>2, <1>3 DEF Choose

LEMMA WithIndexSettles ==
    ASSUME Typed, NEW s, Within(s), NEW j \in Locals, j.demand # {}, WithIndex("main", s, j)
    PROVE  Settles(s, j.demand)
<1> DEFINE l == [j EXCEPT !.pc = "index"]
<1>1. l.pc = "index" /\ l.demand = j.demand
  BY DEF Locals
<1> HIDE DEF l
<1>2. Goto("main", s, l) \/ \E built : Choose("main", s, j, built)
  BY DEF WithIndex, l
<1>3. CASE Goto("main", s, l)
  <2>1. run'["main"] = l /\ session' = s /\ window' = NoWindow /\ registry' = registry
    BY <1>3 DEF Goto, Typed, Runners
  <2>2. WarrantOf(l) = j.demand /\ window'.seen = None
    BY <1>1, <2>1 DEF WarrantOf, NoWindow
  <2> QED BY <1>1, <2>1, <2>2, MoveSettles
<1> QED BY <1>2, <1>3, ChooseSettles

\* The round is for the files that were found to have demand.
LEMMA RefreshedSettles ==
    ASSUME Typed, NEW s, Within(s), NEW j \in Locals, Refreshed("main", s, j)
    PROVE  Settles(s, j.still)
<1>1. CASE j.still = {}
  BY <1>1, StopSettles DEF Refreshed
<1>2. CASE j.still # {}
  <2> DEFINE next == [j EXCEPT !.demand = j.still, !.still = {}, !.late = FALSE, !.again = FALSE]
             l == [next EXCEPT !.pc = "markers"]
  <2>1. /\ next \in Locals /\ next.demand = j.still
        /\ l.pc = "markers" /\ l.demand = j.still
    BY DEF Locals
  <2>2. Goto("main", s, l) \/ WithIndex("main", s, next)
    BY <1>2 DEF Refreshed
  <2> HIDE DEF l, next
  <2>3. CASE Goto("main", s, l)
    <3>1. run'["main"] = l /\ session' = s /\ window' = NoWindow /\ registry' = registry
      BY <2>3 DEF Goto, Typed, Runners
    <3>2. WarrantOf(l) = j.still /\ window'.seen = None
      BY <2>1, <3>1 DEF WarrantOf, NoWindow
    <3> QED BY <1>2, <2>1, <3>1, <3>2, MoveSettles
  <2>4. CASE WithIndex("main", s, next)
    <3>1. Settles(s, next.demand)
      BY <1>2, <2>1, <2>4, WithIndexSettles
    <3> QED BY <2>1, <3>1
  <2> QED BY <2>2, <2>3, <2>4
<1> QED BY <1>1, <1>2

LEMMA NoAnswerSettles ==
    ASSUME Typed, NEW s, Within(s), NEW j \in Locals, NoAnswer("main", s, j)
    PROVE  Settles(s, j.still)
<1>1. CASE j.attempt = 1
  <2> DEFINE l == [j EXCEPT !.pc = "backoff", !.reply = "none"]
  <2>1. l.pc = "backoff" /\ l.still = j.still
    BY DEF Locals
  <2> HIDE DEF l
  <2>2. run'["main"] = l /\ session' = s /\ window' = NoWindow /\ registry' = registry
    BY <1>1 DEF NoAnswer, Goto, l, Typed, Runners
  <2>3. WarrantOf(l) = j.still /\ window'.seen = None
    BY <2>1, <2>2 DEF WarrantOf, NoWindow
  <2> QED BY <2>1, <2>2, <2>3, MoveSettles
<1>2. CASE j.attempt # 1
  BY <1>2, StopSettles DEF NoAnswer
<1> QED BY <1>1, <1>2

LEMMA AskSettles ==
    ASSUME Typed, NEW s, Within(s), NEW j \in Locals, Ask("main", s, j)
    PROVE  Settles(s, j.still)
<1> DEFINE asked == [s EXCEPT !.refreshes = @ + 1]
<1>1. CASE s.refreshes >= RefreshCap
  <2>1. "refresh-cap" \in Terminal
    BY DEF Terminal
  <2> QED BY <1>1, <2>1, StopAtLimitSettles DEF Ask
<1>2. CASE ~(s.refreshes >= RefreshCap)
  <2>1. s.refreshes \in Nat /\ RefreshCap \in Nat
    BY LimitsPositive DEF Within, SessionType
  <2>2. Within(asked) /\ asked.rounds = s.rounds
    BY <1>2, <2>1 DEF Within, SessionType
  <2>3. CASE available
    <3> DEFINE l == [j EXCEPT !.pc = "refresh", !.reply = "none"]
    <3>1. l.pc = "refresh" /\ l.still = j.still
      BY DEF Locals
    <3>2. run' = [run EXCEPT !["main"] = l] /\ session' = asked /\ registry' = registry
          /\ window' = [NoWindow EXCEPT !.file = j.file, !.open = TRUE]
      BY <1>2, <2>3 DEF Ask
    <3> HIDE DEF l, asked
    <3>3. run'["main"] = l /\ window'.seen = None
      BY <3>2 DEF Typed, Runners, NoWindow
    <3>4. WarrantOf(l) = j.still
      BY <3>1 DEF WarrantOf
    <3> QED BY <2>2, <3>1, <3>2, <3>3, <3>4, MoveSettles
  <2>4. CASE ~available
    <3>1. NoAnswer("main", asked, j)
      BY <1>2, <2>4 DEF Ask
    <3> HIDE DEF asked
    <3>2. Settles(asked, j.still)
      BY <2>2, <3>1, NoAnswerSettles
    <3> QED BY <2>2, <3>2 DEF Settles, UsesUp
  <2> QED BY <2>3, <2>4
<1> QED BY <1>1, <1>2

LEMMA RefreshSettles ==
    ASSUME Typed, NEW s, Within(s), NEW j \in Locals, Refresh("main", s, j)
    PROVE  Settles(s, j.still)
<1>1. CASE j.todo = {}
  BY <1>1, RefreshedSettles DEF Refresh
<1>2. CASE j.todo # {}
  <2>1. PICK f \in j.todo : Ask("main", s, [j EXCEPT !.todo = @ \ {f}, !.file = f, !.attempt = 1])
    BY <1>2 DEF Refresh
  <2> DEFINE l == [j EXCEPT !.todo = @ \ {f}, !.file = f, !.attempt = 1]
  <2>0. f \in Files
    BY DEF Locals
  <2>2. l \in Locals /\ l.still = j.still
    BY <2>0 DEF Locals, SomeFiles
  <2> HIDE DEF l
  <2>3. Ask("main", s, l)
    BY <2>1 DEF l
  <2>4. Settles(s, l.still)
    BY <2>2, <2>3, AskSettles
  <2> QED BY <2>2, <2>4
<1> QED BY <1>1, <1>2

LEMMA IdleWaitSettles ==
    ASSUME RoundsInv, NEW files \in SUBSET Files, IdleWaitEnds("main", files)
    PROVE  Settles(session, {})
<1>1. run["main"] \in Locals /\ Within(session) /\ Typed /\ "main" \in Runners
  BY DEF RoundsInv, Typed, LimitInv, Runners
<1>2. CASE Probe("main", session, run["main"], files)
  <2>1. PICK todo \in SUBSET files :
          Refresh("main", session, [run["main"] EXCEPT !.todo = todo, !.still = {}])
    BY <1>2 DEF Probe, FirstOf
  <2> DEFINE l == [run["main"] EXCEPT !.todo = todo, !.still = {}]
  <2>2. l \in Locals /\ l.still = {}
    BY <1>1 DEF Locals
  <2> HIDE DEF l
  <2>3. Refresh("main", session, l)
    BY <2>1 DEF l
  <2>4. Settles(session, l.still)
    BY <1>1, <2>2, <2>3, RefreshSettles
  <2> QED BY <2>2, <2>4
<1>3. CASE \E limit \in LimitReasons(session) :
              IF limit = "none" THEN Stop("main", session, "jdtls-busy")
              ELSE StopAtLimit("main", session, limit)
  BY <1>1, <1>3, LimitReasonsSound, StopSettles, StopAtLimitSettles
<1> QED BY <1>2, <1>3 DEF IdleWaitEnds

\* An answer of demand is one the controller accepts, and the other way round.
LEMMA AnswerIsAccepted ==
    ASSUME RoundsInv, run["main"].pc = "refresh"
    PROVE  /\ Accepts("main") /\ window.seen.demand => Answer = run["main"].file
           /\ ~(Accepts("main") /\ window.seen.demand) => Answer = None
<1>1. Accepts("main") => window.seen.current
  BY DEF RoundsInv, VerdictInv, Accepts
<1> QED BY <1>1 DEF Answer, Accepts

\* From every await, the task is left with the files that are warranted, or with none, or
\* has imported for them.
LEMMA AwaitsSettle ==
    ASSUME RoundsInv, DemandInv, Awaits("main")
    PROVE  Settles(session, Contract!Warranted) /\ Made = session.rounds
<1> DEFINE l == run["main"]
<1>0. "main" \in Runners
  BY DEF Runners
<1>1. l \in Locals /\ Within(session) /\ Typed /\ Placed(l) /\ session.rounds \in Nat
  BY <1>0 DEF RoundsInv, Typed, LimitInv, Within, SessionType
<1>2. l.pc # "refresh" => Contract!Warranted = Warrant
  BY DEF Contract!Warranted, Answer
<1>3. l.pc # "sending" => Made = session.rounds
  BY <1>1 DEF Made
<1>4. CASE ProbeIdleEnds("main")
  <2>1. l.pc = "idle"
    BY <1>4 DEF ProbeIdleEnds, Resumes
  <2>2. {f \in open \cap latest : ModuleOf[f] \in l.new} \in SUBSET Files
    BY <1>1 DEF Typed
  <2>3. Settles(session, {})
    BY <1>4, <2>2, IdleWaitSettles DEF ProbeIdleEnds
  <2>4. Warrant = {}
    BY <2>1 DEF Warrant, WarrantOf
  <2> QED BY <1>2, <1>3, <2>1, <2>3, <2>4
<1>5. CASE BuildIdleEnds("main")
  <2>1. l.pc = "build"
    BY <1>5 DEF BuildIdleEnds, Resumes
  <2>2. l.demand \cap open \in SUBSET Files
    BY <1>1 DEF Typed, Locals
  <2>3. Settles(session, {})
    BY <1>5, <2>2, IdleWaitSettles DEF BuildIdleEnds
  <2>4. Warrant = {}
    BY <2>1 DEF Warrant, WarrantOf
  <2> QED BY <1>2, <1>3, <2>1, <2>3, <2>4
<1>6. CASE RefreshEnds("main")
  <2> DEFINE j == [l EXCEPT !.reply = "none"]
             k == [j EXCEPT !.still = @ \cup {l.file}]
  <2>1. l.pc = "refresh" /\ l.file \in Files
    BY <1>1, <1>6 DEF RefreshEnds, Resumes, Placed
  <2>2. Warrant = l.still
    BY <2>1 DEF Warrant, WarrantOf
  <2>3. j \in Locals /\ j.still = l.still
    BY <1>1 DEF Locals
  <2>4. k \in Locals /\ k.still = l.still \cup {l.file}
    BY <2>1, <2>3 DEF Locals
  <2>5. CASE Accepts("main") /\ window.seen.demand
    <3>1. Refresh("main", session, k)
      BY <1>6, <2>5 DEF RefreshEnds
    <3>2. Contract!Warranted = l.still \cup {l.file}
      BY <2>1, <2>2, <2>5, AnswerIsAccepted, NoneOutside DEF Contract!Warranted
    <3> HIDE DEF k, j, l
    <3>3. Settles(session, k.still)
      BY <1>1, <2>4, <3>1, RefreshSettles
    <3>4. Settles(session, Contract!Warranted)
      BY <2>4, <3>2, <3>3
    <3> QED BY <1>3, <2>1, <3>4
  <2>6. CASE ~(Accepts("main") /\ window.seen.demand)
    <3>1. Refresh("main", session, j) \/ NoAnswer("main", session, j)
      BY <1>6, <2>6 DEF RefreshEnds
    <3>2. Contract!Warranted = l.still
      BY <2>1, <2>2, <2>6, AnswerIsAccepted DEF Contract!Warranted
    <3> HIDE DEF j, l
    <3>3. Settles(session, j.still)
      BY <1>1, <2>3, <3>1, RefreshSettles, NoAnswerSettles
    <3>4. Settles(session, Contract!Warranted)
      BY <2>3, <3>2, <3>3
    <3> QED BY <1>3, <2>1, <3>4
  <2> QED BY <2>5, <2>6
<1>7. CASE BackoffEnds("main")
  <2> DEFINE j == [l EXCEPT !.attempt = @ + 1]
  <2>1. l.pc = "backoff" /\ Ask("main", session, j)
    BY <1>7 DEF BackoffEnds, Resumes
  <2>2. j \in Locals /\ j.still = l.still
    <3>1. l.attempt = 1
      BY <1>1, <2>1 DEF Placed
    <3>2. j = [l EXCEPT !.attempt = 2]
      BY <3>1
    <3> QED BY <1>1, <3>2 DEF Locals
  <2>3. Warrant = l.still
    BY <2>1 DEF Warrant, WarrantOf
  <2> HIDE DEF j
  <2>4. Settles(session, j.still)
    BY <1>1, <2>1, <2>2, AskSettles
  <2> QED BY <1>2, <1>3, <2>1, <2>2, <2>3, <2>4
<1>8. CASE MarkersEnd("main")
  <2> DEFINE j == [l EXCEPT !.late = l.awaited # {}]
  <2>1. l.pc = "markers" /\ WithIndex("main", session, j)
    BY <1>8 DEF MarkersEnd, Resumes
  <2>2. j \in Locals /\ j.demand = l.demand /\ l.demand # {}
    BY <1>1, <2>1 DEF Locals, DemandInv
  <2>3. Warrant = l.demand
    BY <2>1 DEF Warrant, WarrantOf
  <2> HIDE DEF j
  <2>4. Settles(session, j.demand)
    BY <1>1, <2>1, <2>2, WithIndexSettles
  <2> QED BY <1>2, <1>3, <2>1, <2>2, <2>3, <2>4
<1>9. CASE IndexBuilt("main") \/ QuietEnds("main")
  <2>1. l.pc \in {"index", "quiet"} /\ \E built : Choose("main", session, l, built)
    BY <1>9 DEF IndexBuilt, QuietEnds, Resumes
  <2>2. Warrant = l.demand /\ l.demand # {}
    BY <2>1 DEF Warrant, WarrantOf, DemandInv
  <2>3. Settles(session, l.demand)
    BY <1>1, <2>1, <2>2, ChooseSettles
  <2> QED BY <1>2, <1>3, <2>1, <2>2, <2>3
<1> QED BY <1>4, <1>5, <1>6, <1>7, <1>8, <1>9 DEF Awaits

Allowed == (Contract!Next \/ UNCHANGED Contract!contractVars) /\ DemandInv'

\* Where the task stays where it is, all that may change is the answer it waits for.
LEMMA AnswerMoves ==
    ASSUME RoundsInv, DemandInv, Warrant' = Warrant, Made' = Made,
           (registry \cup retired)' = registry \cup retired,
           run'["main"].pc = run["main"].pc, run'["main"].file = run["main"].file,
           run'["main"].demand = run["main"].demand
    PROVE  Allowed
<1>1. DemandInv'
  BY DEF DemandInv
<1>2. Answer \in {None, run["main"].file} /\ Answer' \in {None, run["main"].file}
      /\ (Answer' # None => Answer' \in Files)
  <2>1. run["main"].pc = "refresh" => run["main"].file \in Files
    BY DEF RoundsInv, Typed, Placed, Runners
  <2> QED BY <2>1 DEF Answer
<1>3. CASE Answer' = Answer
  BY <1>1, <1>3 DEF Allowed, Contract!contractVars
<1>4. CASE Answer = None /\ Answer' \in Files
  <2>1. Contract!Answers
    BY <1>4 DEF Contract!Answers
  <2> QED BY <1>1, <2>1 DEF Allowed, Contract!Next
<1>5. CASE Answer' = None
  <2>1. Contract!Withdraws
    BY <1>5 DEF Contract!Withdraws
  <2> QED BY <1>1, <2>1 DEF Allowed, Contract!Next
<1> QED BY <1>2, <1>3, <1>4, <1>5

\* A task that runs on gives up its answers, keeps them, or imports for them.
LEMMA MainAllowed ==
    ASSUME RoundsInv, RoundsInv', DemandInv, Awaits("main")
    PROVE  Allowed
<1> DEFINE W == Contract!Warranted
<1>1. Settles(session, W) /\ Made = session.rounds
  BY AwaitsSettle
<1>2. retired' = retired
  <2>1. UNCHANGED outside
    BY AwaitResult DEF Runners
  <2> QED BY <2>1 DEF outside
<1>3. DemandInv' /\ Answer' = None
  BY <1>1 DEF Settles, Answer
<1>4. CASE Warrant' \in {W, {}} /\ registry' = registry /\ Made' = session.rounds
  <2>1. Contract!Counts \/ Contract!Drops
    BY <1>1, <1>2, <1>3, <1>4 DEF Contract!Counts, Contract!Drops
  <2> QED BY <1>3, <2>1 DEF Allowed, Contract!Next
<1>5. CASE UsesUp(session, W)
  <2>1. PICK batch \in SUBSET Modules :
          /\ batch # {} /\ batch \subseteq Frontier(W) /\ Cardinality(batch) <= PerRound
          /\ registry' = registry \cup batch
    BY <1>5 DEF UsesUp
  <2>2. batch \subseteq Contract!Needed(W)
    BY <2>1 DEF Frontier, Contract!Needed
  <2>3. (registry \cup retired)' = (registry \cup retired) \cup batch
    BY <1>2, <2>1
  <2>4. Cardinality((registry \cup retired) \cup batch) <= Budget
    <3>1. session'.used = Cardinality(registry' \cup retired') /\ session'.used <= Budget
      BY DEF RoundsInv, FolderInv, FoldersMatch, LimitInv, Within
    <3> QED BY <2>3, <3>1
  <2>5. /\ W # {} /\ Made < Rounds /\ Made' = Made + 1 /\ Warrant' = {}
    BY <1>1, <1>5 DEF UsesUp
  <2>6. Contract!Imports(batch)
    <3>1. Contract!Warranted # {} /\ batch # {} /\ batch \subseteq Contract!Needed(Contract!Warranted)
      BY <2>1, <2>2, <2>5
    <3>2. Made < Rounds /\ Cardinality(batch) <= PerRound
      BY <2>1, <2>5
    <3>3. Cardinality((registry \cup retired) \cup batch) <= Budget
      BY <2>4
    <3>4. (registry \cup retired)' = (registry \cup retired) \cup batch /\ Made' = Made + 1
      BY <2>3, <2>5
    <3>5. Warrant' = {} /\ Answer' = None
      BY <2>5, <1>3
    <3> QED BY <3>1, <3>2, <3>3, <3>4, <3>5, Zenon
            DEF Contract!Imports, Contract!Cardinality, Cardinality
  <2> QED BY <1>3, <2>1, <2>6 DEF Allowed, Contract!Next
<1> QED BY <1>1, <1>4, <1>5 DEF Settles

\* A task without jdtls imports nothing, and leaves the other one's answers.
LEMMA OrphanAllowed ==
    ASSUME RoundsInv, DemandInv, Awaits("orphan")
    PROVE  Allowed
<1>1. /\ Result("orphan", session) /\ UNCHANGED outside /\ Subdued("orphan")
      /\ run \in [Runners -> Locals]
  BY AwaitResult DEF Runners, RoundsInv, Typed
<1>2. run'["main"] = run["main"] /\ session'.rounds = session.rounds
  BY <1>1 DEF Result, Runners
<1>3. registry' = registry /\ retired' = retired
  BY <1>1 DEF Subdued, outside
<1>4. Warrant' = Warrant /\ Made' = Made
  BY <1>2 DEF Warrant, WarrantOf, Made
<1> QED BY <1>2, <1>3, <1>4, AnswerMoves

LEMMA StartsAllowed ==
    ASSUME RoundsInv, DemandInv, NEW r \in Runners, Starts(r)
    PROVE  Allowed
<1>1. run \in [Runners -> Locals] /\ r = "main" /\ run[r].pc = "start"
  BY DEF Starts, Resumes, RoundsInv, Typed, LimitInv, OrphanIsDone, Runners
<1>2. UNCHANGED <<registry, session, window, retired>> /\ NextPhase(r, session)
  BY DEF Starts, Resumes, outside
<1>3. run'["main"].pc \in {"none", "idle"}
  <2>1. CASE pending = <<>> \/ session.terminal # "none"
    <3>1. run' = [run EXCEPT ![r] = Idle] /\ Idle.pc = "none"
      BY <1>2, <2>1 DEF NextPhase, Idle
    <3> QED BY <1>1, <3>1
  <2>2. CASE ~(pending = <<>> \/ session.terminal # "none")
    <3> DEFINE new == TakePhase(pending)
               j == [Idle EXCEPT !.pc = "idle", !.new = new, !.awaited = new \ published]
    <3>1. j.pc = "idle"
      BY DEF Idle
    <3>2. run' = [run EXCEPT ![r] = j]
      BY <1>2, <2>2 DEF NextPhase
    <3> HIDE DEF j
    <3> QED BY <1>1, <3>1, <3>2
  <2> QED BY <2>1, <2>2
<1>4. Warrant = {} /\ Warrant' = {} /\ Answer = None /\ Answer' = None /\ DemandInv'
  BY <1>1, <1>3 DEF Warrant, WarrantOf, Answer, DemandInv
<1>5. Made' = Made
  BY <1>1, <1>2, <1>3 DEF Made
<1> QED BY <1>2, <1>4, <1>5 DEF Allowed, Contract!contractVars

\* The round has counted from its import on.
LEMMA ImportSentAllowed ==
    ASSUME RoundsInv, DemandInv, NEW r \in Runners, ImportSent(r)
    PROVE  Allowed
<1>1. /\ run \in [Runners -> Locals] /\ r = "main" /\ run[r].pc = "sending"
      /\ session \in SessionType
  BY DEF ImportSent, Resumes, RoundsInv, Typed, LimitInv, OrphanIsDone, Runners
<1>2. /\ session' = [session EXCEPT !.rounds = @ + 1, !.importing = TRUE]
      /\ run' = [run EXCEPT ![r] = [run[r] EXCEPT !.pc = "build"]]
      /\ UNCHANGED <<registry, retired>>
  BY DEF ImportSent, Goto, Resumes, outside
<1>3. run'["main"].pc = "build"
  BY <1>1, <1>2 DEF Locals
<1>4. Warrant = {} /\ Warrant' = {} /\ Answer = None /\ Answer' = None /\ DemandInv'
  BY <1>1, <1>3 DEF Warrant, WarrantOf, Answer, DemandInv
<1>5. Made' = Made
  <2>1. session'.rounds = session.rounds + 1 /\ session.rounds \in Nat
    BY <1>1, <1>2 DEF SessionType
  <2> QED BY <1>1, <1>3, <2>1 DEF Made
<1> QED BY <1>2, <1>4, <1>5 DEF Allowed, Contract!contractVars

\* What arms a module while the task waits changes neither the task nor its window.
LEMMA PublishesAllowed ==
    ASSUME RoundsInv, DemandInv, NEW f, NEW demand, NotePublish(f, demand),
           UNCHANGED <<registry, retired, session>>
    PROVE  Allowed
<1>1. CASE run'["main"] = run["main"]
  <2>1. Warrant' = Warrant /\ Made' = Made
    BY <1>1 DEF Warrant, Made
  <2> QED BY <1>1, <2>1, AnswerMoves
<1>2. CASE run'["main"] # run["main"]
  <2>1. run["main"].pc = "none" /\ run' = [run EXCEPT !["main"] = [Idle EXCEPT !.pc = "start"]]
    BY <1>2 DEF NotePublish
  <2> DEFINE j == [Idle EXCEPT !.pc = "start"]
  <2>2. j.pc = "start"
    BY DEF Idle
  <2> HIDE DEF j
  <2>3. run' = [run EXCEPT !["main"] = j]
    BY <2>1 DEF j
  <2>4. run'["main"].pc = "start"
    BY <2>2, <2>3 DEF RoundsInv, Typed, Runners
  <2>5. Warrant = {} /\ Warrant' = {} /\ Answer = None /\ Answer' = None /\ DemandInv'
    BY <2>1, <2>4 DEF Warrant, WarrantOf, Answer, DemandInv
  <2>6. Made' = Made
    BY <2>1, <2>4 DEF Made
  <2> QED BY <2>5, <2>6 DEF Allowed, Contract!contractVars
<1> QED BY <1>1, <1>2

LEMMA MarkStoppedAllowed ==
    ASSUME RoundsInv, DemandInv, MarkStopped
    PROVE  Allowed
<1>1. CASE Reset
  <2>1. /\ run'["main"] = Idle /\ registry' = {} /\ retired' = {} /\ session' = NewSession
        /\ window' = NoWindow
    BY <1>1 DEF Reset
  <2>2. Idle.pc = "none"
    BY DEF Idle
  <2>3. Warrant' = {} /\ Answer' = None /\ DemandInv'
    BY <2>1, <2>2 DEF Warrant, WarrantOf, Answer, DemandInv
  <2>4. Made' = 0
    BY <2>1, <2>2 DEF Made, NewSession
  <2>5. Contract!Ends
    BY <2>1, <2>3, <2>4 DEF Contract!Ends
  <2> QED BY <2>3, <2>5 DEF Allowed, Contract!Next
<1>2. CASE ~(available \/ cached)
  <2>1. UNCHANGED <<run, registry, retired, session, window>>
    BY <1>2 DEF MarkStopped
  <2>2. Warrant' = Warrant /\ Made' = Made
    BY <2>1 DEF Warrant, Made
  <2> QED BY <2>1, <2>2, AnswerMoves
<1> QED BY <1>1, <1>2 DEF MarkStopped

LEMMA StepAllowed ==
    RoundsInv /\ RoundsInv' /\ DemandInv /\ [Next]_vars => Allowed
<1> SUFFICES ASSUME RoundsInv, RoundsInv', DemandInv, [Next]_vars PROVE Allowed
  OBVIOUS
<1>0. run \in [Runners -> Locals] /\ run["main"] \in Locals /\ "main" \in Runners
  BY DEF RoundsInv, Typed, Runners
<1>1. ASSUME NEW r \in Runners, TaskRuns(r) PROVE Allowed
  <2>1. r = "main" \/ r = "orphan"
    BY DEF Runners
  <2> QED BY <1>1, <2>1, StartsAllowed, ImportSentAllowed, MainAllowed, OrphanAllowed
          DEF TaskRuns, Awaits
<1>2. ASSUME run'["main"] = run["main"], UNCHANGED session,
             (registry \cup retired)' = registry \cup retired
      PROVE  Allowed
  <2>1. Warrant' = Warrant /\ Made' = Made
    BY <1>2 DEF Warrant, Made
  <2> QED BY <1>2, <2>1, AnswerMoves
<1>3. CASE RefreshPublishes \/ \E f \in Files : Publishes(f)
  BY <1>3, PublishesAllowed DEF RefreshPublishes, Publishes, process
<1>4. CASE RefreshReplies \/ RefreshTimesOut
  <2>1. PICK reply \in {"yes", "no"} : run' = [run EXCEPT !["main"].reply = reply]
    BY <1>4 DEF RefreshReplies, RefreshTimesOut
  <2>2. UNCHANGED <<session, registry, retired>>
    BY <1>4 DEF RefreshReplies, RefreshTimesOut, outside
  <2>3. /\ run'["main"].pc = run["main"].pc /\ run'["main"].file = run["main"].file
        /\ run'["main"].demand = run["main"].demand /\ run'["main"].still = run["main"].still
    BY <1>0, <2>1 DEF Locals
  <2>4. Warrant' = Warrant /\ Made' = Made
    BY <2>2, <2>3 DEF Warrant, WarrantOf, Made
  <2> QED BY <2>2, <2>3, <2>4, AnswerMoves
<1>5. CASE \E m \in Modules : PomPublishes(m)
  <2>1. PICK m \in Modules : run' = [q \in Runners |-> [run[q] EXCEPT !.awaited = @ \ {m}]]
    BY <1>5 DEF PomPublishes
  <2>2. UNCHANGED <<session, registry, retired>>
    BY <1>5 DEF PomPublishes, process
  <2>3. /\ run'["main"].pc = run["main"].pc /\ run'["main"].file = run["main"].file
        /\ run'["main"].demand = run["main"].demand /\ run'["main"].still = run["main"].still
    <3> DEFINE awaited == run["main"].awaited \ {m}
    <3>1. run'["main"] = [run["main"] EXCEPT !.awaited = awaited]
      BY <1>0, <2>1
    <3> HIDE DEF awaited
    <3> QED BY <1>0, <3>1 DEF Locals
  <2>4. Warrant' = Warrant /\ Made' = Made
    BY <2>2, <2>3 DEF Warrant, WarrantOf, Made
  <2> QED BY <2>2, <2>3, <2>4, AnswerMoves
<1>6. CASE \E f \in Files : DidOpen(f) \/ DidChange(f) \/ DidClose(f)
  BY <1>2, <1>6 DEF DidOpen, DidChange, DidClose, controller, process
<1>7. CASE \E g \in Groups : ExpandGroup(g)
  <2>1. PICK g \in Groups : /\ registry' = registry \ TakenBy(g)
                            /\ retired' = retired \cup TakenBy(g)
                            /\ UNCHANGED <<run, session>>
    BY <1>7 DEF ExpandGroup
  <2>2. (registry \cup retired)' = registry \cup retired
    BY <2>1 DEF TakenBy
  <2> QED BY <1>2, <2>1, <2>2
<1>8. CASE JdtlsStops \/ JdtlsExits
  BY <1>8, MarkStoppedAllowed DEF JdtlsStops, JdtlsExits
<1>9. CASE SendFails \/ UNCHANGED vars
  BY <1>2, <1>9 DEF SendFails, controller, vars, outside
<1> QED BY <1>1, <1>3, <1>4, <1>5, <1>6, <1>7, <1>8, <1>9 DEF Next

\* A step of the contract imports only what its files, or the modules imported, need.
LEMMA NeededStep ==
    ASSUME Contract!OnlyNeededImported, Warrant \subseteq Files, Answer \in Files \cup {None},
           [Contract!Next]_(Contract!contractVars)
    PROVE  Contract!OnlyNeededImported'
<1> DEFINE had == registry \cup retired
<1> SUFFICES ASSUME NEW closed \in SUBSET Modules,
                    \A f \in Files : Deps[ModuleOf[f]] \subseteq closed,
                    \A m \in closed : Deps[m] \subseteq closed
             PROVE  had' \subseteq closed
  BY DEF Contract!OnlyNeededImported
<1>1. had \subseteq closed
  BY DEF Contract!OnlyNeededImported
<1>2. CASE \E batch \in SUBSET Modules : Contract!Imports(batch)
  <2>1. PICK batch \in SUBSET Modules : Contract!Imports(batch)
    BY <1>2
  <2>2. had' = had \cup batch /\ batch \subseteq Contract!Needed(Contract!Warranted)
    BY <2>1 DEF Contract!Imports
  <2>3. Contract!Warranted \subseteq Files
    BY DEF Contract!Warranted
  <2>4. ASSUME NEW x \in batch PROVE x \in closed
    <3>1. PICK m \in {ModuleOf[f] : f \in Contract!Warranted} \cup had : x \in Deps[m]
      BY <2>2 DEF Contract!Needed
    <3> QED BY <1>1, <2>3, <3>1
  <2> QED BY <1>1, <2>2, <2>4
<1>3. CASE Contract!Ends
  BY <1>3 DEF Contract!Ends
<1>4. CASE had' = had
  BY <1>1, <1>4
<1> QED BY <1>2, <1>3, <1>4 DEF Contract!Next, Contract!contractVars, Contract!Answers,
           Contract!Withdraws, Contract!Counts, Contract!Drops

LEMMA DemandAlways == Spec => []DemandInv
<1>1. Init => DemandInv
  BY DEF Init, DemandInv, Idle, Runners
<1>2. RoundsInv /\ RoundsInv' /\ DemandInv /\ [Next]_vars => DemandInv'
  BY StepAllowed DEF Allowed
<1> QED BY <1>1, <1>2, RoundsAlways, PTL DEF Spec

----------------------------------------------------------------------------
(* The theorems.                                                           *)

\* No session makes more rounds, sends more refreshes or imports more modules than its
\* limits allow, over all its phases, re-arms and retries (LimitsHold).
THEOREM SessionsKeepTheirLimits == Spec => []LimitsHold
<1>1. RoundsInv => LimitsHold
  BY DEF RoundsInv, LimitInv, Within, LimitsHold
<1> QED BY <1>1, RoundsAlways, PTL

\* Whatever arms a module, and whichever task ends, a queued module has a runner
\* (PendingHasRunner).
THEOREM QueuedModulesHaveARunner == Spec => []PendingHasRunner
<1>1. RoundsInv => PendingHasRunner
  BY DEF RoundsInv
<1> QED BY <1>1, RoundsAlways, PTL

\* Every variable keeps its type (TypeOK).
THEOREM RoundsTypeCorrect == Spec => []TypeOK
BY TypesFollow, RoundsAlways, RestAlways, PTL

\* A module that was armed waits for a phase, is in one, or a phase of this session has
\* dealt with it (ArmedIsServed).
THEOREM ArmedModulesAreServed == Spec => []ArmedIsServed
<1>1. RoundsInv => ArmedIsServed
  BY DEF RoundsInv, Typed, QueueInv
<1> QED BY <1>1, RoundsAlways, PTL

\* The verdict that a refresh accepts was computed after the last import, whatever was
\* published meanwhile (VerdictIsCurrent).
THEOREM VerdictsAreCurrent == Spec => []VerdictIsCurrent
<1>1. RoundsInv => VerdictIsCurrent
  BY DEF RoundsInv, VerdictInv, VerdictIsCurrent, Accepts
<1> QED BY <1>1, RoundsAlways, PTL

\* What the budget counts is what was imported, and jdtls has a folder for just the
\* modules that no group covers (FoldersMatch).
THEOREM FoldersMatchTheRegistry == Spec => []FoldersMatch
<1>1. RoundsInv => FoldersMatch
  BY DEF RoundsInv, FolderInv
<1> QED BY <1>1, RoundsAlways, PTL

\* Every step of a phase takes something from what is left of it: a phase ends within
\* 10 * RefreshCap + 9 steps of its task, whatever happens meanwhile (PhaseAdvances).
THEOREM PhasesAdvance == Spec => PhaseAdvances
<1>1. RoundsInv /\ RoundsInv' /\ [Next]_vars => [\A r \in Runners : Advances(r)]_vars
  BY PhaseAdvancesStep
<1> QED BY <1>1, RoundsAlways, PTL DEF Spec, PhaseAdvances

\* The controller implements its contract, for any files, dependency graph and limits and
\* whatever is published, edited, closed, expanded or reset meanwhile: it imports only for
\* files that jdtls has re-validated since the last import and still reported errors of
\* for their text as it was then (KeepsImportContract).
THEOREM ControllerKeepsContract == Spec => KeepsImportContract
<1>1. Init => Contract!Init
  <2> SUFFICES ASSUME Init PROVE Contract!Init
    OBVIOUS
  <2>1. /\ run["main"] = Idle /\ session = NewSession /\ registry = {} /\ retired = {}
        /\ Idle.pc = "none"
    BY DEF Init, Runners, Idle
  <2>2. Warrant = {} /\ Answer = None
    BY <2>1 DEF Warrant, WarrantOf, Answer
  <2>3. Made = 0
    BY <2>1 DEF Made, NewSession
  <2> QED BY <2>1, <2>2, <2>3 DEF Contract!Init
<1>2. RoundsInv /\ RoundsInv' /\ DemandInv /\ [Next]_vars
        => [Contract!Next]_(Contract!contractVars)
  BY StepAllowed DEF Allowed
<1> QED BY <1>1, <1>2, RoundsAlways, DemandAlways, PTL
       DEF Spec, KeepsImportContract, Contract!Spec

\* Only modules that the module of some file needs, directly or through others, are ever
\* imported: it follows from the contract.
THEOREM OnlyNeededModulesImported == Spec => []Contract!OnlyNeededImported
<1>1. Init => Contract!OnlyNeededImported
  BY DEF Init, Contract!OnlyNeededImported
<1>2. RoundsInv => Warrant \subseteq Files /\ Answer \in Files \cup {None}
  <2> SUFFICES ASSUME RoundsInv PROVE Warrant \subseteq Files /\ Answer \in Files \cup {None}
    OBVIOUS
  <2>1. run["main"] \in Locals
    BY DEF RoundsInv, Typed, Runners
  <2> QED BY <2>1 DEF Locals, SomeFiles, Warrant, WarrantOf, Answer
<1>3. RoundsInv /\ RoundsInv' /\ DemandInv /\ Contract!OnlyNeededImported /\ [Next]_vars
        => Contract!OnlyNeededImported'
  BY <1>2, StepAllowed, NeededStep DEF Allowed
<1> QED BY <1>1, <1>3, RoundsAlways, DemandAlways, PTL DEF Spec
=============================================================================
