--------------------------- MODULE ShutdownProofs ---------------------------
(***************************************************************************)
(* What the end of the server keeps for every choice of the timeouts: the  *)
(* lock lets one stop() at a time past it, so a signal comes after the     *)
(* grace of the last `exit`; and the client's `exit` has a budget that     *)
(* every wait of its stop() draws on.                                      *)
(***************************************************************************)
EXTENDS Shutdown, TLAPS

LEMMA Times ==
    /\ StopGrace \in Nat /\ ExitGrace \in Nat /\ StopTimeout \in Nat /\ Watchdog \in Nat
    /\ StopGrace > 0 /\ ExitGrace > 0 /\ StopTimeout > 0 /\ Watchdog > 0
    /\ ExitLimit \in Nat
BY TimesPositive DEF ExitLimit

\* The stop of the client's `exit` as long as the server is up: what it may still wait
\* for, at most, is left of ExitLimit.
ExitBudget ==
    exitAge # Unset /\ server = "up" =>
        /\ pc["exit"] \in {"waiting", "request"} => bound["exit"] # Unset
        /\ pc["exit"] # "idle"
        /\ bound["exit"] # Unset => exitAge + bound["exit"] <= StopTimeout
        /\ bound["exit"] = Unset =>
            /\ pc["exit"] = "grace" => exitAge + phase["exit"] + 2 * StopGrace <= ExitLimit
            /\ pc["exit"] = "term" => exitAge + phase["exit"] + StopGrace <= ExitLimit
            /\ pc["exit"] = "kill" => exitAge + phase["exit"] <= ExitLimit
            /\ pc["exit"] \in Returned => exitAge <= ExitLimit

\* One stop() at a time is past the lock, and its grace counts from the last `exit`.
GraceInv ==
    /\ \A c, d \in Callers : pc[c] \in Locked /\ pc[d] \in Locked => c = d
    /\ \A c \in Callers : pc[c] = "grace" => asked # Unset /\ asked + phase[c] >= ExitGrace
    /\ \A c \in Callers : pc[c] = "term" => asked >= ExitGrace

\* The JVM is gone, or has outlived SIGKILL for the whole grace.
Beyond == jvm # "alive" \/ killed >= StopGrace

\* The wait after SIGKILL runs out only when the signal is as old as the grace, so the
\* stop() of a failed start returns when all was done about its JVM.
WipeInv ==
    /\ \A c \in Callers : pc[c] = "kill" => killed # Unset /\ killed + phase[c] >= StopGrace
    /\ start = "stopping" /\ pc["start"] = "done" => Beyond
    /\ start = "wiped" => Beyond

LEMMA TypeInit == Init => TypeOK
<1>1. 0 \in 0..StopGrace
  BY Times
<1> QED BY <1>1 DEF Init, TypeOK, Callers, Unset

LEMMA CompletesTyped ==
    ASSUME TypeOK, NEW c \in Callers, Completes(c)
    PROVE  /\ pc' \in [Callers -> {"idle", "waiting"} \cup Locked \cup Returned]
           /\ bound' \in [Callers -> 0..StopTimeout \cup {Unset}]
           /\ phase' \in [Callers -> 0..ExitGrace \cup 0..StopGrace]
           /\ start' \in {"idle", "executor", "spawning", "initializing", "ready", "stopping",
                          "wiped", "failed"}
<1>1. 0 \in 0..ExitGrace
  BY Times
<1> QED BY <1>1 DEF Completes, TypeOK, Locked, Returned, Callers

LEMMA TypeStep == TypeOK /\ [Next]_vars => TypeOK'
<1> SUFFICES ASSUME TypeOK, [Next]_vars PROVE TypeOK'
  OBVIOUS
<1>1. 0 \in 0..ExitGrace /\ ExitGrace \in 0..ExitGrace /\ StopGrace \in 0..StopGrace
      /\ StopTimeout \in 0..StopTimeout /\ Watchdog \in 0..Watchdog /\ 0 \in 0..ExitLimit + 1
  BY Times
<1>2. CASE StartBegins \/ JvmSpawns \/ InitializeSent \/ StartWipes
  BY <1>2 DEF StartBegins, JvmSpawns, InitializeSent, StartWipes, stopVars, signalVars, clientVars, TypeOK
<1>3. CASE InitializeEnds \/ OnShutdown \/ OnExit \/ OnSignal
  <2>1. CASE InitializeEnds
    BY <1>1, <2>1 DEF InitializeEnds, Calls, signalVars, clientVars, TypeOK, Callers
  <2>2. CASE OnShutdown
    BY <1>1, <2>2 DEF OnShutdown, Calls, signalVars, clientVars, TypeOK, Callers
  <2>3. CASE OnExit
    BY <1>1, <2>3 DEF OnExit, Calls, signalVars, TypeOK, Callers
  <2>4. CASE OnSignal
    BY <1>1, <2>4 DEF OnSignal, Calls, signalVars, TypeOK, Callers
  <2> QED BY <1>3, <2>1, <2>2, <2>3, <2>4
<1>4. CASE HardExit \/ WatchdogExit \/ JvmExits
  BY <1>4 DEF HardExit, WatchdogExit, JvmExits, stopVars, signalVars, clientVars, TypeOK
<1>5. ASSUME NEW c \in Callers, StopBegins(c) PROVE TypeOK'
  BY <1>1, <1>5, CompletesTyped DEF StopBegins, At, signalVars, clientVars, TypeOK, Locked
<1>6. ASSUME NEW c \in Callers, ShutdownAnswered(c) \/ StopTimesOut(c) PROVE TypeOK'
  <2>1. CASE ShutdownAnswered(c)
    BY <1>1, <2>1 DEF ShutdownAnswered, At, GraceOf, signalVars, TypeOK, Locked
  <2>2. CASE StopTimesOut(c)
    BY <1>1, <2>2 DEF StopTimesOut, At, GraceOf, signalVars, clientVars, TypeOK, Locked, Returned
  <2> QED BY <1>6, <2>1, <2>2
<1>7. ASSUME NEW c \in Callers, WaitEnds(c) PROVE TypeOK'
  <2>1. CASE Completes(c) /\ UNCHANGED signalVars
    BY <1>7, <2>1, CompletesTyped DEF WaitEnds, signalVars, clientVars, TypeOK
  <2>2. CASE Escalates(c)
    <3>1. 0 \in 0..StopGrace
      BY Times
    <3>2. killed' \in 0..StopGrace \cup {Unset} /\ signalled' \subseteq {"TERM", "KILL"}
      BY <2>2, <3>1 DEF Escalates, TypeOK
    <3> QED BY <1>1, <1>7, <2>2, <3>2 DEF WaitEnds, Escalates, At, clientVars, TypeOK, Locked
  <2> QED BY <1>7, <2>1, <2>2 DEF WaitEnds, GivesUp
<1>8. CASE Tick
  <2>1. \A t \in 0..StopTimeout \cup {Unset} : Left(t) \in 0..StopTimeout \cup {Unset}
    BY Times DEF Left, Unset
  <2>2. \A t \in 0..ExitGrace \cup 0..StopGrace : Left(t) \in 0..ExitGrace \cup 0..StopGrace
    BY Times DEF Left
  <2>3. \A t \in 0..Watchdog \cup {Unset} : Left(t) \in 0..Watchdog \cup {Unset}
    BY Times DEF Left, Unset
  <2>4. \A t \in 0..ExitGrace \cup {Unset} : Age(t, ExitGrace) \in 0..ExitGrace \cup {Unset}
    BY Times DEF Age, Unset
  <2>5. \A t \in 0..ExitLimit + 1 \cup {Unset} :
            Age(t, ExitLimit + 1) \in 0..ExitLimit + 1 \cup {Unset}
    BY Times DEF Age, Unset
  <2>6. \A t \in 0..StopGrace \cup {Unset} : Age(t, StopGrace) \in 0..StopGrace \cup {Unset}
    BY Times DEF Age, Unset
  <2> QED BY <1>8, <2>1, <2>2, <2>3, <2>4, <2>5, <2>6 DEF Tick, TypeOK
<1>9. CASE UNCHANGED vars
  BY <1>9 DEF vars, TypeOK
<1> QED BY <1>2, <1>3, <1>4, <1>5, <1>6, <1>7, <1>8, <1>9 DEF Next

----------------------------------------------------------------------------
(* One stop() at a time, and the grace.                                    *)

\* stop() returns: of its caller nothing is past the lock, others at most queue.
LEMMA CompletesLeavesLock ==
    ASSUME TypeOK, NEW c \in Callers, Completes(c), NEW d \in Callers, pc'[d] \in Locked
    PROVE  pc[d] = pc'[d] /\ phase'[d] = phase[d] /\ d # c
BY DEF Completes, TypeOK, Locked, Callers

LEMMA GraceInit == Init => GraceInv
BY DEF Init, GraceInv, Locked

LEMMA GraceStep == TypeOK /\ GraceInv /\ [Next]_vars => GraceInv'
<1> SUFFICES ASSUME TypeOK, GraceInv, [Next]_vars PROVE GraceInv'
  OBVIOUS
<1> DEFINE Same(d) == pc'[d] = pc[d] /\ phase'[d] = phase[d]
<1>1. ASSUME \A d \in Callers : pc'[d] \in Locked => Same(d), asked' = asked
      PROVE  GraceInv'
  BY <1>1 DEF GraceInv, Locked
<1>2. CASE StartBegins \/ JvmSpawns \/ InitializeSent \/ StartWipes \/ HardExit \/ WatchdogExit
           \/ JvmExits \/ UNCHANGED vars
  <2>1. UNCHANGED <<pc, phase, asked>>
    BY <1>2 DEF StartBegins, JvmSpawns, InitializeSent, StartWipes, HardExit, WatchdogExit,
                JvmExits, vars, stopVars, signalVars
  <2> QED BY <1>1, <2>1
<1>3. CASE InitializeEnds \/ OnShutdown \/ OnExit \/ OnSignal
  <2>1. asked' = asked /\ phase' = phase
        /\ (pc' = pc \/ \E c \in Callers : pc' = [pc EXCEPT ![c] = "waiting"])
    BY <1>3 DEF InitializeEnds, OnShutdown, OnExit, OnSignal, Calls, clientVars, Callers
  <2>2. \A d \in Callers : pc'[d] \in Locked => Same(d)
    BY <2>1 DEF TypeOK, Locked
  <2> QED BY <1>1, <2>1, <2>2
<1>4. ASSUME NEW c \in Callers, StopBegins(c) PROVE GraceInv'
  <2>1. asked' = asked /\ LockIsFree
    BY <1>4 DEF StopBegins
  <2>2. CASE At(c, "request", StopGrace)
    <3>1. \A d \in Callers : pc'[d] \in Locked => d = c
      BY <2>1, <2>2 DEF LockIsFree, At, TypeOK
    <3>2. \A d \in Callers : pc'[d] \notin {"grace", "term"}
      BY <2>1, <2>2 DEF LockIsFree, At, TypeOK, Locked
    <3> QED BY <3>1, <3>2 DEF GraceInv
  <2>3. CASE Completes(c)
    BY <1>1, <2>1, <2>3, CompletesLeavesLock
  <2> QED BY <1>4, <2>2, <2>3 DEF StopBegins
<1>5. ASSUME NEW c \in Callers, pc[c] = "request", At(c, "grace", GraceOf(c)), asked' = 0
      PROVE  GraceInv'
  <2>1. \A d \in Callers : pc'[d] \in Locked => d = c
    BY <1>5 DEF GraceInv, At, TypeOK, Locked
  <2>2. pc'[c] = "grace" /\ phase'[c] = ExitGrace
    BY <1>5 DEF At, GraceOf, TypeOK
  <2>3. 0 # Unset /\ 0 + ExitGrace >= ExitGrace
    BY Times DEF Unset
  <2> QED BY <1>5, <2>1, <2>2, <2>3 DEF GraceInv, Locked
<1>6. ASSUME NEW c \in Callers, ShutdownAnswered(c) PROVE GraceInv'
  BY <1>5, <1>6 DEF ShutdownAnswered
<1>7. ASSUME NEW c \in Callers, StopTimesOut(c) PROVE GraceInv'
  <2>1. CASE pc[c] = "request" /\ At(c, "grace", GraceOf(c)) /\ asked' = 0
    BY <1>5, <2>1
  <2>2. CASE At(c, "cut", 0) /\ UNCHANGED asked
    <3>1. \A d \in Callers : pc'[d] \in Locked => Same(d)
      BY <2>2 DEF At, TypeOK, Locked
    <3> QED BY <1>1, <2>2, <3>1
  <2> QED BY <1>7, <2>1, <2>2 DEF StopTimesOut
<1>8. ASSUME NEW c \in Callers, WaitEnds(c) PROVE GraceInv'
  <2>1. asked' = asked /\ pc[c] \in Locked
    BY <1>8 DEF WaitEnds, Locked
  <2>2. CASE Completes(c)
    BY <1>1, <2>1, <2>2, CompletesLeavesLock
  <2>3. CASE Escalates(c)
    <3>1. \A d \in Callers : pc'[d] \in Locked => d = c
      BY <2>1, <2>3 DEF GraceInv, Escalates, At, TypeOK, Locked
    <3>2. pc'[c] \in {"term", "kill"} /\ phase[c] = 0 /\ (pc'[c] = "term" => pc[c] = "grace")
      BY <2>3 DEF Escalates, At, TypeOK
    <3>3. ASSUME pc[c] = "grace" PROVE asked >= ExitGrace
      <4>1. asked \in Int /\ ExitGrace \in Int
        BY Times DEF TypeOK, Unset
      <4>2. asked + 0 >= ExitGrace
        BY <3>2, <3>3 DEF GraceInv
      <4> QED BY <4>1, <4>2
    <3> QED BY <2>1, <3>1, <3>2, <3>3 DEF GraceInv, Locked
  <2> QED BY <1>8, <2>2, <2>3 DEF WaitEnds, GivesUp
<1>9. CASE Tick
  <2>1. pc' = pc /\ asked' = Age(asked, ExitGrace)
        /\ \A d \in Callers : phase'[d] = Left(phase[d])
    BY <1>9 DEF Tick
  <2>2. \A d \in Callers : phase[d] \in Nat
    BY Times DEF TypeOK
  <2>3. asked \in Int /\ (asked = Unset \/ asked \in 0..ExitGrace)
    BY Times DEF TypeOK, Unset
  <2>4. asked # Unset => asked' # Unset /\ asked' >= asked
                         /\ \A d \in Callers : asked + phase[d] >= ExitGrace
                                                => asked' + phase'[d] >= ExitGrace
    BY <2>1, <2>2, <2>3, Times DEF Age, Left, Unset
  <2>5. asked >= ExitGrace => asked' >= ExitGrace
    BY <2>1, <2>3, Times DEF Age, Unset
  <2> QED BY <2>1, <2>4, <2>5 DEF GraceInv
<1> QED BY <1>2, <1>3, <1>4, <1>6, <1>7, <1>8, <1>9 DEF Next

\* A signal is sent only when a grace has run out.
LEMMA SignalAfterGrace ==
    ASSUME TypeOK, GraceInv, [Next]_vars, signalled' # signalled
    PROVE  asked >= ExitGrace
<1>1. PICK c \in Callers : WaitEnds(c) /\ Escalates(c)
  <2>1. ~(StartBegins \/ JvmSpawns \/ InitializeSent \/ StartWipes \/ HardExit \/ WatchdogExit
          \/ JvmExits \/ Tick \/ UNCHANGED vars)
    BY DEF StartBegins, JvmSpawns, InitializeSent, StartWipes, HardExit, WatchdogExit, JvmExits,
           Tick, vars, stopVars, signalVars
  <2>2. ~(InitializeEnds \/ OnShutdown \/ OnExit \/ OnSignal)
    BY DEF InitializeEnds, OnShutdown, OnExit, OnSignal, signalVars
  <2>3. ~ \E c \in Callers : StopBegins(c) \/ ShutdownAnswered(c) \/ StopTimesOut(c)
    BY DEF StopBegins, ShutdownAnswered, StopTimesOut, signalVars
  <2>4. \E c \in Callers : WaitEnds(c)
    BY <2>1, <2>2, <2>3 DEF Next
  <2> QED BY <2>4 DEF WaitEnds, GivesUp, signalVars
<1>2. phase[c] = 0 /\ pc[c] \in {"grace", "term"}
  BY <1>1 DEF Escalates
<1>3. CASE pc[c] = "grace"
  <2>1. asked \in Int /\ ExitGrace \in Int
    BY Times DEF TypeOK, Unset
  <2>2. asked + 0 >= ExitGrace
    BY <1>2, <1>3 DEF GraceInv
  <2> QED BY <2>1, <2>2
<1>4. CASE pc[c] = "term"
  BY <1>4 DEF GraceInv
<1> QED BY <1>2, <1>3, <1>4

----------------------------------------------------------------------------
(* The workspace of a failed start.                                        *)

LEMMA KilledNumbers ==
    ASSUME TypeOK
    PROVE  killed \in Int /\ StopGrace \in Int /\ \A c \in Callers : phase[c] \in Nat
BY Times DEF TypeOK, Unset

LEMMA WipeStep == TypeOK /\ WipeInv /\ [Next]_vars => WipeInv'
<1> SUFFICES ASSUME TypeOK, WipeInv, [Next]_vars PROVE WipeInv'
  OBVIOUS
<1>1. "start" \in Callers
  BY DEF Callers
<1>2. ASSUME NEW c \in Callers, Completes(c), UNCHANGED <<jvm, killed>>,
             c = "start" => Beyond \/ start # "stopping"
      PROVE  WipeInv'
  <2>1. \A d \in Callers : pc'[d] = "kill" => pc[d] = "kill" /\ phase'[d] = phase[d]
    BY <1>2, CompletesLeavesLock DEF Locked
  <2>2. Beyond' = Beyond
    BY <1>2 DEF Beyond
  <2>3. start' = "stopping" /\ pc'["start"] = "done" => Beyond
    BY <1>1, <1>2 DEF Completes, WipeInv, TypeOK
  <2>4. start' = "wiped" => start = "wiped"
    BY <1>2 DEF Completes
  <2> QED BY <1>2, <2>1, <2>2, <2>3, <2>4 DEF WipeInv
<1>3. ASSUME NEW c \in Callers, NEW place \in {"request", "grace", "term", "cut"}, NEW left,
             At(c, place, left), UNCHANGED <<start, jvm, killed>>
      PROVE  WipeInv'
  <2>1. \A d \in Callers : pc'[d] = "kill" => pc[d] = "kill" /\ phase'[d] = phase[d]
    BY <1>3 DEF At, TypeOK
  <2>2. pc'["start"] = "done" => pc["start"] = "done"
    BY <1>1, <1>3 DEF At, TypeOK
  <2> QED BY <1>3, <2>1, <2>2 DEF WipeInv, Beyond
<1>4. CASE StartBegins \/ JvmSpawns \/ InitializeSent \/ StartWipes
  BY <1>4 DEF StartBegins, JvmSpawns, InitializeSent, StartWipes, stopVars, signalVars, WipeInv,
              Beyond
<1>5. CASE InitializeEnds
  <2>1. UNCHANGED <<jvm, phase, killed>> /\ start' # "wiped"
        /\ (start' = "stopping" => pc'["start"] = "waiting")
    BY <1>1, <1>5 DEF InitializeEnds, Calls, signalVars, TypeOK
  <2>2. \A d \in Callers : pc'[d] = "kill" => pc[d] = "kill"
    BY <1>5 DEF InitializeEnds, Calls, TypeOK
  <2> QED BY <2>1, <2>2 DEF WipeInv
<1>6. CASE OnShutdown \/ OnExit \/ OnSignal
  <2>1. UNCHANGED <<start, jvm, phase, killed>>
    BY <1>6 DEF OnShutdown, OnExit, OnSignal, signalVars
  <2>2. pc'["start"] = pc["start"] /\ \A d \in Callers : pc'[d] = "kill" => pc[d] = "kill"
    BY <1>1, <1>6 DEF OnShutdown, OnExit, OnSignal, Calls, TypeOK
  <2> QED BY <2>1, <2>2 DEF WipeInv, Beyond
<1>7. CASE HardExit \/ WatchdogExit \/ JvmExits \/ UNCHANGED vars
  BY <1>7 DEF HardExit, WatchdogExit, JvmExits, vars, stopVars, signalVars, WipeInv, Beyond
<1>8. ASSUME NEW c \in Callers, StopBegins(c) PROVE WipeInv'
  <2>1. UNCHANGED <<jvm, killed>>
    BY <1>8 DEF StopBegins, signalVars
  <2>2. CASE ProcessKnown /\ jvm = "alive"
    BY <1>3, <1>8, <2>1, <2>2 DEF StopBegins
  <2>3. CASE ~(ProcessKnown /\ jvm = "alive")
    BY <1>2, <1>8, <2>1, <2>3 DEF StopBegins, ProcessKnown, Beyond
  <2> QED BY <2>2, <2>3
<1>9. ASSUME NEW c \in Callers, ShutdownAnswered(c) \/ StopTimesOut(c) PROVE WipeInv'
  BY <1>3, <1>9 DEF ShutdownAnswered, StopTimesOut, signalVars
<1>10. ASSUME NEW c \in Callers, WaitEnds(c) PROVE WipeInv'
  <2>1. jvm' = jvm
    BY <1>10 DEF WaitEnds
  <2>2. CASE jvm = "exited" /\ Completes(c) /\ UNCHANGED signalVars
    BY <1>2, <2>1, <2>2 DEF signalVars, Beyond
  <2>3. CASE GivesUp(c)
    <3>1. killed + 0 >= StopGrace
      BY <2>3 DEF GivesUp, WipeInv
    <3> QED BY <1>2, <2>1, <2>3, <3>1, KilledNumbers DEF GivesUp, signalVars, Beyond
  <2>4. CASE Escalates(c) /\ pc[c] = "grace"
    BY <1>3, <2>1, <2>4 DEF Escalates
  <2>5. CASE Escalates(c) /\ pc[c] # "grace"
    <3>1. /\ At(c, "kill", StopGrace) /\ start' = start
          /\ killed' = IF killed = Unset THEN 0 ELSE killed
      BY <2>5 DEF Escalates
    <3>2. pc'[c] = "kill" /\ phase'[c] = StopGrace /\ killed' \in Nat
          /\ killed' + StopGrace >= StopGrace /\ killed' # Unset /\ killed' >= killed
      BY <3>1, Times DEF At, TypeOK, Unset
    <3>3. \A d \in Callers \ {c} : pc'[d] = pc[d] /\ phase'[d] = phase[d]
      BY <3>1 DEF At, TypeOK
    <3>4. \A d \in Callers : pc'[d] = "kill"
                => killed' # Unset /\ killed' + phase'[d] >= StopGrace
      <4> SUFFICES ASSUME NEW d \in Callers, pc'[d] = "kill", d # c
                   PROVE  killed' + phase'[d] >= StopGrace
        BY <3>2
      <4>1. killed + phase[d] >= StopGrace /\ phase'[d] = phase[d]
        BY <3>3 DEF WipeInv
      <4> QED BY <3>2, <4>1, KilledNumbers
    <3>5. pc'["start"] = "done" => pc["start"] = "done"
      BY <1>1, <3>2, <3>3
    <3>6. Beyond => Beyond'
      BY <2>1, <3>2, KilledNumbers DEF Beyond
    <3> QED BY <3>1, <3>4, <3>5, <3>6 DEF WipeInv
  <2> QED BY <1>10, <2>2, <2>3, <2>4, <2>5 DEF WaitEnds
<1>11. CASE Tick
  <2>1. UNCHANGED <<start, jvm, pc>> /\ killed' = Age(killed, StopGrace)
        /\ \A d \in Callers : phase'[d] = Left(phase[d])
    BY <1>11 DEF Tick
  <2>2. killed # Unset => killed' # Unset /\ \A d \in Callers :
            killed + phase[d] >= StopGrace => killed' + phase'[d] >= StopGrace
    BY <2>1, KilledNumbers, Times DEF TypeOK, Age, Left, Unset
  <2>3. killed >= StopGrace => killed' >= StopGrace
    BY <2>1, KilledNumbers, Times DEF Age, Unset
  <2> QED BY <2>1, <2>2, <2>3 DEF WipeInv, Beyond
<1> QED BY <1>4, <1>5, <1>6, <1>7, <1>8, <1>9, <1>10, <1>11 DEF Next

----------------------------------------------------------------------------
(* The client's exit.                                                      *)

\* A step that is not of the client's exit leaves its budget alone.
LEMMA BudgetKept ==
    ASSUME ExitBudget, exitAge' = exitAge, pc'["exit"] = pc["exit"],
           phase'["exit"] = phase["exit"], bound'["exit"] = bound["exit"],
           server' = "up" => server = "up"
    PROVE  ExitBudget'
BY DEF ExitBudget, Unset

LEMMA BudgetNumbers ==
    ASSUME TypeOK
    PROVE  /\ exitAge \in Int /\ bound["exit"] \in Int /\ phase["exit"] \in Int
           /\ bound["exit"] # Unset => bound["exit"] >= 0
BY Times DEF TypeOK, Unset, Callers

LEMMA CompletesBudget ==
    ASSUME TypeOK, ExitBudget, NEW c \in Callers, Completes(c), server = "up", pc[c] # "idle",
           exitAge' = exitAge, pc[c] \notin Returned
    PROVE  ExitBudget'
<1>1. "exit" \in Callers
  BY DEF Callers
<1>2. CASE c # "exit"
  <2>1. pc'["exit"] = pc["exit"] /\ phase'["exit"] = phase["exit"]
        /\ bound'["exit"] = bound["exit"]
    BY <1>1, <1>2 DEF Completes, TypeOK
  <2> QED BY <2>1, BudgetKept
<1>3. CASE c = "exit"
  <2>1. pc'["exit"] = "done" /\ bound'["exit"] = Unset
    BY <1>1, <1>3 DEF Completes, TypeOK
  <2>2. exitAge # Unset => exitAge <= ExitLimit
    <3> SUFFICES ASSUME exitAge # Unset PROVE exitAge <= ExitLimit
      OBVIOUS
    <3>1. CASE bound["exit"] # Unset
      BY <3>1, BudgetNumbers, Times DEF ExitBudget, ExitLimit
    <3>2. CASE bound["exit"] = Unset
      <4>1. pc["exit"] \in {"grace", "term", "kill"}
        BY <1>3, <3>2 DEF ExitBudget, TypeOK, Locked, Returned, Callers
      <4>2. phase["exit"] >= 0
        BY Times DEF TypeOK, Callers
      <4> QED BY <3>2, <4>1, <4>2, BudgetNumbers, Times DEF ExitBudget, ExitLimit
    <3> QED BY <3>1, <3>2
  <2> QED BY <2>1, <2>2 DEF ExitBudget, Returned
<1> QED BY <1>2, <1>3

LEMMA BudgetStep == TypeOK /\ ExitBudget /\ [Next]_vars => ExitBudget'
<1> SUFFICES ASSUME TypeOK, ExitBudget, [Next]_vars PROVE ExitBudget'
  OBVIOUS
<1>1. "exit" \in Callers
  BY DEF Callers
<1>2. CASE StartBegins \/ JvmSpawns \/ InitializeSent \/ StartWipes \/ JvmExits \/ UNCHANGED vars
  <2>1. UNCHANGED <<exitAge, pc, phase, bound, server>>
    BY <1>2 DEF StartBegins, JvmSpawns, InitializeSent, StartWipes, JvmExits, vars, stopVars, signalVars,
                clientVars
  <2> QED BY <2>1, BudgetKept
<1>3. CASE InitializeEnds \/ OnShutdown
  <2>1. UNCHANGED <<exitAge, phase, server>> /\ pc'["exit"] = pc["exit"]
        /\ bound'["exit"] = bound["exit"]
    <3>1. CASE InitializeEnds
      BY <1>1, <3>1 DEF InitializeEnds, Calls, clientVars, TypeOK
    <3>2. CASE OnShutdown
      BY <1>1, <3>2 DEF OnShutdown, Calls, clientVars, TypeOK
    <3> QED BY <1>3, <3>1, <3>2
  <2> QED BY <2>1, BudgetKept
<1>4. CASE OnSignal
  <2>1. UNCHANGED <<exitAge, phase>> /\ server = "up" /\ pc'["exit"] = pc["exit"]
        /\ bound'["exit"] = bound["exit"]
    BY <1>1, <1>4 DEF OnSignal, Calls, TypeOK
  <2> QED BY <2>1, BudgetKept
<1>5. CASE OnExit
  <2>1. exitAge' = 0 /\ pc'["exit"] = "waiting" /\ bound'["exit"] = StopTimeout
    BY <1>1, <1>5 DEF OnExit, Calls, TypeOK
  <2>2. StopTimeout # Unset /\ 0 + StopTimeout <= StopTimeout
    BY Times DEF Unset
  <2> QED BY <2>1, <2>2 DEF ExitBudget
<1>6. CASE HardExit \/ WatchdogExit
  <2>1. server' # "up"
    BY <1>6 DEF HardExit, WatchdogExit
  <2> QED BY <2>1 DEF ExitBudget
<1>7. ASSUME NEW c \in Callers, c # "exit", NEW place, NEW left, At(c, place, left),
             bound'["exit"] = bound["exit"], exitAge' = exitAge, server' = server
      PROVE  ExitBudget'
  <2>1. pc'["exit"] = pc["exit"] /\ phase'["exit"] = phase["exit"]
    BY <1>1, <1>7 DEF At, TypeOK
  <2> QED BY <1>7, <2>1, BudgetKept
<1>8. ASSUME NEW c \in Callers, StopBegins(c) PROVE ExitBudget'
  <2>1. server = "up" /\ pc[c] = "waiting" /\ exitAge' = exitAge /\ server' = server
    BY <1>8 DEF StopBegins, clientVars
  <2>2. CASE At(c, "request", StopGrace) /\ bound' = bound
    <3>1. CASE c = "exit"
      <4>1. pc'["exit"] = "request" /\ bound'["exit"] = bound["exit"]
        BY <1>1, <2>2, <3>1 DEF At, TypeOK
      <4> QED BY <2>1, <3>1, <4>1 DEF ExitBudget
    <3> QED BY <1>7, <2>1, <2>2, <3>1
  <2>3. CASE Completes(c)
    BY <2>1, <2>3, CompletesBudget DEF Returned
  <2> QED BY <1>8, <2>2, <2>3 DEF StopBegins
<1>9. ASSUME NEW c \in Callers, ShutdownAnswered(c) PROVE ExitBudget'
  <2>1. /\ server = "up" /\ pc[c] = "request" /\ At(c, "grace", GraceOf(c))
        /\ UNCHANGED <<exitAge, server, bound>>
    BY <1>9 DEF ShutdownAnswered
  <2>2. CASE c = "exit"
    <3>1. pc'["exit"] = "grace" /\ bound'["exit"] = bound["exit"]
      BY <1>1, <2>1, <2>2 DEF At, TypeOK
    <3> QED BY <2>1, <2>2, <3>1 DEF ExitBudget
  <2> QED BY <1>7, <2>1, <2>2
<1>10. ASSUME NEW c \in Callers, StopTimesOut(c) PROVE ExitBudget'
  <2>1. /\ server = "up" /\ bound[c] = 0 /\ bound' = [bound EXCEPT ![c] = Unset]
        /\ exitAge' = exitAge /\ server' = server
    BY <1>10 DEF StopTimesOut, BoundIsOver, clientVars
  <2>2. CASE c # "exit"
    <3>1. bound'["exit"] = bound["exit"]
      BY <1>1, <2>1, <2>2 DEF TypeOK
    <3> QED BY <1>7, <1>10, <2>1, <2>2, <3>1 DEF StopTimesOut
  <2>3. CASE c = "exit"
    <3>1. bound'["exit"] = Unset /\ (exitAge # Unset => exitAge <= StopTimeout)
      <4>1. bound'["exit"] = Unset
        BY <1>1, <2>1, <2>3 DEF TypeOK
      <4>2. bound["exit"] = 0 /\ bound["exit"] # Unset
        BY <2>1, <2>3 DEF Unset
      <4>3. exitAge # Unset => exitAge + 0 <= StopTimeout
        BY <2>1, <4>2 DEF ExitBudget
      <4> QED BY <4>1, <4>3, BudgetNumbers, Times
    <3>2. CASE pc'["exit"] = "cut"
      <4>1. exitAge # Unset => exitAge <= ExitLimit
        BY <3>1, BudgetNumbers, Times DEF ExitLimit
      <4> QED BY <2>1, <3>1, <3>2, <4>1 DEF ExitBudget
    <3>3. CASE pc'["exit"] = "grace" /\ phase'["exit"] = ExitGrace
      <4>1. exitAge # Unset => exitAge + ExitGrace + 2 * StopGrace <= ExitLimit
        BY <3>1, BudgetNumbers, Times DEF ExitLimit
      <4> QED BY <2>1, <3>1, <3>3, <4>1 DEF ExitBudget, Returned
    <3> QED BY <1>1, <1>10, <2>3, <3>2, <3>3 DEF StopTimesOut, At, GraceOf, TypeOK
  <2> QED BY <2>2, <2>3
<1>11. ASSUME NEW c \in Callers, WaitEnds(c) PROVE ExitBudget'
  <2>1. server = "up" /\ pc[c] \in {"grace", "term", "kill"}
        /\ UNCHANGED <<exitAge, server>>
    BY <1>11 DEF WaitEnds, clientVars
  <2>2. CASE Completes(c)
    BY <2>1, <2>2, CompletesBudget DEF Returned
  <2>3. CASE Escalates(c)
    <3>1. bound' = bound
      BY <2>3 DEF Escalates
    <3>2. CASE c # "exit"
      BY <1>7, <2>1, <2>3, <3>1, <3>2 DEF Escalates
    <3>3. CASE c = "exit" /\ bound["exit"] # Unset
      <4>1. pc'["exit"] \in {"term", "kill"}
        BY <1>1, <2>3, <3>3 DEF Escalates, At, TypeOK
      <4> QED BY <2>1, <3>1, <3>3, <4>1 DEF ExitBudget
    <3>4. CASE c = "exit" /\ bound["exit"] = Unset /\ pc["exit"] = "grace"
      <4>1. pc'["exit"] = "term" /\ phase'["exit"] = StopGrace /\ phase["exit"] = 0
        BY <1>1, <2>3, <3>4 DEF Escalates, At, TypeOK
      <4>2. exitAge # Unset => exitAge + 0 + 2 * StopGrace <= ExitLimit
        BY <2>1, <3>4, <4>1 DEF ExitBudget
      <4>3. exitAge # Unset => exitAge + StopGrace + StopGrace <= ExitLimit
        BY <4>2, BudgetNumbers, Times
      <4> QED BY <2>1, <3>1, <3>4, <4>1, <4>3 DEF ExitBudget, Returned
    <3>5. CASE c = "exit" /\ bound["exit"] = Unset /\ pc["exit"] = "term"
      <4>1. pc'["exit"] = "kill" /\ phase'["exit"] = StopGrace /\ phase["exit"] = 0
        BY <1>1, <2>3, <3>5 DEF Escalates, At, TypeOK
      <4>2. exitAge # Unset => exitAge + 0 + StopGrace <= ExitLimit
        BY <2>1, <3>5, <4>1 DEF ExitBudget
      <4>3. exitAge # Unset => exitAge + StopGrace <= ExitLimit
        BY <4>2, BudgetNumbers, Times
      <4> QED BY <2>1, <3>1, <3>5, <4>1, <4>3 DEF ExitBudget, Returned
    <3> QED BY <2>3, <3>2, <3>3, <3>4, <3>5 DEF Escalates
  <2> QED BY <1>11, <2>2, <2>3 DEF WaitEnds, GivesUp
\* While the server is up, time passes only when nothing of the exit is due.
<1>12. CASE Tick
  <2> SUFFICES ASSUME server = "up", exitAge' # Unset PROVE ExitBudget'
    BY <1>12 DEF Tick, ExitBudget
  <2>1. /\ ~Due("exit") /\ pc' = pc /\ server' = server
        /\ bound'["exit"] = Left(bound["exit"]) /\ phase'["exit"] = Left(phase["exit"])
        /\ exitAge' = Age(exitAge, ExitLimit + 1)
    BY <1>1, <1>12 DEF Tick
  <2>2. exitAge # Unset /\ exitAge' <= exitAge + 1 /\ exitAge' \in Int
    BY <2>1, BudgetNumbers, Times DEF Age
  <2>3. pc["exit"] \notin Returned
    BY <2>1 DEF Due
  <2>4. pc["exit"] \in {"waiting"} \cup Locked
    BY <1>1, <2>2, <2>3 DEF ExitBudget, TypeOK
  <2>5. CASE bound["exit"] # Unset
    <3>1. bound["exit"] # 0
      BY <2>1, <2>4 DEF Due, BoundIsOver
    <3>2. exitAge' + bound'["exit"] <= StopTimeout /\ bound'["exit"] # Unset
      <4>1. exitAge + bound["exit"] <= StopTimeout
        BY <2>2, <2>5 DEF ExitBudget
      <4>2. bound'["exit"] = bound["exit"] - 1 /\ bound["exit"] > 0
        BY <2>1, <2>5, <3>1, BudgetNumbers DEF Left
      <4> QED BY <2>2, <4>1, <4>2, BudgetNumbers, Times DEF Unset
    <3> QED BY <2>1, <2>3, <2>4, <3>2 DEF ExitBudget, Returned, Locked
  <2>6. CASE bound["exit"] = Unset
    <3>1. pc["exit"] \in {"grace", "term", "kill"} /\ bound'["exit"] = Unset
      <4>1. pc["exit"] \in {"grace", "term", "kill"}
        BY <2>2, <2>4, <2>6 DEF ExitBudget, Locked
      <4>2. bound'["exit"] = Unset
        BY <2>1, <2>6 DEF Left, Unset
      <4> QED BY <4>1, <4>2
    <3>2. phase["exit"] # 0
      BY <2>1, <3>1 DEF Due, Locked
    <3>3. phase'["exit"] = phase["exit"] - 1
      <4>1. phase["exit"] > 0
        BY <1>1, <3>2, Times DEF TypeOK
      <4> QED BY <2>1, <4>1 DEF Left
    <3>4. CASE pc["exit"] = "grace"
      <4>1. exitAge + phase["exit"] + 2 * StopGrace <= ExitLimit
        BY <2>2, <2>6, <3>4 DEF ExitBudget
      <4>2. exitAge' + phase'["exit"] + 2 * StopGrace <= ExitLimit
        BY <2>2, <3>3, <4>1, BudgetNumbers, Times
      <4> QED BY <2>1, <3>1, <3>4, <4>2 DEF ExitBudget, Returned
    <3>5. CASE pc["exit"] = "term"
      <4>1. exitAge + phase["exit"] + StopGrace <= ExitLimit
        BY <2>2, <2>6, <3>5 DEF ExitBudget
      <4>2. exitAge' + phase'["exit"] + StopGrace <= ExitLimit
        BY <2>2, <3>3, <4>1, BudgetNumbers, Times
      <4> QED BY <2>1, <3>1, <3>5, <4>2 DEF ExitBudget, Returned
    <3>6. CASE pc["exit"] = "kill"
      <4>1. exitAge + phase["exit"] <= ExitLimit
        BY <2>2, <2>6, <3>6 DEF ExitBudget
      <4>2. exitAge' + phase'["exit"] <= ExitLimit
        BY <2>2, <3>3, <4>1, BudgetNumbers, Times
      <4> QED BY <2>1, <3>1, <3>6, <4>2 DEF ExitBudget, Returned
    <3> QED BY <3>1, <3>4, <3>5, <3>6
  <2> QED BY <2>5, <2>6
<1> QED BY <1>2, <1>3, <1>4, <1>5, <1>6, <1>8, <1>9, <1>10, <1>11, <1>12 DEF Next

LEMMA BudgetBounds == TypeOK /\ ExitBudget => ExitIsBounded
<1> SUFFICES ASSUME TypeOK, ExitBudget, server = "up" PROVE exitAge <= ExitLimit
  BY DEF ExitIsBounded
<1>1. CASE exitAge = Unset
  BY <1>1, Times DEF Unset
<1>2. CASE exitAge # Unset /\ bound["exit"] # Unset
  BY <1>2, BudgetNumbers, Times DEF ExitBudget, ExitLimit
<1>3. CASE exitAge # Unset /\ bound["exit"] = Unset
  <2>1. phase["exit"] >= 0
    BY Times DEF TypeOK, Callers
  <2>2. pc["exit"] \in {"grace", "term", "kill"} \cup Returned
    BY <1>3 DEF ExitBudget, TypeOK, Locked, Returned, Callers
  <2> QED BY <1>3, <2>1, <2>2, BudgetNumbers, Times DEF ExitBudget, ExitLimit
<1> QED BY <1>1, <1>2, <1>3

----------------------------------------------------------------------------
(* The theorems.                                                           *)

LEMMA TypeAlways == Spec => []TypeOK
BY TypeInit, TypeStep, PTL DEF Spec

LEMMA GraceAlways == Spec => []GraceInv
BY TypeAlways, GraceInit, GraceStep, PTL DEF Spec

\* Every wait of the shutdown stays within its own timeout, for any timeouts (TypeOK).
THEOREM TypeCorrect == Spec => []TypeOK
BY TypeAlways

\* The client's `exit` ends the server within ExitLimit, whoever holds the lock and
\* also when the cancel of its stop() is swallowed (ExitIsBounded).
THEOREM ExitEndsInTime == Spec => []ExitIsBounded
<1>1. Init => ExitBudget
  BY DEF Init, ExitBudget
<1>2. Spec => []ExitBudget
  BY <1>1, TypeAlways, BudgetStep, PTL DEF Spec
<1> QED BY <1>2, TypeAlways, BudgetBounds, PTL

\* A failed start wipes the workspace only when its JVM is gone or has outlived a SIGKILL
\* for the whole grace, however many stops overlap (WipedAfterExit).
THEOREM WipesComeAfterExit == Spec => []WipedAfterExit
<1>1. Init => WipeInv
  BY DEF Init, WipeInv, Callers
<1>2. Spec => []WipeInv
  BY <1>1, TypeAlways, WipeStep, PTL DEF Spec
<1>3. WipeInv => WipedAfterExit
  BY DEF WipeInv, Beyond, WipedAfterExit
<1> QED BY <1>2, <1>3, PTL

\* No signal reaches jdtls before the grace of the last `exit` is over, however many
\* callers stop it (GraceRespected).
THEOREM GraceIsRespected == Spec => GraceRespected
<1>1. TypeOK /\ GraceInv /\ [Next]_vars => [signalled' # signalled => asked >= ExitGrace]_vars
  BY SignalAfterGrace
<1> QED BY <1>1, TypeAlways, GraceAlways, PTL DEF Spec, GraceRespected
=============================================================================
