------------------------------ MODULE Shutdown ------------------------------
(***************************************************************************)
(* How the server ends and takes jdtls with it: on_shutdown, on_exit, the  *)
(* signal handler and a start that fails all call JdtlsProxy.stop(), the   *)
(* first three cut off after _STOP_TIMEOUT_SEC, behind one lock; a start   *)
(* may be under way, and the JVM may answer, exit or hang at any point.    *)
(*                                                                         *)
(* A stop's pc is the await it is suspended at.  Every timer is a          *)
(* countdown; Tick waits for what is due, as the loop is idle while the    *)
(* server stops.                                                           *)
(***************************************************************************)
EXTENDS Integers

CONSTANTS
    StopGrace,    \* _STOP_GRACE_SEC
    ExitGrace,    \* _EXIT_GRACE_SEC
    StopTimeout,  \* _STOP_TIMEOUT_SEC
    Watchdog      \* _SIGNAL_WATCHDOG_SEC

ASSUME TimesPositive == {StopGrace, ExitGrace, StopTimeout, Watchdog} \subseteq Nat \ {0}

VARIABLES
    server,    \* the server process: "up", or how it ended
    start,     \* where JdtlsProxy.start() is
    jvm,       \* external: the jdtls process
    pc,        \* pc[c]: where caller c of stop() is
    bound,     \* bound[c]: what is left of its wait_for in _stop_jdtls_bounded
    phase,     \* phase[c]: what is left of its current wait
    asked,     \* age of the last `exit` notification to jdtls
    signalled, \* the signals sent to the JVM
    killed,    \* history: age of the first SIGKILL
    watchdog,  \* the signal watchdog's countdown
    exitAge    \* age of the client's `exit`

vars == <<server, start, jvm, pc, bound, phase, asked, signalled, killed, watchdog,
          exitAge>>

Callers == {"shutdown", "exit", "signal", "start"}
Unset == -1
Locked == {"request", "grace", "term", "kill"}
Returned == {"done", "cut"}
ExitLimit == StopTimeout + ExitGrace + 2 * StopGrace

TypeOK ==
    /\ server \in {"up", "exit", "signal", "watchdog"}
    /\ start \in {"idle", "executor", "spawning", "initializing", "ready", "stopping",
                  "wiped", "failed"}
    /\ jvm \in {"absent", "alive", "exited"}
    /\ pc \in [Callers -> {"idle", "waiting"} \cup Locked \cup Returned]
    /\ bound \in [Callers -> 0..StopTimeout \cup {Unset}]
    /\ phase \in [Callers -> 0..ExitGrace \cup 0..StopGrace]
    /\ asked \in 0..ExitGrace \cup {Unset}
    /\ signalled \subseteq {"TERM", "KILL"}
    /\ killed \in 0..StopGrace \cup {Unset}
    /\ watchdog \in 0..Watchdog \cup {Unset}
    /\ exitAge \in 0..ExitLimit + 1 \cup {Unset}

Init ==
    /\ server = "up" /\ start = "idle" /\ jvm = "absent"
    /\ pc = [c \in Callers |-> "idle"]
    /\ bound = [c \in Callers |-> Unset] /\ phase = [c \in Callers |-> 0]
    /\ asked = Unset /\ signalled = {} /\ killed = Unset
    /\ watchdog = Unset /\ exitAge = Unset

----------------------------------------------------------------------------
(* JdtlsProxy.start().                                                     *)

signalVars == <<signalled, killed>>
stopVars == <<pc, bound, phase, asked, signalVars>>
clientVars == <<server, watchdog, exitAge>>

\* The first didOpen: _blocking_startup runs in the executor.
StartBegins ==
    /\ server = "up" /\ start = "idle"
    /\ start' = "executor"
    /\ UNCHANGED <<jvm, stopVars, clientVars>>

\* create_subprocess_exec spawns the JVM and awaits its pipes: until it returns,
\* _process is still None.
JvmSpawns ==
    /\ server = "up" /\ start = "executor"
    /\ \/ start' = "spawning" /\ jvm' = "alive"
       \/ start' = "failed" /\ UNCHANGED jvm
    /\ UNCHANGED <<stopVars, clientVars>>

\* _process is set and the initialize request sent.
InitializeSent ==
    /\ server = "up" /\ start = "spawning"
    /\ start' = "initializing"
    /\ UNCHANGED <<jvm, stopVars, clientVars>>

\* A stop() is called: it queues for _stop_lock.
Calls(c, limit) ==
    /\ pc' = [pc EXCEPT ![c] = "waiting"]
    /\ bound' = [bound EXCEPT ![c] = limit]

\* initialize is answered, or fails or times out: start() then stops jdtls
\* itself, with no bound.
InitializeEnds ==
    /\ server = "up" /\ start = "initializing"
    /\ \/ jvm = "alive" /\ start' = "ready" /\ UNCHANGED <<pc, bound>>
       \/ start' = "stopping" /\ Calls("start", Unset)
    /\ UNCHANGED <<jvm, phase, asked, signalVars, clientVars>>

\* ... and wipes the workspace once stop() returned.
StartWipes ==
    /\ server = "up" /\ start = "stopping" /\ pc["start"] = "done"
    /\ start' = "wiped"
    /\ UNCHANGED <<jvm, stopVars, clientVars>>

ProcessKnown == start \in {"initializing", "ready", "stopping", "wiped"}

----------------------------------------------------------------------------
(* The client and the signals.                                             *)

\* on_shutdown.
OnShutdown ==
    /\ server = "up" /\ pc["shutdown"] = "idle"
    /\ Calls("shutdown", StopTimeout)
    /\ UNCHANGED <<start, jvm, phase, asked, signalVars, clientVars>>

\* on_exit: the client need not have waited for shutdown's answer, or sent it.
OnExit ==
    /\ server = "up" /\ pc["exit"] = "idle"
    /\ Calls("exit", StopTimeout)
    /\ exitAge' = 0
    /\ UNCHANGED <<server, start, jvm, phase, asked, signalVars, watchdog>>

\* _on_signal: the first signal starts the watchdog and a stop, a second one
\* ends the process.
OnSignal ==
    /\ server = "up"
    /\ IF watchdog = Unset
       THEN /\ watchdog' = Watchdog
            /\ Calls("signal", StopTimeout)
            /\ UNCHANGED server
       ELSE /\ server' = "signal"
            /\ UNCHANGED <<pc, bound, watchdog>>
    /\ UNCHANGED <<start, jvm, phase, asked, signalVars, exitAge>>

\* _stop_jdtls_bounded returned to on_exit or _stop_and_exit: _hard_exit.
HardExit ==
    /\ server = "up"
    /\ \E c \in {"exit", "signal"} : pc[c] \in Returned /\ server' = c
    /\ UNCHANGED <<start, jvm, stopVars, watchdog, exitAge>>

WatchdogExit ==
    /\ server = "up" /\ watchdog = 0
    /\ server' = "watchdog"
    /\ UNCHANGED <<start, jvm, stopVars, watchdog, exitAge>>

----------------------------------------------------------------------------
(* JdtlsProxy.stop() and _terminate().                                     *)

\* Mutant: stop() does not take the lock.
NoLock == TRUE

LockIsFree == \A c \in Callers : pc[c] \notin Locked

At(c, place, left) ==
    /\ pc' = [pc EXCEPT ![c] = place]
    /\ phase' = [phase EXCEPT ![c] = left]

\* The rest of stop(): every pending request is cancelled, so that an
\* initialize still waiting ends at once and start() calls stop() in turn.
Completes(c) ==
    /\ phase' = [phase EXCEPT ![c] = 0]
    /\ bound' = [bound EXCEPT ![c] = Unset]
    /\ IF start = "initializing"
       THEN /\ start' = "stopping"
            /\ pc' = [pc EXCEPT ![c] = "done", !["start"] = "waiting"]
       ELSE /\ pc' = [pc EXCEPT ![c] = "done"]
            /\ UNCHANGED start

\* stop() has the lock.
StopBegins(c) ==
    /\ server = "up" /\ pc[c] = "waiting" /\ LockIsFree
    /\ IF ProcessKnown /\ jvm = "alive"
       THEN At(c, "request", StopGrace) /\ UNCHANGED <<start, bound>>
       ELSE Completes(c)
    /\ UNCHANGED <<jvm, asked, signalVars, clientVars>>

\* Mutant: what a quick reply left of its own time is added.
GraceExtended(c) == ExitGrace + phase[c]

\* "never shortened by time the shutdown reply already took"
GraceOf(c) == ExitGrace

\* The shutdown request is answered, fails or times out; `exit` is sent.
ShutdownAnswered(c) ==
    /\ server = "up" /\ pc[c] = "request"
    /\ At(c, "grace", GraceOf(c))
    /\ asked' = 0
    /\ UNCHANGED <<server, start, jvm, bound, signalVars, watchdog, exitAge>>

\* Mutant: the loop over the signals ends with SIGTERM.
TermOnly(c) ==
    /\ pc[c] \in {"grace", "term"} /\ phase[c] = 0
    /\ IF pc[c] = "grace"
       THEN /\ At(c, "term", StopGrace) /\ signalled' = signalled \cup {"TERM"}
            /\ UNCHANGED <<start, bound, killed>>
       ELSE Completes(c) /\ UNCHANGED signalVars

\* A wait for the JVM's own exit ran out: SIGTERM, then SIGKILL.
Escalates(c) ==
    /\ pc[c] \in {"grace", "term"} /\ phase[c] = 0
    /\ IF pc[c] = "grace"
       THEN At(c, "term", StopGrace) /\ signalled' = signalled \cup {"TERM"} /\ UNCHANGED killed
       ELSE /\ At(c, "kill", StopGrace) /\ signalled' = signalled \cup {"KILL"}
            /\ killed' = IF killed = Unset THEN 0 ELSE killed
    /\ UNCHANGED <<start, bound>>

\* The wait after SIGKILL ran out as well: stop() returns, and the JVM is still there.
GivesUp(c) ==
    /\ pc[c] = "kill" /\ phase[c] = 0
    /\ Completes(c)
    /\ UNCHANGED signalVars

WaitEnds(c) ==
    /\ server = "up" /\ pc[c] \in {"grace", "term", "kill"}
    /\ \/ jvm = "exited" /\ Completes(c) /\ UNCHANGED signalVars
       \/ jvm = "alive" /\ (Escalates(c) \/ GivesUp(c))
    /\ UNCHANGED <<jvm, asked, clientVars>>

BoundIsOver(c) == bound[c] = 0 /\ pc[c] \in {"waiting"} \cup Locked

\* _stop_jdtls_bounded's wait_for times out and cancels stop().  While stop() waits
\* for a reply, the cancel also cancels the request's future, which _request takes
\* for a stop()'s doing: it returns, and the cancelled stop() goes on, unbounded.
StopTimesOut(c) ==
    /\ server = "up" /\ BoundIsOver(c)
    /\ \/ pc[c] # "request" /\ At(c, "cut", 0) /\ UNCHANGED asked
       \/ pc[c] = "request" /\ At(c, "grace", GraceOf(c)) /\ asked' = 0
    /\ bound' = [bound EXCEPT ![c] = Unset]
    /\ UNCHANGED <<start, jvm, signalVars, clientVars>>

----------------------------------------------------------------------------
(* The JVM and time.                                                       *)

\* jdtls exits: asked to, by a signal, by itself; at any time, or never.
JvmExits ==
    /\ jvm = "alive"
    /\ jvm' = "exited"
    /\ UNCHANGED <<start, stopVars, clientVars>>

Due(c) ==
    \/ pc[c] = "waiting" /\ LockIsFree
    \/ pc[c] \in Locked /\ phase[c] = 0
    \/ pc[c] \in Locked \ {"request"} /\ jvm = "exited"
    \/ BoundIsOver(c)
    \/ pc[c] \in Returned /\ c \in {"exit", "signal"}

Left(t) == IF t > 0 THEN t - 1 ELSE t
Age(t, cap) == IF t = Unset \/ t = cap THEN t ELSE t + 1

Tick ==
    /\ server = "up" => watchdog # 0 /\ \A c \in Callers : ~Due(c)
    /\ bound' = [c \in Callers |-> Left(bound[c])]
    /\ phase' = [c \in Callers |-> Left(phase[c])]
    /\ watchdog' = Left(watchdog)
    /\ asked' = Age(asked, ExitGrace)
    /\ killed' = Age(killed, StopGrace)
    /\ exitAge' = Age(exitAge, ExitLimit + 1)
    /\ UNCHANGED <<server, start, jvm, pc, signalled>>

Next ==
    \/ StartBegins \/ JvmSpawns \/ InitializeSent \/ InitializeEnds \/ StartWipes
    \/ OnShutdown \/ OnExit \/ OnSignal \/ HardExit \/ WatchdogExit
    \/ \E c \in Callers :
        StopBegins(c) \/ ShutdownAnswered(c) \/ WaitEnds(c) \/ StopTimesOut(c)
    \/ JvmExits \/ Tick

Spec == Init /\ [][Next]_vars

----------------------------------------------------------------------------
(* Properties.                                                             *)

\* jdtls is never signalled while it may still be saving its workspace: however
\* many stops overlap, are cut off or go on after a cancel, SIGTERM and SIGKILL
\* come at least ExitGrace after the last `exit` (_EXIT_GRACE_SEC's comment).
GraceRespected == [][signalled' # signalled => asked >= ExitGrace]_vars

\* The client's `exit` ends the server within ExitLimit, even behind an unbounded
\* stop() and when its own stop() outlives the cancel.
ExitIsBounded == server = "up" => exitAge <= ExitLimit

\* A start that failed wipes the jdtls workspace only once the JVM that writes it is
\* gone, or else has outlived a SIGKILL for the whole grace: no stop() that was cut off,
\* overtaken or that gave up early lets the wipe run into a JVM still being stopped.
WipedAfterExit == start = "wiped" => jvm # "alive" \/ killed >= StopGrace

\* "proxy.stop() takes at most ~3 s" and "SHUTDOWN and EXIT now stop jdtls": the
\* bound on on_exit's stop never cuts it off while a started jdtls still runs.
JdtlsNotOrphaned ==
    server = "exit" /\ start = "ready" /\ pc["exit"] = "cut" => jvm # "alive"
=============================================================================
