-------------------------- MODULE DependencyRounds --------------------------
(***************************************************************************)
(* The round controller of dependency_modules.py: it imports the in-repo   *)
(* modules an open file misses as jdtls workspace folders, a batch per     *)
(* round, and only as long as jdtls, asked to re-validate the file, still  *)
(* reports the errors such a module would cause.                           *)
(*                                                                         *)
(* An action is one uninterrupted run of the loop: the reader's dispatch   *)
(* of a message, a client's notification, or the controller's task from    *)
(* one await to the next, which may cross the end of a phase and the start *)
(* of the following one.  The operators from Stop to Probe follow the task *)
(* to wherever it suspends.  Waits are not timed: each may run out at any  *)
(* moment, and so may the session's import time.                           *)
(***************************************************************************)
EXTENDS Integers, Sequences, FiniteSets, FiniteSetsExt, SequencesExt, Filters

CONSTANTS
    Files,        \* .java files
    Modules,      \* Maven modules, aggregators left out
    ModuleOf,     \* [Files -> Modules]
    Deps,         \* [Modules -> SUBSET Modules]: main-classpath edges in the repository
    RootOf,       \* reactor root of each module
    Covered0,     \* modules in the groups jdtls starts with
    Groups,       \* sets of modules that a group expansion can cover
    None,
    Budget, Rounds, PerRound, RefreshesPerRound, RefreshCap  \* Limits

ASSUME ModulesFinite == IsFiniteSet(Modules) /\ IsFiniteSet(Files)
ASSUME GraphTyped ==
    /\ ModuleOf \in [Files -> Modules] /\ Deps \in [Modules -> SUBSET Modules]
    /\ Covered0 \subseteq Modules /\ Groups \subseteq SUBSET Modules
    /\ DOMAIN RootOf = Modules
ASSUME LimitsPositive ==
    {Budget, Rounds, PerRound, RefreshesPerRound, RefreshCap} \subseteq Nat \ {0}
ASSUME NoneOutside == None \notin Files

VARIABLES
    open,       \* the files the client has open
    jdtls,      \* the jdtls process
    available,  \* proxy._available
    cached,     \* proxy._diagnostics_cache is not empty
    folders,    \* external: dependency folders in jdtls's workspace
    covered,    \* modules under an imported group (covered_roots)
    registry,   \* registry: modules imported by this class
    retired,    \* _retired
    markers,    \* _markers: the missing artifacts each module's pom reports
    published,  \* modules with a pom publish (_pom_publishes)
    latest,     \* open files whose _latest classification is demand
    armed,      \* _armed
    pending,    \* _pending_modules
    window,     \* the open refresh window, or the one just closed
    indexed,    \* _indexes: the reactor index of each root
    session,    \* _Session
    run,        \* the controller's task, and one that outlived a reset
    served      \* history: modules a phase of this session has dealt with

outside == <<open, jdtls, available, cached, covered, retired, markers, published>>
vars == <<outside, folders, registry, latest, armed, pending, window, indexed, session,
          run, served>>

Runners == {"main", "orphan"}
Roots == {RootOf[m] : m \in Modules}
Terminal == {"budget", "rounds", "wall-clock", "refresh-cap"}
Retryable == {"jdtls-busy", "no-fresh-diagnostics"}

NoWindow == [file |-> None, open |-> FALSE, own |-> FALSE, seen |-> None]
Idle == [pc |-> "none", new |-> {}, todo |-> {}, file |-> None, attempt |-> 1,
         reply |-> "none", demand |-> {}, still |-> {}, awaited |-> {},
         late |-> FALSE, again |-> FALSE]
NewSession == [rounds |-> 0, refreshes |-> 0, used |-> 0, terminal |-> "none",
               importing |-> FALSE]

Seen == [demand : BOOLEAN, current : BOOLEAN, same : BOOLEAN]

TypeOK ==
    /\ open \subseteq Files /\ latest \subseteq Files
    /\ jdtls \in {"running", "stopping", "exited"}
    /\ available \in BOOLEAN /\ cached \in BOOLEAN
    /\ folders \subseteq Modules /\ covered \subseteq Modules
    /\ registry \subseteq Modules /\ retired \subseteq Modules
    /\ markers \in [Modules -> SUBSET Modules] /\ published \subseteq Modules
    /\ armed \subseteq Modules /\ served \subseteq Modules
    /\ pending \in Seq(Modules)
    /\ window \in [file : Files \cup {None}, open : BOOLEAN, own : BOOLEAN,
                   seen : Seen \cup {None}]
    /\ indexed \in [Roots -> {"no", "built", "failed"}]
    /\ session \in [rounds : Nat, refreshes : Nat, used : Nat,
                    terminal : Terminal \cup {"none"}, importing : BOOLEAN]
    /\ run \in [Runners ->
            [pc : {"none", "start", "idle", "refresh", "backoff", "markers", "index",
                   "quiet", "sending", "build"},
             new : SUBSET Modules, todo : SUBSET Files, file : Files \cup {None},
             attempt : 1..2, reply : {"none", "yes", "no"}, demand : SUBSET Files,
             still : SUBSET Files, awaited : SUBSET Modules,
             late : BOOLEAN, again : BOOLEAN]]

Init ==
    /\ open = {} /\ latest = {}
    /\ jdtls = "running" /\ available = TRUE /\ cached = FALSE
    /\ folders = {} /\ covered = Covered0 /\ registry = {} /\ retired = {}
    /\ markers = [m \in Modules |-> {}] /\ published = {}
    /\ armed = {} /\ served = {} /\ pending = <<>>
    /\ window = NoWindow
    /\ indexed = [r \in Roots |-> "no"]
    /\ session = NewSession
    /\ run = [r \in Runners |-> Idle]

----------------------------------------------------------------------------
(* The controller's task, from where it resumes to where it suspends.  Each *)
(* operator takes the session s and the task's locals j as they are by then. *)

Goto(r, s, j) ==
    /\ run' = [run EXCEPT ![r] = j]
    /\ session' = s
    /\ window' = NoWindow
    /\ UNCHANGED <<armed, pending, registry, folders, served>>

\* _take_phase: the pending modules of the first one's reactor root.
TakePhase(queue) == {m \in Modules \cap Range(queue) : RootOf[m] = RootOf[Head(queue)]}

\* The loop of _run: the next phase up to its wait for build-idle.  A session that
\* has hit a limit stops every phase that is queued, at once.
NextPhase(r, s) ==
    LET new == TakePhase(pending)
    IN  IF pending = <<>> \/ s.terminal # "none"
        THEN /\ pending' = <<>>
             /\ run' = [run EXCEPT ![r] = Idle]
        ELSE /\ pending' = Without(pending, new)
             /\ run' = [run EXCEPT ![r] =
                    [Idle EXCEPT !.pc = "idle", !.new = new, !.awaited = new \ published]]

\* The end of a phase: `unarmed` may be armed again, `dealtWith` are done.
PhaseOver(r, s, unarmed, dealtWith) ==
    /\ armed' = armed \ unarmed
    /\ session' = [s EXCEPT !.importing = FALSE]
    /\ served' = served \cup dealtWith \cup
                 (IF s.terminal # "none" THEN Range(pending) ELSE {})
    /\ NextPhase(r, s)
    /\ window' = NoWindow
    /\ UNCHANGED <<registry, folders>>

\* Mutant: a retryable stop leaves its modules armed.
UnarmedNever(r, s, reason) == {}

\* A retryable stop before anything was imported lets the next demand try again.
Unarmed(r, s, reason) ==
    IF reason \in Retryable /\ ~s.importing THEN run[r].new ELSE {}

Stop(r, s, reason) ==
    PhaseOver(r, s, Unarmed(r, s, reason),
              IF reason \notin Retryable \/ s.importing THEN run[r].new ELSE {})

\* _process raises, as the look-ups of _select may: contained, and the modules are
\* un-armed, whatever was imported for them.
Raises(r, s) == PhaseOver(r, s, run[r].new, {})

StopAtLimit(r, s, limit) == Stop(r, [s EXCEPT !.terminal = limit], limit)

\* _limit_reason: its possible results.
LimitReasons(s) ==
    IF s.used >= Budget THEN {"budget"}
    ELSE IF s.rounds >= Rounds THEN {"rounds"}
    ELSE IF s.rounds > 0 THEN {"none", "wall-clock"} ELSE {"none"}

\* _candidates: the dependencies of the demand files' modules and of every imported
\* module that are neither imported, covered nor retired ...
Frontier(demand) ==
    (UNION {Deps[m] : m \in {ModuleOf[f] : f \in demand} \cup registry})
        \ (registry \cup covered \cup retired)

\* ... and that some pom reports missing.
Candidates(demand) == Frontier(demand) \cap UNION {markers[m] : m \in Modules}

\* Any set that cutting a list of S at n elements can leave.
FirstOf(S, n) == {T \in SUBSET S : Cardinality(T) = Min({Cardinality(S), n})}

\* _round's batch and _import: registered and recorded, then sent to jdtls.
Import(r, s, j) ==
    \E batch \in FirstOf(Candidates(j.demand), Min({PerRound, Budget - s.used})) :
        /\ registry' = registry \cup batch
        /\ session' = [s EXCEPT !.used = @ + Cardinality(batch)]
        /\ folders' = IF available THEN folders \cup batch ELSE folders
        /\ run' = [run EXCEPT ![r] = [j EXCEPT !.pc = "sending", !.awaited = batch]]
        /\ window' = NoWindow
        /\ UNCHANGED <<armed, pending, served>>

\* The rest of _select, with the index (`built`) or without one.
Choose(r, s, j, built) ==
    LET frontier == IF built THEN Frontier(j.demand) ELSE {}
    IN  \/ frontier = {} /\ Stop(r, s, "no-candidates(none)")
        \/ /\ frontier # {} /\ Candidates(j.demand) = {}
           /\ IF j.late THEN Stop(r, s, "no-candidates(markers-pending)")
              ELSE IF j.again THEN Stop(r, s, "no-candidates(owner-has-jar)")
              ELSE Goto(r, s, [j EXCEPT !.pc = "quiet", !.again = TRUE])
        \/ /\ frontier # {} /\ Candidates(j.demand) # {}
           /\ \E limit \in LimitReasons(s) :
                IF limit = "none" THEN Import(r, s, j) ELSE StopAtLimit(r, s, limit)
        \/ Raises(r, s)

RootIn(j) == RootOf[CHOOSE m \in j.new : TRUE]

\* _index_for, then the candidates.
WithIndex(r, s, j) ==
    IF indexed[RootIn(j)] = "no" THEN Goto(r, s, [j EXCEPT !.pc = "index"])
    ELSE Choose(r, s, j, indexed[RootIn(j)] = "built")

\* A refresh is over: no demand is left, or the next round is selected.
Refreshed(r, s, j) ==
    IF j.still = {} THEN Stop(r, s, "clean")
    ELSE LET next == [j EXCEPT !.demand = j.still, !.still = {},
                             !.late = FALSE, !.again = FALSE]
         IN  IF next.awaited # {} THEN Goto(r, s, [next EXCEPT !.pc = "markers"])
             ELSE WithIndex(r, s, next)

\* Mutant: it asks again until it is answered.
NoAnswerAgain(r, s, j) == Goto(r, s, [j EXCEPT !.pc = "backoff", !.reply = "none"])

\* No usable answer: one retry, then the phase gives up.
NoAnswer(r, s, j) ==
    IF j.attempt = 1 THEN Goto(r, s, [j EXCEPT !.pc = "backoff", !.reply = "none"])
    ELSE Stop(r, s, IF s.terminal # "none" THEN s.terminal ELSE "no-fresh-diagnostics")

\* Mutant: the cap is tested before the first attempt only.
AskRetryUncapped(r, s, j) ==
    IF s.refreshes >= RefreshCap /\ j.attempt = 1 THEN StopAtLimit(r, s, "refresh-cap")
    ELSE LET asked == [s EXCEPT !.refreshes = @ + 1]
         IN  IF available
             THEN /\ run' = [run EXCEPT ![r] = [j EXCEPT !.pc = "refresh", !.reply = "none"]]
                  /\ session' = asked
                  /\ window' = [NoWindow EXCEPT !.file = j.file, !.open = TRUE]
                  /\ UNCHANGED <<armed, pending, registry, folders, served>>
             ELSE NoAnswer(r, asked, j)

\* Mutant: the retry does not count.
AskRetryFree(r, s, j) ==
    IF s.refreshes >= RefreshCap THEN StopAtLimit(r, s, "refresh-cap")
    ELSE LET asked == IF j.attempt = 1 THEN [s EXCEPT !.refreshes = @ + 1] ELSE s
         IN  IF available
             THEN /\ run' = [run EXCEPT ![r] = [j EXCEPT !.pc = "refresh", !.reply = "none"]]
                  /\ session' = asked
                  /\ window' = [NoWindow EXCEPT !.file = j.file, !.open = TRUE]
                  /\ UNCHANGED <<armed, pending, registry, folders, served>>
             ELSE NoAnswer(r, asked, j)

\* One attempt of _refresh_one: without jdtls there is no answer, and no wait.
Ask(r, s, j) ==
    IF s.refreshes >= RefreshCap THEN StopAtLimit(r, s, "refresh-cap")
    ELSE LET asked == [s EXCEPT !.refreshes = @ + 1]
         IN  IF available
             THEN /\ run' = [run EXCEPT ![r] = [j EXCEPT !.pc = "refresh", !.reply = "none"]]
                  /\ session' = asked
                  /\ window' = [NoWindow EXCEPT !.file = j.file, !.open = TRUE]
                  /\ UNCHANGED <<armed, pending, registry, folders, served>>
             ELSE NoAnswer(r, asked, j)

\* _refresh: the files one at a time.
Refresh(r, s, j) ==
    IF j.todo = {} THEN Refreshed(r, s, j)
    ELSE \E f \in j.todo :
            Ask(r, s, [j EXCEPT !.todo = @ \ {f}, !.file = f, !.attempt = 1])

\* The files to refresh: of the new modules at the probe, of the round afterwards.
Probe(r, s, j, files) ==
    \E todo \in FirstOf(files, RefreshesPerRound) :
        Refresh(r, s, [j EXCEPT !.todo = todo, !.still = {}])

----------------------------------------------------------------------------
(* The task's resumptions.                                                 *)

Resumes(r, place) ==
    /\ run[r].pc = place
    /\ UNCHANGED outside

Starts(r) ==
    /\ Resumes(r, "start")
    /\ NextPhase(r, session)
    /\ served' = IF session.terminal # "none" THEN served \cup Range(pending) ELSE served
    /\ UNCHANGED <<folders, registry, latest, armed, window, indexed, session>>

\* _wait_idle ends: build-idle, a session limit, or the wait's own budget.
IdleWaitEnds(r, files) ==
    /\ \/ Probe(r, session, run[r], files)
       \/ \E limit \in LimitReasons(session) :
            IF limit = "none" THEN Stop(r, session, "jdtls-busy")
            ELSE StopAtLimit(r, session, limit)
    /\ UNCHANGED <<latest, indexed>>

ProbeIdleEnds(r) ==
    /\ Resumes(r, "idle")
    /\ IdleWaitEnds(r, {f \in open \cap latest : ModuleOf[f] \in run[r].new})

BuildIdleEnds(r) ==
    /\ Resumes(r, "build")
    /\ IdleWaitEnds(r, run[r].demand \cap open)

\* Mutant: of whatever the document was.
AcceptsAnyText(r) == r = "main" /\ run[r].reply = "yes" /\ window.seen # None

\* Only the window's last publish, of a document that has not changed since.
Accepts(r) ==
    r = "main" /\ run[r].reply = "yes" /\ window.seen # None /\ window.seen.same

\* send_refresh returns to _refresh_one.
RefreshEnds(r) ==
    /\ Resumes(r, "refresh") /\ run[r].reply # "none"
    /\ LET j == [run[r] EXCEPT !.reply = "none"]
           f == run[r].file
       IN  IF Accepts(r)
           THEN /\ latest' = IF window.seen.demand THEN latest \cup {f} ELSE latest \ {f}
                /\ Refresh(r, session, IF window.seen.demand
                                       THEN [j EXCEPT !.still = @ \cup {f}] ELSE j)
           ELSE NoAnswer(r, session, j) /\ UNCHANGED latest
    /\ UNCHANGED indexed

BackoffEnds(r) ==
    /\ Resumes(r, "backoff")
    /\ Ask(r, session, [run[r] EXCEPT !.attempt = @ + 1])
    /\ UNCHANGED <<latest, indexed>>

\* Mutant: the wait has no end of its own.
MarkersEndUntimed(r) ==
    /\ Resumes(r, "markers") /\ run[r].awaited = {}
    /\ WithIndex(r, session, run[r])
    /\ UNCHANGED <<latest, indexed>>

\* _wait_markers ends: every awaited pom has published, or the wait is over.
MarkersEnd(r) ==
    /\ Resumes(r, "markers")
    /\ WithIndex(r, session, [run[r] EXCEPT !.late = run[r].awaited # {}])
    /\ UNCHANGED <<latest, indexed>>

IndexBuilt(r) ==
    /\ Resumes(r, "index")
    /\ \E result \in {"built", "failed"} :
        /\ indexed' = [indexed EXCEPT ![RootIn(run[r])] = result]
        /\ Choose(r, session, run[r], result = "built")
    /\ UNCHANGED latest

QuietEnds(r) ==
    /\ Resumes(r, "quiet")
    /\ Choose(r, session, run[r], TRUE)
    /\ UNCHANGED <<latest, indexed>>

\* didChangeWorkspaceFolders is written out: the round counts.
ImportSent(r) ==
    /\ Resumes(r, "sending")
    /\ Goto(r, [session EXCEPT !.rounds = @ + 1, !.importing = TRUE],
            [run[r] EXCEPT !.pc = "build"])
    /\ UNCHANGED <<latest, indexed>>

----------------------------------------------------------------------------
(* What the reader and the client bring in.                                *)

controller == <<folders, registry, pending, indexed, session, run, served, armed>>
process == <<jdtls, available, covered, retired>>

\* The first half of note_publish: the window takes the publish, with the document
\* as it is now.  `current`: computed after the last import.
InWindow(f, demand, current) ==
    IF window.open /\ window.file = f
    THEN [window EXCEPT !.seen = IF f \in open
            THEN [demand |-> demand, current |-> current, same |-> TRUE] ELSE None]
    ELSE window

\* Mutant: a module is armed though nobody will run it.
NotePublishNoKick(f, demand) ==
    /\ latest' = IF f \in open THEN (IF demand THEN latest \cup {f} ELSE latest \ {f})
                 ELSE latest
    /\ IF f \in open /\ demand /\ ModuleOf[f] \notin armed
       THEN /\ armed' = armed \cup {ModuleOf[f]}
            /\ pending' = Append(pending, ModuleOf[f])
       ELSE UNCHANGED <<armed, pending>>
    /\ UNCHANGED run

\* The second half: an open file's demand arms its module, and starts a runner
\* unless one is there.
NotePublish(f, demand) ==
    /\ latest' = IF f \in open THEN (IF demand THEN latest \cup {f} ELSE latest \ {f})
                 ELSE latest
    /\ IF f \in open /\ demand /\ ModuleOf[f] \notin armed
       THEN /\ armed' = armed \cup {ModuleOf[f]}
            /\ pending' = Append(pending, ModuleOf[f])
            /\ run' = IF run["main"].pc = "none"
                      THEN [run EXCEPT !["main"] = [Idle EXCEPT !.pc = "start"]] ELSE run
       ELSE UNCHANGED <<armed, pending, run>>

\* jdtls publishes on its own, from before or after the last import.  It does not
\* between a refresh's own publish of the file and the answer.
Publishes(f) ==
    /\ jdtls # "exited"
    /\ ~(window.open /\ window.file = f /\ window.own)
    /\ \E demand, current \in BOOLEAN :
        /\ window' = InWindow(f, demand, current)
        /\ NotePublish(f, demand)
    /\ cached' = TRUE
    /\ UNCHANGED <<open, process, markers, published, folders, registry, indexed, session,
                   served>>

\* jdtls re-validates the file of the window ...
RefreshPublishes ==
    /\ jdtls # "exited" /\ window.open /\ ~window.own
    /\ \E demand \in BOOLEAN :
        /\ window' = [InWindow(window.file, demand, TRUE) EXCEPT !.own = TRUE]
        /\ NotePublish(window.file, demand)
    /\ cached' = TRUE
    /\ UNCHANGED <<open, process, markers, published, folders, registry, indexed, session,
                   served>>

\* Mutant: the answer leaves the window open.
WindowKept == [window EXCEPT !.own = FALSE]

\* The response hook closes the window, before any later message.
WindowClosed == [window EXCEPT !.open = FALSE]

\* ... and answers, or fails.  A publish always comes before its answer.
RefreshReplies ==
    /\ jdtls # "exited"
    /\ run["main"].pc = "refresh" /\ run["main"].reply = "none"
    /\ \E ok \in {"yes", "no"} :
        /\ ok = "yes" => window.own \/ window.seen = None
        /\ run' = [run EXCEPT !["main"].reply = ok]
    /\ window' = WindowClosed
    /\ UNCHANGED <<outside, folders, registry, latest, armed, pending, indexed, session,
                   served>>

\* The request's own timeout.
RefreshTimesOut ==
    /\ run["main"].pc = "refresh" /\ run["main"].reply = "none"
    /\ run' = [run EXCEPT !["main"].reply = "no"]
    /\ UNCHANGED <<outside, folders, registry, latest, armed, pending, window, indexed,
                   session, served>>

\* note_pom: a module jdtls has imported reports what its pom misses.
PomPublishes(m) ==
    /\ jdtls # "exited" /\ m \in covered \cup folders
    /\ \E missing \in SUBSET Deps[m] : markers' = [markers EXCEPT ![m] = missing]
    /\ published' = published \cup {m}
    /\ run' = [r \in Runners |-> [run[r] EXCEPT !.awaited = @ \ {m}]]
    /\ UNCHANGED <<open, process, cached, folders, registry, latest, armed, pending,
                   window, indexed, session, served>>

\* The document's digest may change with an edit, and is None while it is closed.
Redigested(f, same) ==
    IF window.file = f /\ window.seen # None THEN [window EXCEPT !.seen.same = same]
    ELSE window

DidOpen(f) ==
    /\ f \notin open /\ open' = open \cup {f}
    /\ \E same \in BOOLEAN : window' = Redigested(f, same)
    /\ UNCHANGED <<process, cached, markers, published, latest, controller>>

DidChange(f) ==
    /\ f \in open
    /\ \E same \in BOOLEAN : window' = Redigested(f, same)
    /\ UNCHANGED <<open, process, cached, markers, published, latest, controller>>

DidClose(f) ==
    /\ f \in open /\ open' = open \ {f}
    /\ window' = Redigested(f, FALSE)
    /\ UNCHANGED <<process, cached, markers, published, latest, controller>>

\* Mutant: the covered folders stay registered.
TakenNone(group) == {}

\* take_covered_by: the dependency folders a group covers.
TakenBy(group) == registry \cap group

\* add_module_if_new or expand_full_workspace adds a group, and removes in the same
\* event the dependency folders it covers.
ExpandGroup(group) ==
    /\ available /\ ~(group \subseteq covered)
    /\ covered' = covered \cup group
    /\ registry' = registry \ TakenBy(group)
    /\ retired' = retired \cup TakenBy(group)
    /\ folders' = folders \ TakenBy(group)
    /\ UNCHANGED <<open, jdtls, available, cached, markers, published, latest, armed,
                   pending, window, indexed, session, run, served>>

----------------------------------------------------------------------------
(* The end of jdtls.                                                       *)

\* reset cancels the tasks; but the cancel of a task that waits for a reply cancels
\* the request's future, which _request takes for stop()'s doing: the task goes on
\* as if jdtls had not answered.
Reset ==
    /\ run' = [main |-> Idle,
               orphan |-> IF run["main"].pc = "refresh"
                          THEN [run["main"] EXCEPT !.reply = "no"] ELSE run["orphan"]]
    /\ registry' = {} /\ retired' = {}
    /\ markers' = [m \in Modules |-> {}] /\ published' = {}
    /\ latest' = {} /\ armed' = {} /\ pending' = <<>> /\ served' = {}
    /\ window' = NoWindow
    /\ indexed' = [r \in Roots |-> "no"]
    /\ session' = NewSession

\* _mark_stopped, with its early return.
MarkStopped ==
    /\ available' = FALSE /\ cached' = FALSE
    /\ IF available \/ cached THEN Reset
       ELSE UNCHANGED <<run, registry, retired, markers, published, latest, armed,
                        pending, window, indexed, session, served>>
    /\ UNCHANGED <<open, folders, covered>>

JdtlsStops == jdtls = "running" /\ jdtls' = "stopping" /\ MarkStopped
JdtlsExits == jdtls # "exited" /\ jdtls' = "exited" /\ MarkStopped

\* A write to jdtls failed.
SendFails ==
    /\ available /\ available' = FALSE
    /\ UNCHANGED <<open, jdtls, cached, covered, retired, markers, published, latest,
                   window, controller>>

TaskRuns(r) ==
    \/ Starts(r) \/ ProbeIdleEnds(r) \/ BuildIdleEnds(r) \/ RefreshEnds(r)
    \/ BackoffEnds(r) \/ MarkersEnd(r) \/ IndexBuilt(r) \/ QuietEnds(r) \/ ImportSent(r)

Next ==
    \/ \E r \in Runners : TaskRuns(r)
    \/ RefreshPublishes \/ RefreshReplies \/ RefreshTimesOut
    \/ \E f \in Files : Publishes(f) \/ DidOpen(f) \/ DidChange(f) \/ DidClose(f)
    \/ \E m \in Modules : PomPublishes(m)
    \/ \E g \in Groups : ExpandGroup(g)
    \/ JdtlsStops \/ JdtlsExits \/ SendFails

\* Every wait of the task ends, at the latest by its own timeout.
Fairness == WF_vars(RefreshTimesOut) /\ \A r \in Runners : WF_vars(TaskRuns(r))

Spec == Init /\ [][Next]_vars /\ Fairness

----------------------------------------------------------------------------
(* Properties.                                                             *)

\* A module that waits for its phase has a runner that will come to it.
PendingHasRunner == pending # <<>> => run["main"].pc # "none"

\* An armed module is never stranded: it waits for a phase, is in one, or a phase of
\* this session has dealt with it for good.
ArmedIsServed ==
    armed \subseteq served \cup Range(pending) \cup UNION {run[r].new : r \in Runners}

\* The limits hold for the whole session, across phases, re-arms and retries.
LimitsHold ==
    session.rounds <= Rounds /\ session.refreshes <= RefreshCap /\ session.used <= Budget

\* The modules imported over the session, retired ones included, are what the budget
\* counts; and jdtls's workspace holds just those that no group covers.
FoldersMatch ==
    /\ session.used = Cardinality(registry \cup retired)
    /\ available => folders = registry
    /\ registry \cap covered = {}

\* "An unsolicited publish in between never decides the round": a verdict that would
\* be accepted was computed after the last import.
VerdictIsCurrent == Accepts("main") => window.seen.current

InPhase(r) == run[r].pc \notin {"none", "start", "idle"}

\* What is left of a phase at most: every refresh the session may still ask for, and
\* the waits from the task's place to the next one.
Stage(j) ==
    IF j.pc = "refresh" /\ j.reply = "none" THEN 9
    ELSE [refresh |-> 8, backoff |-> 7, markers |-> 6, index |-> 5, quiet |-> 4,
          sending |-> 3, build |-> 2][j.pc]

WorkLeft(r) == 10 * (RefreshCap - session.refreshes) + Stage(run[r])

Advances(r) ==
    InPhase(r) /\ InPhase(r)' /\ jdtls' = jdtls =>
        /\ 0 < WorkLeft(r)' /\ WorkLeft(r)' <= WorkLeft(r)
        /\ WorkLeft(r)' = WorkLeft(r) =>
             run'[r] = [run[r] EXCEPT !.awaited = run'[r].awaited]

\* A phase cannot go round in circles: as long as it lasts every step of its task takes
\* something from what is left, and no publish, edit or other task gives any back.
PhaseAdvances == [][\A r \in Runners : Advances(r)]_vars

\* Every phase comes to its end, whatever is published, edited or closed meanwhile:
\* the runner is back at the start of a phase, or gone.
PhaseEnds == \A r \in Runners :
    run[r].pc \notin {"none", "idle"} ~> run[r].pc \in {"none", "idle"}
=============================================================================
