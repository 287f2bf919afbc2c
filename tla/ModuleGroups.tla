---------------------------- MODULE ModuleGroups ----------------------------
(***************************************************************************)
(* The modules jdtls is told about while it runs: ModuleRegistry, the two  *)
(* ways a Maven group is expanded (expand_full_workspace at the start,     *)
(* add_module_if_new on demand), the requests that wait for a module       *)
(* (_ensure_module_and_forward), and the snapshot by which a session tells *)
(* jdtls what changed on disk since the last one (_kick_module_diff,       *)
(* _apply_module_diff, ModuleSnapshot).                                    *)
(*                                                                         *)
(* A write to jdtls happens when send_notification is called; the caller   *)
(* is then suspended in drain().  NewSession is the server, and with it    *)
(* jdtls, killed at any moment and started again; only the snapshots and   *)
(* jdtls's own data survive.                                               *)
(***************************************************************************)
EXTENDS Naturals, Sequences, FiniteSets, Filters

CONSTANTS
    Dirs,          \* the directories, each with a pom.xml
    Parent,        \* the directory above, or None
    Aggregators,   \* those whose pom.xml has <modules>
    Git,           \* those with .git
    ClientRoot,    \* the client's workspace root
    Initials,      \* modules the first opened file may be in
    Wanted,        \* modules that requests are about
    Importable,    \* bound: modules jdtls gets to import
    Changing,      \* bound: modules whose files change between sessions
    Requests,
    MaxGroups,     \* _MAX_EXPANDED_GROUPS
    Sessions,      \* bound on sessions, hence on the versions of a module
    None

ASSUME NoneOutside == None \notin Dirs \cup Requests \cup Nat /\ \A S \in SUBSET Requests : S # None
ASSUME WantedInDirs == Wanted \subseteq Dirs /\ Initials \subseteq Dirs
ASSUME RootInDirs == ClientRoot \in Dirs
\* A directory has one directory above it, and going up ends.
ASSUME DirsAreTrees ==
    /\ Parent \in [Dirs -> Dirs \cup {None}]
    /\ \A S \in (SUBSET Dirs) \ {{}} : \E d \in S : Parent[d] \notin S
ASSUME LimitPositive == MaxGroups \in Nat \ {0}
ASSUME SessionsPositive == Sessions \in Nat \ {0}

VARIABLES
    available,   \* proxy._available
    alive,       \* external: jdtls runs and its messages are read
    initial,     \* proxy._initial_module_uri
    start,       \* where _lazy_start_jdtls is
    states,      \* modules._states
    events,      \* modules._ready_events: the requests waiting on the event, or None
    expanded,    \* proxy._expanded_groups
    told,        \* external: the workspace folders jdtls has, in the order it got them
    req,         \* the requests in progress
    results,     \* proxy._module_diff_results: the versions compared, or None
    pending,     \* proxy._pending_diff_tasks
    running,     \* diff tasks that have not finished
    apply,       \* the _apply_module_diff task of each module
    imported,    \* external: modules jdtls has finished importing in this session
    known,       \* external: per initial module, hence per data directory, the version of
                 \* each module that jdtls's own data holds, or None
    disk,        \* the version of the module's files
    snap,        \* the stored snapshot's version, or None
    session,
    crossed,     \* history: a group was expanded while expand_full_workspace was suspended
    early,       \* history: modules made READY by a full answer and not imported since
    unannounced, \* history: modules that became READY without a diff to apply
    savedFor,    \* history: the data directory of the session that saved the snapshot
    unsaid       \* history: modules whose snapshot was saved with jdtls's data behind,
                 \* since there was none to compare with or the write had failed

clientVars == <<available, alive, initial, start, expanded, told, crossed>>
registryVars == <<states, events>>
diffVars == <<results, pending, running, apply>>
diskVars == <<known, disk, snap, session, savedFor, unsaid>>
importVars == <<imported, early>>
groupVars == <<clientVars, registryVars, req, diffVars, importVars, unannounced, diskVars>>

Versions == 0 .. Sessions - 1

----------------------------------------------------------------------------
(* The directory walks.                                                    *)

Ancestors[d \in Dirs] == {d} \cup IF Parent[d] = None THEN {} ELSE Ancestors[Parent[d]]
Under(d, a) == a \in Ancestors[d]
Deepest(S) == CHOOSE d \in S : \A a \in S : Under(d, a)
Topmost(S) == CHOOSE d \in S : \A a \in S : Under(a, d)

\* The nearest ancestor with .git; else the top of the chain of poms.
RepoBoundary(m) ==
    IF Ancestors[m] \cap Git # {} THEN Deepest(Ancestors[m] \cap Git) ELSE Topmost(Ancestors[m])

\* _find_maven_group_root: the tightest aggregator strictly above the module and
\* strictly below the bound.
GroupRoot(m) ==
    LET boundary == RepoBoundary(m)
        bound == IF Under(ClientRoot, boundary) THEN ClientRoot ELSE boundary
        groups == {a \in Ancestors[m] \ {m} : a \in Aggregators /\ Under(a, bound) /\ a # bound}
    IN  IF ~Under(m, ClientRoot) \/ m = ClientRoot THEN ClientRoot
        ELSE IF groups = {} THEN m ELSE Deepest(groups)

----------------------------------------------------------------------------
(* ModuleRegistry.                                                         *)

IsReady(m) == states[m] = "ready"
WasAdded(m) == states[m] # "unknown"

\* Mutant: a fresh event each time, in place of setdefault.
MarkAddedFresh(ms) ==
    /\ states' = [m \in Dirs |-> IF m \in ms THEN "added" ELSE states[m]]
    /\ events' = [m \in Dirs |-> IF m \in ms THEN {} ELSE events[m]]

\* mark_added overwrites READY; an event that is there stays.
MarkAdded(ms) ==
    /\ states' = [m \in Dirs |-> IF m \in ms THEN "added" ELSE states[m]]
    /\ events' = [m \in Dirs |-> IF m \in ms /\ events[m] = None THEN {} ELSE events[m]]

\* The requests mark_ready(m) wakes.
Woken(m) == IF events[m] = None THEN {} ELSE events[m]
MarkReady(m) ==
    /\ states' = [states EXCEPT ![m] = "ready"]
    /\ events' = [events EXCEPT ![m] = None]

----------------------------------------------------------------------------
(* The workspace folders.                                                  *)

\* Mutant: nothing is removed.
AnnounceOnly(g) == told' = Append(told, g)

\* Mutant: the folders above the group are removed, not those below.
AnnounceInverted(g) ==
    told' = Append(Without(told, {d \in Dirs : WasAdded(d) /\ Under(g, d) /\ d # g}), g)

\* One didChangeWorkspaceFolders: the group in, every tracked folder it covers out.
Covered(g) == {d \in Dirs : WasAdded(d) /\ Under(d, g) /\ d # g}
Announce(g) == told' = Append(Without(told, Covered(g)), g)

\* Mutant: no limit.
MayExpandAny(m) == ~WasAdded(m) /\ GroupRoot(m) \notin expanded

MayExpand(m) ==
    ~WasAdded(m) /\ GroupRoot(m) \notin expanded /\ Cardinality(expanded) < MaxGroups

\* The write may fail: jdtls is then no longer available, and nothing is told.
Sends(announcement) ==
    \/ announcement /\ UNCHANGED available
    \/ available' = FALSE /\ UNCHANGED told

\* add_module_if_new up to its await.
AddModule(m) ==
    /\ MarkAdded({m, GroupRoot(m)})
    /\ expanded' = expanded \cup {GroupRoot(m)}
    /\ Sends(Announce(GroupRoot(m)))
    /\ crossed' = (crossed \/ start = "drain")

\* start with the first file's module as its folder, then, with no await in between,
\* expand_full_workspace up to its own: the limit is not looked at, and the group is not
\* on record before that await is over.
JdtlsStarts ==
    /\ start = "off"
    /\ \E m \in Initials :
        /\ initial' = m /\ MarkAdded({m, GroupRoot(m)}) /\ alive' = TRUE
        /\ \/ /\ GroupRoot(m) = m
              /\ told' = <<m>> /\ available' = TRUE
              /\ start' = "done" /\ expanded' = {m}
           \/ /\ GroupRoot(m) # m
              /\ \/ /\ available' = TRUE
                    /\ told' = IF Under(m, GroupRoot(m)) THEN <<GroupRoot(m)>>
                               ELSE <<m, GroupRoot(m)>>
                 \/ told' = <<m>> /\ available' = FALSE
              /\ start' = "drain" /\ UNCHANGED expanded
    /\ UNCHANGED <<crossed, req, diffVars, importVars, unannounced, diskVars>>

ExpandFullEnds ==
    /\ start = "drain"
    /\ start' = "done" /\ expanded' = expanded \cup {GroupRoot(initial)}
    /\ UNCHANGED <<available, alive, initial, told, crossed, registryVars, req, diffVars, importVars,
                   unannounced, diskVars>>

----------------------------------------------------------------------------
(* _ensure_module_and_forward.  The method of a request is looked at only    *)
(* when jdtls answers it.                                                  *)

Methods == {"full", "light"}
Passive == [pc |-> "none", new |-> None, said |-> "same"]
Idle == [pc |-> "idle", mod |-> None]
Goes(r, pc) == req' = [req EXCEPT ![r].pc = pc]
Ends(r) == req' = [req EXCEPT ![r] = Idle]

\* From the check of is_ready to the first await.
Request(r, m) ==
    /\ req[r].pc = "idle" /\ available
    /\ LET now(pc) == req' = [req EXCEPT ![r] = [pc |-> pc, mod |-> m]]
       IN  \/ /\ IsReady(m) /\ now("hot")
              /\ UNCHANGED <<available, expanded, told, crossed, registryVars>>
           \/ /\ ~IsReady(m) /\ MayExpand(m) /\ now("drain")
              /\ AddModule(m)
           \/ /\ ~IsReady(m) /\ ~MayExpand(m) /\ now("first")
              /\ UNCHANGED <<available, expanded, told, crossed, registryVars>>
    /\ UNCHANGED <<alive, initial, start, diffVars, importVars, unannounced, diskVars>>

\* add_module_if_new after its await: only now is there a diff task.
AddModuleEnds(r) ==
    /\ req[r].pc = "drain"
    /\ Goes(r, "first")
    /\ running' = running \cup {req[r].mod} /\ pending' = pending \cup {req[r].mod}
    /\ UNCHANGED <<clientVars, registryVars, results, apply, importVars, unannounced, diskVars>>

\* Mutant: a single-file method says that the project is indexed.
AnyMethodConfirms(method) == TRUE

\* can_mark_ready: _LIGHTWEIGHT_METHODS succeed before the project is imported.
Confirms(method) == method = "full"

\* What the requests that an event wakes go on with.
Resumed(woken) == [q \in Requests |-> IF q \in woken THEN [req[q] EXCEPT !.pc = "woken"] ELSE req[q]]

\* A result, maybe an empty one: [] is not None.  The module is READY from here on,
\* whatever the diff task does, and whether or not jdtls has imported it.
Answered(r) ==
    /\ req[r].pc \in {"hot", "first", "retry"} /\ alive
    /\ \E method \in Methods :
        LET m == req[r].mod
        IN  IF req[r].pc # "hot" /\ Confirms(method)
            THEN /\ MarkReady(m)
                 /\ req' = [Resumed(Woken(m)) EXCEPT ![r] = Idle]
                 /\ unannounced' = IF IsReady(m) THEN unannounced ELSE unannounced \cup {m}
                 /\ early' = IF method = "full" /\ m \notin imported THEN early \cup {m} ELSE early
            ELSE Ends(r) /\ UNCHANGED <<registryVars, unannounced, early>>
    /\ UNCHANGED <<clientVars, diffVars, imported, diskVars>>

\* null, an error, a timeout or a dead process: the first time the request waits for
\* the module unless it has become ready meanwhile.
NotAnswered(r) ==
    /\ req[r].pc \in {"hot", "first", "retry"}
    /\ LET m == req[r].mod
       IN  \/ /\ req[r].pc # "first" /\ Ends(r) /\ UNCHANGED registryVars
           \/ /\ req[r].pc = "first" /\ IsReady(m)
              /\ Goes(r, "retry") /\ UNCHANGED registryVars
           \/ /\ req[r].pc = "first" /\ ~IsReady(m)
              /\ Goes(r, "wait")
              /\ events' = [events EXCEPT ![m] = Woken(m) \cup {r}]
              /\ UNCHANGED states
    /\ UNCHANGED <<clientVars, diffVars, importVars, unannounced, diskVars>>

\* wait_until_ready returns, woken or after its timeout; the request is sent once more.
WaitEnds(r) ==
    /\ req[r].pc \in {"wait", "woken"}
    /\ Goes(r, "retry")
    /\ events' = [m \in Dirs |-> IF events[m] = None THEN None ELSE events[m] \ {r}]
    /\ UNCHANGED <<clientVars, states, diffVars, importVars, unannounced, diskVars>>

----------------------------------------------------------------------------
(* jdtls's import and publishes, and the diff.                             *)

\* External: jdtls imports a module some folder covers; files its data does not know
\* yet are read from disk, the others are taken as it knows them.
ImportModule(m) ==
    /\ alive /\ m \in Importable \ imported
    /\ \E i \in DOMAIN told : Under(m, told[i])
    /\ imported' = imported \cup {m} /\ early' = early \ {m}
    /\ known' = [known EXCEPT ![initial][m] = IF @ = None THEN disk[m] ELSE @]
    /\ UNCHANGED <<clientVars, registryVars, req, diffVars, unannounced, disk, snap, session,
                   savedFor, unsaid>>

ApplyAt(m, pc) == apply' = [apply EXCEPT ![m].pc = pc]

\* said: whether jdtls knows of what is about to be saved (history).
Sending(m, d, said) == apply' = [apply EXCEPT ![m] = [pc |-> "sent", new |-> d.new, said |-> said]]

\* Code 16 says that the Maven project is not resolved yet.
PublishConfirms(nonProject) == ~nonProject

\* _on_jdtls_diagnostics, as far as modules go.  External: without code 16 only once
\* the module is imported.
OnJdtlsDiagnostics(m) ==
    /\ alive
    /\ \E nonProject \in BOOLEAN :
        /\ m \notin imported => nonProject
        /\ PublishConfirms(nonProject)
    /\ MarkReady(m)
    /\ req' = Resumed(Woken(m))
    /\ IF IsReady(m) \/ apply[m].pc # "none" THEN UNCHANGED apply ELSE ApplyAt(m, "fired")
    /\ UNCHANGED <<clientVars, results, pending, running, importVars, unannounced, diskVars>>

\* Mutant: the task's entry stays after it is done.
DiffEndsKeepsPending(m) ==
    /\ m \in running
    /\ running' = running \ {m}
    /\ \/ results' = [results EXCEPT ![m] = [old |-> snap[m], new |-> disk[m]]]
       \/ UNCHANGED results
    /\ UNCHANGED <<clientVars, registryVars, req, apply, pending, importVars, unannounced, diskVars>>

\* _kick_module_diff's executor returns: a result, or None (too many files, an error).
DiffEnds(m) ==
    /\ m \in running
    /\ running' = running \ {m} /\ pending' = pending \ {m}
    /\ \/ results' = [results EXCEPT ![m] = [old |-> snap[m], new |-> disk[m]]]
       \/ UNCHANGED results
    /\ UNCHANGED <<clientVars, registryVars, req, apply, importVars, unannounced, diskVars>>

\* The write of the changes up to d.new; it goes nowhere when jdtls is dead.
Says(m, d) ==
    \/ /\ alive /\ Sending(m, d, "yes")
       /\ known' = [known EXCEPT ![initial][m] = d.new] /\ UNCHANGED available
    \/ available' = FALSE /\ Sending(m, d, "no") /\ UNCHANGED known

\* Mutant: the snapshot is saved before the changes are written.
SaveThenNotify(m) ==
    LET d == results[m]
    IN  /\ results' = [results EXCEPT ![m] = None]
        /\ Sending(m, d, "yes")
        /\ snap' = [snap EXCEPT ![m] = d.new] /\ savedFor' = [savedFor EXCEPT ![m] = initial]
        /\ UNCHANGED <<available, known, unsaid>>

\* _apply_module_diff has the pair: jdtls is told of the changes, if there are any to
\* compare with, and only then is the snapshot saved.
Notify(m) ==
    LET d == results[m]
    IN  /\ results' = [results EXCEPT ![m] = None]
        /\ \/ /\ d.old = None
              /\ Sending(m, d, IF known[initial][m] = d.new THEN "yes" ELSE "no")
              /\ UNCHANGED <<available, known>>
           \/ d.old = d.new /\ Sending(m, d, "same") /\ UNCHANGED <<available, known>>
           \/ d.old \notin {None, d.new} /\ Says(m, d)
        /\ UNCHANGED <<snap, savedFor, unsaid>>

\* Mutant: no await of the task that is still running.
ApplyRunsOnce(m) ==
    /\ apply[m].pc = "fired"
    /\ \/ results[m] # None /\ Notify(m) /\ UNCHANGED <<pending, unannounced>>
       \/ /\ results[m] = None /\ ApplyAt(m, "none")
          /\ UNCHANGED <<pending, unannounced, results, available, known, unsaid, snap, savedFor>>
    /\ UNCHANGED <<alive, initial, start, expanded, told, crossed, registryVars, req, running,
                   importVars, disk, session>>

\* _apply_module_diff starts: it takes the result, or the task that will give it; a
\* module whose diff task does not exist yet is passed over.
ApplyRuns(m) ==
    /\ apply[m].pc = "fired"
    /\ \/ results[m] # None /\ Notify(m) /\ UNCHANGED <<pending, unannounced>>
       \/ /\ results[m] = None /\ m \in pending
          /\ pending' = pending \ {m} /\ ApplyAt(m, "await")
          /\ UNCHANGED <<unannounced, results, available, known, unsaid, snap, savedFor>>
       \/ /\ results[m] = None /\ m \notin pending
          /\ ApplyAt(m, "none")
          /\ unannounced' = IF \E r \in Requests : req[r].pc = "drain" /\ req[r].mod = m
                            THEN unannounced \cup {m} ELSE unannounced
          /\ UNCHANGED <<pending, results, available, known, unsaid, snap, savedFor>>
    /\ UNCHANGED <<alive, initial, start, expanded, told, crossed, registryVars, req, running,
                   importVars, disk, session>>

ApplyAwaitEnds(m) ==
    /\ apply[m].pc = "await" /\ m \notin running
    /\ \/ results[m] # None /\ Notify(m)
       \/ results[m] = None /\ ApplyAt(m, "none")
          /\ UNCHANGED <<results, available, known, unsaid, snap, savedFor>>
    /\ UNCHANGED <<alive, initial, start, expanded, told, crossed, registryVars, req, pending,
                   running, importVars, unannounced, disk, session>>

\* ModuleSnapshot.save replaces the file in one step, or raises.
ApplySaves(m) ==
    /\ apply[m].pc = "sent"
    /\ apply' = [apply EXCEPT ![m] = Passive]
    /\ LET said == apply[m].said
       IN  \/ /\ snap' = [snap EXCEPT ![m] = apply[m].new]
              /\ savedFor' = IF said = "same" THEN savedFor ELSE [savedFor EXCEPT ![m] = initial]
              /\ unsaid' = CASE said = "yes" -> unsaid \ {m}
                             [] said = "no" -> unsaid \cup {m}
                             [] said = "same" -> unsaid
           \/ UNCHANGED <<snap, savedFor, unsaid>>
    /\ UNCHANGED <<clientVars, registryVars, req, results, pending, running, importVars, unannounced,
                   known, disk, session>>

----------------------------------------------------------------------------
(* Sessions.                                                               *)

\* jdtls's output ends.
JdtlsExits ==
    /\ alive /\ alive' = FALSE /\ available' = FALSE
    /\ UNCHANGED <<initial, start, expanded, told, crossed, registryVars, req, diffVars, importVars,
                   unannounced, diskVars>>

\* A write of another part of the server fails: what jdtls sends is still read.
WriteFails ==
    /\ available /\ available' = FALSE
    /\ UNCHANGED <<alive, initial, start, expanded, told, crossed, registryVars, req, diffVars,
                   importVars, unannounced, diskVars>>

Forgotten ==
    /\ available' = FALSE /\ alive' = FALSE /\ initial' = None /\ start' = "off"
    /\ states' = [m \in Dirs |-> "unknown"] /\ events' = [m \in Dirs |-> None]
    /\ expanded' = {} /\ told' = <<>> /\ crossed' = FALSE
    /\ req' = [r \in Requests |-> Idle]
    /\ results' = [m \in Dirs |-> None] /\ pending' = {} /\ running' = {}
    /\ apply' = [m \in Dirs |-> Passive]
    /\ imported' = {} /\ early' = {} /\ unannounced' = {}

\* The server is gone, at any moment; before the next session files change on disk.
NewSession ==
    /\ session < Sessions /\ session' = session + 1
    /\ Forgotten
    /\ \E changed \in SUBSET Changing :
        disk' = [m \in Dirs |-> IF m \in changed THEN disk[m] + 1 ELSE disk[m]]
    /\ UNCHANGED <<known, snap, savedFor, unsaid>>

GroupsInit ==
    /\ available = FALSE /\ alive = FALSE /\ initial = None /\ start = "off"
    /\ states = [m \in Dirs |-> "unknown"] /\ events = [m \in Dirs |-> None]
    /\ expanded = {} /\ told = <<>> /\ crossed = FALSE
    /\ req = [r \in Requests |-> Idle]
    /\ results = [m \in Dirs |-> None] /\ pending = {} /\ running = {}
    /\ apply = [m \in Dirs |-> Passive]
    /\ imported = {} /\ early = {} /\ unannounced = {}
    /\ known = [i \in Initials |-> [m \in Dirs |-> None]]
    /\ disk = [m \in Dirs |-> 0] /\ snap = [m \in Dirs |-> None]
    /\ savedFor = [m \in Dirs |-> None] /\ unsaid = {} /\ session = 1

GroupsNext ==
    \/ JdtlsStarts \/ ExpandFullEnds \/ JdtlsExits \/ WriteFails \/ NewSession
    \/ \E r \in Requests :
        \/ \E m \in Wanted : Request(r, m)
        \/ AddModuleEnds(r) \/ Answered(r) \/ NotAnswered(r) \/ WaitEnds(r)
    \/ \E m \in Wanted :
        \/ ImportModule(m) \/ OnJdtlsDiagnostics(m)
        \/ DiffEnds(m) \/ ApplyRuns(m) \/ ApplyAwaitEnds(m) \/ ApplySaves(m)

\* The bound on sessions is reached and jdtls is gone.
LastSession == session = Sessions /\ start # "off" /\ ~alive /\ UNCHANGED groupVars

GroupsSpec == GroupsInit /\ [][GroupsNext \/ LastSession]_groupVars

----------------------------------------------------------------------------
(* Properties.                                                             *)

GroupsTypeOK ==
    /\ available \in BOOLEAN /\ alive \in BOOLEAN /\ initial \in Initials \cup {None}
    /\ crossed \in BOOLEAN /\ start \in {"off", "drain", "done"}
    /\ states \in [Dirs -> {"unknown", "added", "ready"}]
    /\ events \in [Dirs -> (SUBSET Requests) \cup {None}]
    /\ expanded \subseteq Dirs /\ told \in Seq(Dirs)
    /\ req \in [Requests -> [pc : {"idle", "hot", "drain", "first", "wait", "woken", "retry"},
                             mod : Wanted \cup {None}]]
    /\ results \in [Dirs -> [old : Versions \cup {None}, new : Versions] \cup {None}]
    /\ pending \subseteq running /\ running \subseteq Wanted
    /\ apply \in [Dirs -> [pc : {"none", "fired", "await", "sent"}, new : Versions \cup {None},
                        said : {"yes", "no", "same"}]]
    /\ imported \subseteq Wanted /\ early \subseteq Wanted
    /\ unannounced \subseteq Wanted /\ unsaid \subseteq Wanted
    /\ known \in [Initials -> [Dirs -> Versions \cup {None}]]
    /\ disk \in [Dirs -> Versions] /\ snap \in [Dirs -> Versions \cup {None}]
    /\ savedFor \in [Dirs -> Initials \cup {None}]
    /\ session \in 1 .. Sessions

\* "Hard cap": add_module_if_new refuses at the limit, expand_full_workspace looks at no
\* limit and records its group late, so that the cap is passed by that one group, and
\* only when a request crossed its await.
GroupsBounded ==
    /\ Cardinality(expanded) <= MaxGroups + 1
    /\ Cardinality(expanded) > MaxGroups => crossed

\* "avoid double-indexing": a folder that covers another one is never the later of the
\* two, and no folder is announced twice, except the first group by a request that
\* crossed expand_full_workspace's await.
FoldersAreApart ==
    \A i, j \in DOMAIN told :
        i < j /\ Under(told[i], told[j]) =>
            told[i] = told[j] /\ told[i] = GroupRoot(initial) /\ crossed

\* Whatever is removed, jdtls keeps a folder over every group on record and over the
\* first opened module, unless a write to it failed or it exited.
GroupsAreCovered ==
    available =>
        \A d \in expanded \cup ({initial} \ {None}) : \E i \in DOMAIN told : Under(d, told[i])

\* No single-file answer and no publish without a project makes a module READY: unless a
\* full method's answer came before the import (it may be an empty one, "semantically
\* empty"), the requests that skip the wait find it imported and under a folder that jdtls
\* still has, whatever was removed since.
ReadyIsImported ==
    \A m \in Dirs : IsReady(m) /\ m \notin early =>
        m \in imported /\ \E i \in DOMAIN told : Under(m, told[i])

\* A request that waits for a module is woken when the module becomes READY, although
\* events are created, kept and dropped by four different parties.
WaitersWake ==
    \A r \in Requests :
        req[r].pc = "wait" => ~IsReady(req[r].mod) /\ r \in Woken(req[r].mod)

\* A diff that was computed does not stay behind once its module is READY, unless the
\* module became READY by a request's answer or before the diff task existed.
DiffIsApplied ==
    \A m \in Wanted :
        results[m] # None /\ IsReady(m) /\ apply[m].pc = "none" => m \in unannounced

\* Wherever the server is killed, a stored snapshot is not ahead of what the jdtls data
\* it was saved for knows: the next session finds every change jdtls has not been told
\* of.  Exempt are a snapshot with nothing to compare with and a write that failed.
SnapshotNotAhead ==
    \A m \in Wanted :
        snap[m] # None /\ m \notin unsaid => snap[m] <= known[savedFor[m]][m]
=============================================================================
