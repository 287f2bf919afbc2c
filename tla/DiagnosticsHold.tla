-------------------------- MODULE DiagnosticsHold --------------------------
(***************************************************************************)
(* The diagnostics of an edited file, from the client's edit to the        *)
(* publish that shows jdtls's verdict on it: the hold tasks of server.py,  *)
(* the freshness rules of _JdtlsFreshness, the jdtls diagnostics cache and *)
(* the marker the PostToolUse hook waits for.                              *)
(*                                                                         *)
(* Every action is one uninterrupted run of the asyncio loop: a handler    *)
(* between two awaits, or a task from one await to the next.  Times are    *)
(* kept as ages (how long ago) and countdowns (how long until), capped at  *)
(* Ceiling, beyond which no comparison of the code changes its outcome; so *)
(* the clock is unbounded and the state space is finite.  The loop may lag *)
(* behind the clock: Tick never waits for a timer that is already due.     *)
(*                                                                         *)
(* A set of jdtls diagnostics is named by the content it was computed      *)
(* from, so that "stale" is a comparison with the file's content.          *)
(***************************************************************************)
EXTENDS Integers, FiniteSets

CONSTANTS
    Keys,        \* normalized URIs of .java files, all in one jdtls module
    Contents,    \* the texts a file can hold
    Null,        \* no diagnostics, or nothing shown
    HoldMode,    \* server._hold_mode
    AgentHost,   \* server._agent_host: the client is an agent (Claude Code)
    MaxOpened,   \* _MAX_OPENED_URIS
    Debounce,    \* _DEBOUNCE_SECONDS
    FreshMinAge, DeadlineAfterChange, Ceiling,
    LateJdtls,   \* jdtls may publish an old content's result at any time
    Raises,      \* analysing or publishing a file may raise
    SwallowsCancel  \* Python 3.10/3.11: wait_for can swallow a cancel()

ASSUME KeysFinite == IsFiniteSet(Keys)
ASSUME NullOutside == Null \notin Contents /\ "opening" \notin Contents /\ Null # "opening"
ASSUME ModeKnown == HoldMode \in {"off", "hold-all", "custom-first"}
ASSUME FlagsBoolean == {AgentHost, LateJdtls, Raises, SwallowsCancel} \subseteq BOOLEAN
ASSUME CapPositive == MaxOpened \in Nat \ {0}
ASSUME TimesOrdered ==
    /\ Debounce \in Nat \ {0} /\ FreshMinAge \in Nat /\ DeadlineAfterChange \in Nat
    /\ Ceiling \in Nat
    /\ Debounce < FreshMinAge /\ FreshMinAge < DeadlineAfterChange
    /\ DeadlineAfterChange < Ceiling

VARIABLES
    content,     \* workspace.get_text_document(uri).source
    open,        \* files the client has open
    opening,     \* files whose on_did_open is suspended at its awaits
    position,    \* _session_opened_uris: 0 = absent, 1 = oldest entry
    jdtls,       \* the jdtls process, as its reader loop sees it
    available,   \* proxy._available
    ready,       \* the module is READY in the ModuleRegistry
    cache,       \* proxy._diagnostics_cache
    inFlight,    \* external: the contents jdtls may still publish about
    pending,     \* _freshness._pending, as the age of the last edit
    lastChange,  \* _freshness._last_change, as an age
    slack,       \* max(deadline_after_change, 2 * latency_ewma)
    task,        \* the current hold task, _pending[uri]
    timer,       \* when that task's sleep or wait_for times out
    event,       \* _hold_events[key]
    superseded,  \* files with a replaced task whose cancel() was swallowed
    shown,       \* the last publish the client received for the file
    failed,      \* files whose last publish was lost to an exception
    dirty,       \* server._marker_dirty
    marker       \* the digest in the file's freshness marker

clientVars == <<content, open, opening, position>>
jdtlsVars == <<jdtls, available, ready, cache, inFlight>>
freshVars == <<pending, lastChange, slack>>
taskVars == <<task, timer, event, superseded>>
publishVars == <<shown, failed, dirty, marker>>
vars == <<clientVars, jdtlsVars, freshVars, taskVars, publishVars>>

Never == -1
Opening == "opening"
Cleared == [src |-> Null, jd |-> Null]

TypeOK ==
    /\ content \in [Keys -> Contents]
    /\ open \subseteq Keys /\ opening \subseteq Keys
    /\ position \in [Keys -> Nat]
    /\ jdtls \in {"starting", "running", "stopping", "exited"}
    /\ available \in BOOLEAN /\ ready \in BOOLEAN
    /\ cache \in [Keys -> Contents \cup {Null}]
    /\ inFlight \in [Keys -> SUBSET Contents]
    /\ pending \in [Keys -> 0..Ceiling \cup {Never}]
    /\ lastChange \in 0..Ceiling \cup {Never}
    /\ slack \in DeadlineAfterChange..Ceiling
    /\ task \in [Keys -> {"none", "sleeping", "waiting"}]
    /\ timer \in [Keys -> 0..Ceiling]
    /\ event \in [Keys -> {"absent", "clear", "set"}]
    /\ superseded \subseteq Keys
    /\ shown \in [Keys -> [src : Contents \cup {Null}, jd : Contents \cup {Null}]]
    /\ failed \subseteq Keys /\ dirty \subseteq Keys
    /\ marker \in [Keys -> Contents \cup {Null, Opening}]

Init ==
    /\ content \in [Keys -> Contents]
    /\ open = {} /\ opening = {} /\ position = [k \in Keys |-> 0]
    /\ jdtls = "starting" /\ available = FALSE /\ ready = FALSE
    /\ cache = [k \in Keys |-> Null]
    /\ inFlight = [k \in Keys |-> {}]
    /\ pending = [k \in Keys |-> Never] /\ lastChange = Never
    /\ slack = DeadlineAfterChange
    /\ task = [k \in Keys |-> "none"] /\ timer = [k \in Keys |-> 0]
    /\ event = [k \in Keys |-> "absent"] /\ superseded = {}
    /\ shown = [k \in Keys |-> Cleared] /\ failed = {}
    /\ dirty = {} /\ marker = [k \in Keys |-> Null]

IsOpened(k) == position[k] > 0
IsPending(k) == pending[k] # Never

----------------------------------------------------------------------------
(* Publishing: _analyze_and_publish, _run_analysis, _stamp_final_publish.  *)

\* _is_final: nothing better is coming for the content just published.
IsFinal(trigger) ==
    \/ trigger \in {"jdtls", "timeout"}
    \/ trigger = "change" /\ (HoldMode # "off" \/ ~available)

\* Publishes text src of file k merged with the diagnostics jd, and stamps the
\* marker of an edited file when the publish is final.
Publish(k, src, jd, include, trigger) ==
    LET stamped == include /\ AgentHost /\ IsFinal(trigger) /\ k \in dirty
    IN  /\ shown' = [shown EXCEPT ![k] =
                        [src |-> src, jd |-> IF include /\ available THEN jd ELSE Null]]
        /\ failed' = failed \ {k}
        /\ dirty' = IF stamped THEN dirty \ {k} ELSE dirty
        /\ marker' = IF stamped THEN [marker EXCEPT ![k] = src] ELSE marker

\* _analyze_and_publish raises (the file vanished, a checker failed): the
\* handler logs it and the client keeps what it had.
PublishRaises(k) ==
    /\ Raises
    /\ failed' = failed \cup {k}
    /\ UNCHANGED <<shown, dirty, marker>>

NoPublish == UNCHANGED publishVars

----------------------------------------------------------------------------
(* _JdtlsFreshness: the deadline of a held file.                           *)

\* Mutants: no ceiling; a ceiling counted from the last change to any file.
RemainingUncapped(k) == slack - (IF lastChange = Never THEN pending[k] ELSE lastChange)
RemainingAnyFile(k) ==
    LET age == IF lastChange = Never THEN pending[k] ELSE lastChange
    IN  IF slack > Ceiling THEN Ceiling - age ELSE slack - age

\* deadline(key) - clock(): from the last change to any file, and at most
\* Ceiling after the file's own last edit.
Remaining(k) ==
    LET age == IF lastChange = Never THEN pending[k] ELSE lastChange
        sinceAny == slack - age
        own == Ceiling - pending[k]
    IN  IF sinceAny < own THEN sinceAny ELSE own

\* Mutant: the hold never gives up.
NeverExpires(k) == FALSE

\* expire(key) finds the deadline passed.
Expired(k) == IsPending(k) /\ Remaining(k) <= 0

\* Mutant: the fixed floor of on_publish is dropped.
AnyAge(k) == FALSE

\* on_publish: too soon after the edit to be about it.
TooEarly(k) == pending[k] < FreshMinAge

Forget(p, ks) == [k \in Keys |-> IF k \in ks THEN Never ELSE p[k]]

----------------------------------------------------------------------------
(* Hold tasks: _deferred_validate and _hold_until_fresh.                   *)

\* The event loop can deliver a cancel() to a task whose wait_for has already
\* seen the event: before Python 3.12 it may swallow it, and the task runs on, no
\* longer the current one (_is_current_task).  Bound: one such task per file.
CancelTask(k) ==
    \/ superseded' = superseded
    \/ /\ SwallowsCancel /\ task[k] = "waiting" /\ event[k] = "set"
       /\ superseded' = superseded \cup {k}

\* Mutant: the hold registers its event without clearing an older set().
EventKept(k) == IF event[k] = "absent" THEN [event EXCEPT ![k] = "clear"] ELSE event

\* setdefault and clear, before the hold waits.
EventCleared(k) == [event EXCEPT ![k] = "clear"]

TaskEnds(k, ev) ==
    /\ task' = [task EXCEPT ![k] = "none"]
    /\ timer' = [timer EXCEPT ![k] = 0]
    /\ event' = [event EXCEPT ![k] = ev]

\* One turn of the loop of _hold_until_fresh: it publishes once the file is no
\* longer pending or its deadline has passed, and otherwise waits again.
HoldTurn(k) ==
    \/ /\ ~IsPending(k) \/ Expired(k)
       /\ pending' = Forget(pending, {k})
       /\ \/ Publish(k, content[k], cache[k], TRUE,
                     IF IsPending(k) THEN "timeout" ELSE "jdtls")
          \/ PublishRaises(k)
       /\ TaskEnds(k, "absent")
    \/ /\ IsPending(k) /\ ~Expired(k)
       /\ task' = [task EXCEPT ![k] = "waiting"]
       /\ timer' = [timer EXCEPT ![k] = Remaining(k)]
       /\ event' = EventCleared(k)
       /\ UNCHANGED pending
       /\ IF task[k] = "sleeping" /\ HoldMode = "custom-first"
          THEN Publish(k, content[k], cache[k], FALSE, "custom-first")
          ELSE NoPublish

\* Mutant: the exception path leaves the file pending.
HoldRaisesPending(k) ==
    /\ task[k] = "sleeping" /\ HoldMode = "custom-first" /\ IsPending(k)
    /\ PublishRaises(k)
    /\ TaskEnds(k, "absent")
    /\ UNCHANGED pending

\* The custom-first publish raises: _deferred_validate forgets the file, so
\* that it is not left pending without a task.
HoldRaises(k) ==
    /\ task[k] = "sleeping" /\ HoldMode = "custom-first" /\ IsPending(k)
    /\ PublishRaises(k)
    /\ pending' = Forget(pending, {k})
    /\ TaskEnds(k, "absent")

\* _deferred_validate after its debounce sleep.
DebounceEnds(k) ==
    /\ task[k] = "sleeping" /\ timer[k] = 0
    /\ \/ /\ ~IsPending(k)
          /\ Publish(k, content[k], cache[k], TRUE, "change") \/ PublishRaises(k)
          /\ TaskEnds(k, event[k])
          /\ UNCHANGED pending
       \/ IsPending(k) /\ HoldTurn(k)
       \/ HoldRaises(k)
    /\ UNCHANGED <<clientVars, jdtlsVars, lastChange, slack, superseded>>

\* wait_for returns: the event was set, or the deadline it waited for passed.
HoldWakes(k) ==
    /\ task[k] = "waiting" /\ (event[k] = "set" \/ timer[k] = 0)
    /\ HoldTurn(k)
    /\ UNCHANGED <<clientVars, jdtlsVars, lastChange, slack, superseded>>

\* A superseded task goes round its loop once more.  It may share its event
\* with the current task, and never publishes.
SupersededRuns(k) ==
    /\ k \in superseded
    /\ \/ /\ ~IsPending(k) \/ Expired(k)
          /\ pending' = Forget(pending, {k})
          /\ superseded' = superseded \ {k}
          /\ UNCHANGED event
       \/ /\ IsPending(k) /\ ~Expired(k)
          /\ event[k] = "set"
          /\ event' = [event EXCEPT ![k] = "clear"]
          /\ UNCHANGED <<pending, superseded>>
    /\ UNCHANGED <<clientVars, jdtlsVars, lastChange, slack, task, timer, publishVars>>

TaskRuns(k) == DebounceEnds(k) \/ HoldWakes(k)

----------------------------------------------------------------------------
(* The client's notifications.                                             *)

\* _record_opened: the file becomes the youngest entry of an ordered dict of
\* at most MaxOpened entries; a new one evicts the oldest (position 1).
Recorded(k) ==
    LET size == Cardinality({j \in Keys : IsOpened(j)})
        isNew == ~IsOpened(k)
        left == IF isNew THEN (IF size = MaxOpened THEN 1 ELSE size + 1) ELSE position[k]
    IN  [j \in Keys |->
            IF j = k THEN (IF isNew /\ size < MaxOpened THEN size + 1 ELSE size)
            ELSE IF position[j] = left THEN 0
            ELSE IF position[j] > left THEN position[j] - 1
            ELSE position[j]]

\* Mutant: eviction does not touch the freshness tracking.
EvictedKept(k) == {}

\* The entries that a didOpen pushes out: no longer tracked, nor dirty.
Evicted(k) == {j \in Keys \ {k} : IsOpened(j) /\ Recorded(k)[j] = 0}

\* on_did_open.  With jdtls running it awaits the forwarded didOpen and
\* add_module_if_new before it publishes (OnDidOpenResumes); otherwise it goes
\* on at once.  Bound: one suspended on_did_open per file.
OnDidOpen(k) ==
    /\ k \notin open /\ k \notin opening
    /\ open' = open \cup {k}
    /\ position' = Recorded(k)
    /\ pending' = Forget(pending, Evicted(k))
    /\ \E c \in Contents :
        /\ content' = [content EXCEPT ![k] = c]
        /\ inFlight' = IF available THEN [inFlight EXCEPT ![k] = @ \cup {c}] ELSE inFlight
        /\ LET edited == (dirty \ Evicted(k)) \cup (IF AgentHost THEN {k} ELSE {})
               placed == IF AgentHost THEN [marker EXCEPT ![k] = Opening] ELSE marker
           IN  /\ dirty' = edited
               /\ marker' = placed
        /\ \/ available /\ opening' = opening \cup {k} /\ UNCHANGED <<shown, failed>>
           \/ ~available /\ UNCHANGED opening
              /\ shown' = [shown EXCEPT ![k] = [src |-> c, jd |-> Null]]
              /\ failed' = failed \ {k}
           \/ ~available /\ Raises /\ UNCHANGED <<opening, shown>>
              /\ failed' = failed \cup {k}
    /\ UNCHANGED <<jdtls, available, ready, cache, lastChange, slack, taskVars>>

\* Mutants: the rest of on_did_open publishes without jdtls's set; publishes with
\* it whether or not the file is held, as final.
OpenedBare(k) ==
    /\ k \in opening
    /\ opening' = opening \ {k}
    /\ Publish(k, content[k], cache[k], FALSE, "open")
    /\ UNCHANGED <<content, open, position, jdtlsVars, freshVars, taskVars>>
OpenedFinal(k) ==
    /\ k \in opening
    /\ opening' = opening \ {k}
    /\ Publish(k, content[k], cache[k], TRUE, "jdtls")
    /\ UNCHANGED <<content, open, position, jdtlsVars, freshVars, taskVars>>

\* The rest of on_did_open: a file still held gets no cached jdtls set.
OnDidOpenResumes(k) ==
    /\ k \in opening
    /\ opening' = opening \ {k}
    /\ Publish(k, content[k], cache[k], ~IsPending(k), "open") \/ PublishRaises(k)
    /\ UNCHANGED <<content, open, position, jdtlsVars, freshVars, taskVars>>

\* _hold_eligible, with the opened-set test of _track_forwarded_edit.
Eligible(k) == HoldMode # "off" /\ IsOpened(k) /\ ready

\* Mutant: an edit does not reopen the file's marker.
StaysClean(k) == dirty

\* The edit of an agent's file: its marker is out of date.
MarkedDirty(k) == IF AgentHost /\ IsOpened(k) THEN dirty \cup {k} ELSE dirty

\* on_did_change: forward, mark the file pending, restart its debounce.
OnDidChange(k) ==
    /\ k \in open
    /\ \E c \in Contents :
        /\ content' = [content EXCEPT ![k] = c]
        /\ inFlight' = IF available THEN [inFlight EXCEPT ![k] = @ \cup {c}] ELSE inFlight
    /\ lastChange' = IF available THEN 0 ELSE lastChange
    /\ pending' = IF available /\ Eligible(k) THEN [pending EXCEPT ![k] = 0] ELSE pending
    /\ CancelTask(k)
    /\ task' = [task EXCEPT ![k] = "sleeping"]
    /\ timer' = [timer EXCEPT ![k] = Debounce]
    /\ dirty' = MarkedDirty(k)
    /\ UNCHANGED <<open, opening, position, jdtls, available, ready, cache, slack,
                   event, shown, failed, marker>>

\* Mutant: a save publishes a held file with the diagnostics of its older text.
OnDidSaveAny(k) ==
    /\ k \in open
    /\ Publish(k, content[k], cache[k], TRUE, "open") \/ PublishRaises(k)
    /\ UNCHANGED <<clientVars, jdtlsVars, freshVars, taskVars>>

\* on_did_save: a held file is left to its hold.
OnDidSave(k) ==
    /\ k \in open /\ ~IsPending(k)
    /\ Publish(k, content[k], cache[k], TRUE, "open") \/ PublishRaises(k)
    /\ UNCHANGED <<clientVars, jdtlsVars, freshVars, taskVars>>

\* on_did_close: from here on the source is the file on disk.  The hold's event
\* is removed and set, its task cancelled, the diagnostics cleared.
OnDidClose(k) ==
    /\ k \in open
    /\ open' = open \ {k}
    /\ \E c \in Contents :
        /\ content' = [content EXCEPT ![k] = c]
        /\ inFlight' = [inFlight EXCEPT ![k] = @ \cup {c}]
    /\ CancelTask(k)
    /\ TaskEnds(k, "absent")
    /\ pending' = Forget(pending, {k})
    /\ shown' = [shown EXCEPT ![k] = Cleared]
    /\ failed' = failed \ {k}
    /\ UNCHANGED <<opening, position, jdtls, available, ready, cache, lastChange, slack,
                   dirty, marker>>

----------------------------------------------------------------------------
(* jdtls.                                                                  *)

\* _on_jdtls_diagnostics, after the proxy cached the set: READY unless the
\* file is not in a Maven project yet (code 16), then the opened-file gate,
\* then the freshness rules.
OnJdtlsDiagnostics(k) ==
    /\ jdtls \in {"running", "stopping"}
    /\ ready' \in {ready, TRUE}
    /\ \E about \in inFlight[k] :
        /\ cache' = [cache EXCEPT ![k] = about]
        /\ \/ /\ IsOpened(k) => IsPending(k) /\ TooEarly(k)  \* gated, or too early
              /\ UNCHANGED <<pending, slack, event>> /\ NoPublish
           \/ /\ IsOpened(k) /\ IsPending(k) /\ ~TooEarly(k)  \* released
              /\ pending' = Forget(pending, {k})
              /\ slack' \in DeadlineAfterChange..Ceiling  \* the latency average moves
              /\ event' = IF event[k] = "absent" THEN event ELSE [event EXCEPT ![k] = "set"]
              /\ NoPublish
           \/ /\ IsOpened(k) /\ ~IsPending(k)  \* untracked, or a late correction
              /\ UNCHANGED <<pending, slack, event>>
              /\ Publish(k, content[k], about, TRUE, "jdtls") \/ PublishRaises(k)
    /\ UNCHANGED <<clientVars, jdtls, available, inFlight, lastChange, task, timer, superseded>>

\* The lazy start succeeded: proxy.start sets _available.
JdtlsStarts ==
    /\ jdtls = "starting"
    /\ jdtls' = "running" /\ available' = TRUE
    /\ inFlight' = [k \in Keys |-> IF k \in open THEN {content[k]} ELSE {}]
    /\ UNCHANGED <<clientVars, ready, cache, freshVars, taskVars, publishVars>>

\* A request that needs the project's index got a result: its module is READY,
\* though jdtls may not have published anything yet.
JdtlsAnswers ==
    /\ jdtls = "running" /\ available /\ ~ready
    /\ ready' = TRUE
    /\ UNCHANGED <<clientVars, jdtls, available, cache, inFlight, freshVars, taskVars,
                   publishVars>>

\* A write to jdtls failed: send_notification only drops _available.
SendFails ==
    /\ jdtls = "running" /\ available
    /\ available' = FALSE
    /\ UNCHANGED <<clientVars, jdtls, ready, cache, inFlight, freshVars, taskVars, publishVars>>

\* _mark_stopped with _on_jdtls_stopped and _release_all_holds.  It returns
\* early when it seems to have run already.
MarkStopped ==
    IF ~available /\ \A k \in Keys : cache[k] = Null
    THEN UNCHANGED <<available, cache, pending, lastChange, event>>
    ELSE /\ available' = FALSE
         /\ cache' = [k \in Keys |-> Null]
         /\ pending' = Forget(pending, Keys)
         /\ lastChange' = Never
         /\ event' = [k \in Keys |-> IF event[k] = "absent" THEN "absent" ELSE "set"]

\* proxy.stop() begins: jdtls may go on publishing until it exits.
JdtlsStop ==
    /\ jdtls = "running" /\ jdtls' = "stopping"
    /\ MarkStopped
    /\ UNCHANGED <<clientVars, ready, inFlight, slack, task, timer, superseded, publishVars>>

\* The reader loop sees the end of jdtls's output.
JdtlsExits ==
    /\ jdtls \in {"running", "stopping"} /\ jdtls' = "exited"
    /\ MarkStopped
    /\ UNCHANGED <<clientVars, ready, inFlight, slack, task, timer, superseded, publishVars>>

----------------------------------------------------------------------------
(* Time.                                                                   *)

Older(age) == IF age = Never \/ age = Ceiling THEN age ELSE age + 1

\* One unit of time.  Unless LateJdtls, jdtls's debounce is what FRESH_MIN_AGE
\* takes it to be: no result for an older text is still to come by then.
Tick ==
    /\ pending' = [k \in Keys |-> Older(pending[k])]
    /\ lastChange' = Older(lastChange)
    /\ timer' = [k \in Keys |-> IF timer[k] = 0 THEN 0 ELSE timer[k] - 1]
    /\ inFlight' = [k \in Keys |->
                       IF ~LateJdtls /\ IsPending(k) /\ pending'[k] >= FreshMinAge
                       THEN {content[k]} ELSE inFlight[k]]
    /\ UNCHANGED <<clientVars, jdtls, available, ready, cache, slack, task, event,
                   superseded, publishVars>>

Next ==
    \/ \E k \in Keys :
        \/ OnDidOpen(k) \/ OnDidOpenResumes(k) \/ OnDidChange(k) \/ OnDidSave(k)
        \/ OnDidClose(k) \/ OnJdtlsDiagnostics(k)
        \/ DebounceEnds(k) \/ HoldWakes(k) \/ SupersededRuns(k)
    \/ JdtlsStarts \/ JdtlsAnswers \/ SendFails \/ JdtlsStop \/ JdtlsExits
    \/ Tick

\* asyncio runs every callback that is ready, and time passes.
Fairness ==
    /\ WF_vars(Tick)
    /\ \A k \in Keys : WF_vars(TaskRuns(k)) /\ WF_vars(OnDidOpenResumes(k))

Spec == Init /\ [][Next]_vars /\ Fairness

----------------------------------------------------------------------------
(* Properties.                                                             *)

\* A file waiting for jdtls always has a current task that will publish it
\* (_deferred_validate: "Never leave a file pending without a hold task").
HeldHasTask == \A k \in Keys : IsPending(k) => task[k] # "none"

\* A held file is in the opened set, so that jdtls's next publish reaches its
\* hold (_track_forwarded_edit: outside it "they could never release").
HeldIsReachable == \A k \in Keys : IsPending(k) => IsOpened(k)

\* Once no task is left for an open file, the client has seen its current text
\* merged with the latest set jdtls published for it: whatever the hold kept
\* back (too early, released, superseded, timed out) came out in the end.
NothingSwallowed ==
    \A k \in open \ (failed \cup opening) :
        IsOpened(k) /\ task[k] = "none" =>
            /\ shown[k].src = content[k]
            /\ available => shown[k].jd = cache[k]

\* The timeout a hold sleeps on never outlasts the ceiling that counts from
\* the file's own last edit, whatever other files' edits do to the deadline.
WaitIsBounded ==
    \A k \in Keys :
        task[k] = "waiting" /\ IsPending(k) => timer[k] + pending[k] <= Ceiling

\* While a hold sleeps, its event is registered and clear: a release will
\* find it and wake the task, and no earlier set() makes it spin.
HoldIsWakeable ==
    \A k \in Keys : task[k] = "waiting" /\ IsPending(k) => event[k] = "clear"

\* For an agent, a file that is held is never marked final: the marker can
\* only be stamped by the publish that ends the hold.
HeldIsNotFinal ==
    AgentHost => \A k \in Keys : IsPending(k) => k \in dirty

\* When nothing is owed to the hook for a file, its marker names the text the
\* client was last shown, and that is the current text.
FinalMeansShown ==
    AgentHost => \A k \in open \ (dirty \cup failed) :
        IsOpened(k) => marker[k] = content[k] /\ shown[k].src = content[k]

\* If jdtls's debounce is as FRESH_MIN_AGE assumes, the publish of a hold that
\* jdtls released never pairs the new text with diagnostics of an older one.
ReleaseIsFresh ==
    [][\A k \in Keys :
        HoldWakes(k) /\ event[k] = "set" /\ shown'[k] # shown[k]
            => shown'[k].jd \in {Null, content[k]}]_vars

\* A file whose text the client leaves alone gets its publish, even while other
\* files are edited for ever: the debounce and the hold both end.
QuietFileSettles ==
    \A k \in Keys : []<><<OnDidChange(k)>>_vars \/ <>[](task[k] = "none")

\* "Release every held file: no fresh jdtls publish can arrive from a dead
\* process" (_on_jdtls_stopped): no file is held once jdtls has exited.
ExitReleasesAll == jdtls = "exited" => \A k \in Keys : ~IsPending(k)

\* "A publish for an older version of the file can never satisfy the hook"
\* (freshness_marker): a marker that matches the file's text is there because
\* that text is what the client was last shown.
MarkerProvesShown ==
    AgentHost => \A k \in open : IsOpened(k) /\ k \notin failed =>
        (marker[k] = content[k] => shown[k].src = content[k])
=============================================================================
