------------------------------ MODULE Startup ------------------------------
(***************************************************************************)
(* The lazy start of jdtls and the copy of the open files it is sent:      *)
(* _lazy_start_jdtls, JdtlsProxy.ensure_started and the notification queue *)
(* against the client's notifications, which are forwarded when jdtls is   *)
(* available and queued while it starts.                                   *)
(*                                                                         *)
(* A write to jdtls is part of the handler that makes it: the task that    *)
(* _fire_and_forget starts writes before the loop reads another message.   *)
(***************************************************************************)
EXTENDS Naturals, Sequences, SequencesExt

CONSTANTS
    Files,
    Texts,       \* the texts a file can have
    Closed,      \* the state of a file that is not open
    MaxQueued,   \* _MAX_QUEUED_NOTIFICATIONS
    Suspends     \* an await of the start suspends once jdtls is available:
                 \* registration awaits the client, or a drain is paused

ASSUME ClosedOutside == Closed \notin Texts
ASSUME QueuePositive == MaxQueued \in Nat \ {0}
ASSUME SuspendsBoolean == Suspends \in BOOLEAN

VARIABLES
    text,       \* what the client has: a text, or Closed
    mirror,     \* external: what jdtls has
    phase,      \* where _lazy_start_jdtls is
    available,  \* proxy._available
    queue,      \* proxy._queued_notifications
    batch,      \* flush_queued_notifications: what is left of its copy
    cooled,     \* the cooldown after a failed start is over
    lost,       \* history: files one of whose entries the full queue dropped
    crossed     \* history: files notified past entries of theirs not yet flushed

vars == <<text, mirror, phase, available, queue, batch, cooled, lost, crossed>>

Kinds == {"open", "change", "close"}
Entry == [kind : Kinds, file : Files, text : Texts \cup {Closed}]

TypeOK ==
    /\ text \in [Files -> Texts \cup {Closed}]
    /\ mirror \in [Files -> Texts \cup {Closed}]
    /\ phase \in {"idle", "starting", "expanding", "flushing", "running", "failed"}
    /\ available \in BOOLEAN /\ cooled \in BOOLEAN
    /\ queue \in Seq(Entry) /\ Len(queue) <= MaxQueued
    /\ batch \in Seq(Entry) /\ Len(batch) <= MaxQueued
    /\ lost \subseteq Files /\ crossed \subseteq Files

Init ==
    /\ text = [f \in Files |-> Closed]
    /\ mirror = [f \in Files |-> Closed]
    /\ phase = "idle" /\ available = FALSE
    /\ queue = <<>> /\ batch = <<>>
    /\ cooled = FALSE
    /\ lost = {} /\ crossed = {}

\* jdtls applies a notification; a didChange for a file it does not have open
\* says nothing to it.
Applied(m, e) ==
    CASE e.kind = "open" -> [m EXCEPT ![e.file] = e.text]
      [] e.kind = "change" -> [m EXCEPT ![e.file] = IF @ = Closed THEN Closed ELSE e.text]
      [] e.kind = "close" -> [m EXCEPT ![e.file] = Closed]

Unflushed == batch \o queue

\* What jdtls has once it has been sent the entries es.
Replay(m, es) == FoldLeft(Applied, m, es)

\* Between two awaits of the start that do not suspend, no handler runs.
HandlersRun == Suspends \/ phase \notin {"expanding", "flushing"}

----------------------------------------------------------------------------
(* queue_notification, _forward_or_queue and the client's notifications.   *)

\* Mutant: a plain list.
QueueUnbounded(e) == queue' = Append(queue, e) /\ UNCHANGED lost

\* The deque's maxlen: a full queue drops its oldest entry.
Queue(e) ==
    IF Len(queue) < MaxQueued
    THEN queue' = Append(queue, e) /\ UNCHANGED lost
    ELSE queue' = Append(Tail(queue), e) /\ lost' = lost \cup {Head(queue).file}

Forward(e) ==
    /\ mirror' = Applied(mirror, e)
    /\ crossed' = IF \E i \in DOMAIN Unflushed : Unflushed[i].file = e.file
                  THEN crossed \cup {e.file} ELSE crossed

\* Mutant: a notification that finds jdtls starting is dropped.
ForwardOrDrop(e) ==
    /\ IF available THEN Forward(e) ELSE UNCHANGED <<mirror, crossed>>
    /\ UNCHANGED <<queue, lost>>

\* _forward_or_queue: dropped before the first start and after a failed one.
ForwardOrQueue(e) ==
    \/ /\ available /\ Forward(e) /\ UNCHANGED <<queue, lost>>
    \/ /\ ~available /\ phase \notin {"idle", "failed"}
       /\ Queue(e) /\ UNCHANGED <<mirror, crossed>>
    \/ /\ ~available /\ phase \in {"idle", "failed"}
       /\ UNCHANGED <<queue, lost, mirror, crossed>>

\* on_did_open: the first file to be opened starts jdtls.  A failed start is not
\* tried again: _start_failed is only reset by ensure_started, which only the
\* first open calls.
OnDidOpen(f) ==
    /\ HandlersRun /\ text[f] = Closed
    /\ \E t \in Texts :
        LET e == [kind |-> "open", file |-> f, text |-> t]
        IN  /\ text' = [text EXCEPT ![f] = t]
            /\ \/ /\ available
                  /\ Forward(e) /\ UNCHANGED <<queue, lost>>
               \/ /\ ~available /\ phase # "failed"
                  /\ Queue(e) /\ UNCHANGED <<mirror, crossed>>
               \/ /\ phase = "failed"
                  /\ UNCHANGED <<queue, lost, mirror, crossed>>
    /\ phase' = IF phase = "idle" THEN "starting" ELSE phase
    /\ UNCHANGED <<available, batch, cooled>>

OnDidChange(f) ==
    /\ HandlersRun /\ text[f] # Closed
    /\ \E t \in Texts :
        /\ text' = [text EXCEPT ![f] = t]
        /\ ForwardOrQueue([kind |-> "change", file |-> f, text |-> t])
    /\ UNCHANGED <<phase, available, batch, cooled>>

OnDidClose(f) ==
    /\ HandlersRun /\ text[f] # Closed
    /\ text' = [text EXCEPT ![f] = Closed]
    /\ ForwardOrQueue([kind |-> "close", file |-> f, text |-> Closed])
    /\ UNCHANGED <<phase, available, batch, cooled>>

----------------------------------------------------------------------------
(* _lazy_start_jdtls and ensure_started.                                   *)

clientVars == <<text, lost, crossed>>

\* start() succeeded: available from here on, with the queue still to be flushed.
StartSucceeds ==
    /\ phase = "starting"
    /\ phase' = "expanding" /\ available' = TRUE
    /\ UNCHANGED <<clientVars, mirror, queue, batch, cooled>>

StartFails ==
    /\ phase = "starting"
    /\ phase' = "failed" /\ queue' = <<>>
    /\ UNCHANGED <<clientVars, mirror, available, batch, cooled>>

\* Mutant: the queue is copied and not cleared.
FlushKeepsQueue ==
    /\ phase = "expanding"
    /\ phase' = "flushing" /\ batch' = queue
    /\ UNCHANGED <<clientVars, mirror, available, queue, cooled>>

\* After expand_full_workspace and _register_jdtls_capabilities.
FlushBegins ==
    /\ phase = "expanding"
    /\ phase' = "flushing" /\ batch' = queue /\ queue' = <<>>
    /\ UNCHANGED <<clientVars, mirror, available, cooled>>

\* One send_notification of the flush; a write to a dead jdtls goes nowhere.
FlushOne ==
    /\ phase = "flushing" /\ batch # <<>>
    /\ batch' = Tail(batch)
    /\ mirror' = IF available THEN Applied(mirror, Head(batch)) ELSE mirror
    /\ UNCHANGED <<clientVars, phase, available, queue, cooled>>

FlushEnds ==
    /\ phase = "flushing" /\ batch = <<>>
    /\ phase' = "running"
    /\ UNCHANGED <<clientVars, mirror, available, queue, batch, cooled>>

\* jdtls exits: nothing starts it again.
JdtlsExits ==
    /\ available
    /\ available' = FALSE /\ mirror' = [f \in Files |-> Closed]
    /\ UNCHANGED <<clientVars, phase, queue, batch, cooled>>

\* _START_RETRY_COOLDOWN has passed since the failure.
Cooldown ==
    /\ phase = "failed" /\ ~cooled
    /\ cooled' = TRUE
    /\ UNCHANGED <<clientVars, mirror, phase, available, queue, batch>>

Next ==
    \/ \E f \in Files : OnDidOpen(f) \/ OnDidChange(f) \/ OnDidClose(f)
    \/ StartSucceeds \/ StartFails \/ FlushBegins \/ FlushOne \/ FlushEnds
    \/ JdtlsExits \/ Cooldown

\* The start's task runs on, and time passes.
Fairness ==
    /\ WF_vars(StartSucceeds \/ StartFails) /\ WF_vars(FlushBegins \/ FlushOne \/ FlushEnds)
    /\ WF_vars(Cooldown)

Spec == Init /\ [][Next]_vars /\ Fairness

----------------------------------------------------------------------------
(* Properties.                                                             *)

\* While jdtls starts and once it runs, replaying what is still to be flushed on
\* what jdtls has gives every file's current text.  Exempt are files the full queue
\* dropped an entry of, and files notified past their own unflushed entries.
ReplayIsCurrent ==
    phase = "starting" \/ available =>
        \A f \in Files \ (lost \cup crossed) :
            Replay(mirror, Unflushed)[f] = text[f]

\* Once a running jdtls has been flushed, no notification is left in the queue:
\* there will not be a second flush.
QueueIsDrained == phase = "running" /\ available => queue = <<>>

\* "Forward a notification to jdtls if available, or queue it if starting": whatever
\* the client does meanwhile, once the start is over jdtls has the current text of
\* every file the queue did not drop.
MirrorIsCurrent ==
    phase = "running" /\ available =>
        \A f \in Files \ lost : mirror[f] = text[f]

\* "allows retry after a cooldown period (5 minutes) so transient failures [...]
\* don't permanently disable jdtls" (ensure_started): if files go on being opened,
\* a failed start is tried again.
FailedStartIsRetried ==
    ([]<><<\E f \in Files : OnDidOpen(f)>>_vars) =>
        (phase = "failed" ~> phase # "failed")
=============================================================================
