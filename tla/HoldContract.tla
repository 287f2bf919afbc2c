---------------------------- MODULE HoldContract ----------------------------
(***************************************************************************)
(* What the server promises the client about the diagnostics of its files, *)
(* without debounces, deadlines, tasks or events.  A file's text changes,  *)
(* jdtls's latest verdict on it changes, and the client sees a view: a     *)
(* text with a verdict.  While the server owes the file a report, the view *)
(* may lag; while it holds the file, it may only be previewed without a    *)
(* verdict; and the debt is paid by a report of the text and the verdict   *)
(* of that moment, or lost with an exception, or ended by a close.         *)
(***************************************************************************)
CONSTANTS
    Keys,       \* files
    Contents,   \* the texts a file can hold
    Null        \* no verdict, or nothing shown

VARIABLES
    text,       \* each file's current text
    latest,     \* jdtls's latest verdict on it
    view,       \* what the client was last shown
    open,       \* files the client has open
    tracked,    \* files whose verdicts are watched for the client
    owed,       \* files with a report to come
    held,       \* files whose latest verdict may be about an older text
    unsettled,  \* files the PostToolUse hook still has to wait for
    lost        \* files whose last report was lost to an exception
contractVars == <<text, latest, view, open, tracked, owed, held, unsettled, lost>>

Blank == [src |-> Null, jd |-> Null]

Init ==
    /\ text \in [Keys -> Contents]
    /\ latest = [k \in Keys |-> Null] /\ view = [k \in Keys |-> Blank]
    /\ open = {} /\ tracked = {} /\ owed = {} /\ held = {} /\ unsettled = {} /\ lost = {}

OnlyTextOf(k) ==
    /\ text' \in [Keys -> Contents]
    /\ \A j \in Keys \ {k} : text'[j] = text[j]

\* The client is shown the text of this moment, and a report was not lost.
Show(k, verdict) ==
    /\ view' = [view EXCEPT ![k] = [src |-> text'[k], jd |-> verdict]]
    /\ lost' = lost \ {k}
Lose(k) == view' = view /\ lost' = lost \cup {k}
ShowNothing == UNCHANGED <<view, lost>>

MayPay(k) == owed' \in {owed, owed \ {k}}

----------------------------------------------------------------------------
\* The file is opened and shown at once, or a report is owed for it.  Files may
\* stop being tracked for it, and nothing is held or unsettled for those.
Open(k) ==
    /\ k \notin open /\ open' = open \cup {k}
    /\ OnlyTextOf(k)
    /\ tracked' \subseteq tracked \cup {k} /\ k \in tracked'
    /\ held' = held \cap tracked'
    /\ unsettled' \ {k} = (unsettled \cap tracked') \ {k}
    /\ \/ owed' = owed \cup {k} /\ ShowNothing
       \/ owed' = owed /\ Show(k, latest[k])
       \/ owed' = owed /\ Lose(k)
    /\ UNCHANGED latest

\* An edit makes the server owe a report; it may hold the file for it.
Change(k) ==
    /\ k \in open
    /\ OnlyTextOf(k)
    /\ owed' = owed \cup {k}
    /\ held' \in {held, held \cup {k}}
    /\ unsettled' \in {unsettled, unsettled \cup {k}}
    /\ ShowNothing
    /\ UNCHANGED <<latest, open, tracked>>

\* A closed file's diagnostics are cleared; a report may still be under way.
Close(k) ==
    /\ k \in open /\ open' = open \ {k}
    /\ OnlyTextOf(k)
    /\ MayPay(k)
    /\ held' = held \ {k}
    /\ view' = [view EXCEPT ![k] = Blank] /\ lost' = lost \ {k}
    /\ UNCHANGED <<latest, tracked, unsettled>>

\* jdtls publishes: held back, or taken as the answer that ends the hold, or shown at once.
Verdict(k) ==
    /\ \E v \in Contents \cup {Null} : latest' = [latest EXCEPT ![k] = v]
    /\ \/ /\ k \in held \/ k \notin tracked
          /\ ShowNothing /\ UNCHANGED <<held, unsettled>>
       \/ /\ k \in held /\ held' = held \ {k}
          /\ ShowNothing /\ UNCHANGED unsettled
       \/ /\ k \in tracked \ held
          /\ \/ Show(k, latest'[k]) /\ unsettled' \in {unsettled, unsettled \ {k}}
             \/ Lose(k) /\ UNCHANGED unsettled
          /\ UNCHANGED held
    /\ UNCHANGED <<text, open, tracked, owed>>

\* The server's own diagnostics of a held file.
Preview(k) ==
    /\ k \in held \cap owed
    /\ Show(k, Null)
    /\ UNCHANGED <<text, latest, open, tracked, owed, held, unsettled>>

\* The report: it ends a hold that was not answered in time.
Report(k) ==
    /\ Show(k, latest[k])
    /\ MayPay(k)
    /\ held' = held \ {k}
    /\ unsettled' \in {unsettled, unsettled \ {k}}
    /\ UNCHANGED <<text, latest, open, tracked>>

ReportIsLost(k) ==
    /\ Lose(k)
    /\ MayPay(k)
    /\ held' \in {held, held \ {k}} /\ held' \subseteq owed'
    /\ UNCHANGED <<text, latest, open, tracked, unsettled>>

\* A hold ends and leaves the report to come.
GiveUp(k) ==
    /\ k \in held \cap owed /\ held' = held \ {k}
    /\ UNCHANGED <<text, latest, view, open, tracked, owed, unsettled, lost>>

\* jdtls is gone: there is no verdict any more, and holds need not last.
Gone ==
    /\ latest' = [k \in Keys |-> Null]
    /\ held' \in {held, {}}
    /\ UNCHANGED <<text, view, open, tracked, owed, unsettled, lost>>

Next ==
    \/ \E k \in Keys :
        \/ Open(k) \/ Change(k) \/ Close(k) \/ Verdict(k)
        \/ Preview(k) \/ Report(k) \/ ReportIsLost(k) \/ GiveUp(k)
    \/ Gone

Spec == Init /\ [][Next]_contractVars

\* What the contract gives the client: a watched file to which no report is owed, and whose
\* last one was not lost, is shown with its current text and jdtls's latest verdict.
ViewIsCurrent ==
    \A k \in (open \cap tracked) \ (owed \cup lost) :
        view[k].src = text[k] /\ latest[k] \in {Null, view[k].jd}
=============================================================================
