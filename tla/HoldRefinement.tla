--------------------------- MODULE HoldRefinement ---------------------------
\* The hold implements its contract: what each file of the contract is in the code.
EXTENDS DiagnosticsHold

\* jdtls's diagnostics count only while it is available.
Latest == [k \in Keys |-> IF available THEN cache[k] ELSE Null]
\* A report is owed by a hold task or by an on_did_open that is suspended.
Owed == {k \in Keys : task[k] # "none" \/ k \in opening}

Contract == INSTANCE HoldContract WITH
    text <- content, latest <- Latest, view <- shown, open <- open,
    tracked <- {k \in Keys : IsOpened(k)}, owed <- Owed, held <- {k \in Keys : IsPending(k)},
    unsettled <- dirty, lost <- failed

\* Every step of the handlers, tasks and timers is a step that the contract allows or one
\* it does not see: in particular a file's view changes only to its text of that moment,
\* with jdtls's verdict of that moment or, while it is held, with none; a hold task ends
\* only by such a report, an exception or a close; and the hook's wait ends only by a
\* report with the verdict.
KeepsContract == Contract!Spec
=============================================================================
