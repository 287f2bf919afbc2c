------------------------------- MODULE MCHold -------------------------------
(* Model values and the restricted environments of DiagnosticsHold's runs.  *)
EXTENDS HoldRefinement, TLC

\* Two files in a jdtls that keeps running: the client opens, edits and closes
\* them, jdtls publishes, time passes.  The full Next, with saves, failed
\* writes, stops and superseded tasks, is checked on one file.
PairNext ==
    \/ \E k \in Keys :
        \/ OnDidOpen(k) \/ OnDidOpenResumes(k) \/ OnDidChange(k) \/ OnDidClose(k)
        \/ OnJdtlsDiagnostics(k) \/ DebounceEnds(k) \/ HoldWakes(k)
    \/ JdtlsStarts \/ Tick

PairSpec == Init /\ [][PairNext]_vars /\ Fairness
=============================================================================
