-------------------------- MODULE ImportRefinement --------------------------
\* The round controller implements its contract: what each part of the contract is in
\* the code.
EXTENDS DependencyRounds

\* The window of the controller's refresh, once it is answered, holds a verdict of demand
\* on the file's text as it is now, computed after the last import.
Answer ==
    IF /\ run["main"].pc = "refresh" /\ run["main"].reply = "yes"
       /\ window.seen # None
       /\ window.seen.demand /\ window.seen.current /\ window.seen.same
    THEN run["main"].file ELSE None

\* The files found to have demand, while they are refreshed and while modules are chosen.
WarrantOf(j) ==
    IF j.pc \in {"refresh", "backoff"} THEN j.still
    ELSE IF j.pc \in {"markers", "index", "quiet"} THEN j.demand
    ELSE {}

Warrant == WarrantOf(run["main"])

\* A round counts from its import on.
Made == session.rounds + IF run["main"].pc = "sending" THEN 1 ELSE 0

Contract == INSTANCE ImportContract WITH
    answer <- Answer, warrant <- Warrant, imported <- registry \cup retired, rounds <- Made

\* Every step of the task, the reader and the client is a step that the contract allows
\* or one it does not see: in particular modules are imported only after jdtls has, since
\* the last import, re-validated a file and still reported its errors for the text as it
\* was then; a round's batch is no larger than the limits leave; and it holds only what
\* those files' modules, or the modules imported before, need.
KeepsImportContract == Contract!Spec
=============================================================================
