--------------------------- MODULE ImportContract ---------------------------
(***************************************************************************)
(* What the round controller promises about the folders it adds to jdtls's *)
(* workspace, without windows, waits, retries, phases or tasks.  jdtls,    *)
(* asked about a file, may answer that errors of the kind are left.  Such  *)
(* answers warrant one import, of modules that those files or the earlier  *)
(* imports need; and no import is made without.                            *)
(***************************************************************************)
EXTENDS Integers, FiniteSets

CONSTANTS
    Files, Modules,
    ModuleOf,                   \* [Files -> Modules]
    Deps,                       \* [Modules -> SUBSET Modules]
    None,
    Budget, Rounds, PerRound    \* modules and imports of a session, modules of an import

VARIABLES
    answer,     \* the file that jdtls has just answered for, of its text as it is
    warrant,    \* files it has answered for since the last import
    imported,   \* modules imported in this session
    rounds      \* imports made in this session
contractVars == <<answer, warrant, imported, rounds>>

Init == answer = None /\ warrant = {} /\ imported = {} /\ rounds = 0

\* The modules that an import for these files may hold.
Needed(files) == (UNION {Deps[m] : m \in {ModuleOf[f] : f \in files} \cup imported}) \ imported

Warranted == warrant \cup ({answer} \ {None})

----------------------------------------------------------------------------
\* jdtls answers that the file still has such errors.
Answers ==
    /\ answer = None /\ answer' \in Files
    /\ UNCHANGED <<warrant, imported, rounds>>

\* An edit outdates the answer, or nobody waits for it any more.
Withdraws == answer' = None /\ UNCHANGED <<warrant, imported, rounds>>

\* The answer counts.
Counts ==
    /\ warrant' = Warranted /\ answer' = None
    /\ UNCHANGED <<imported, rounds>>

\* What has been answered is given up.
Drops ==
    /\ warrant' = {} /\ answer' = None
    /\ UNCHANGED <<imported, rounds>>

\* Modules are imported, and the answers that warranted it are used up.
Imports(batch) ==
    /\ Warranted # {} /\ batch # {} /\ batch \subseteq Needed(Warranted)
    /\ rounds < Rounds /\ Cardinality(batch) <= PerRound
    /\ Cardinality(imported \cup batch) <= Budget
    /\ imported' = imported \cup batch /\ rounds' = rounds + 1
    /\ warrant' = {} /\ answer' = None

\* The session ends, and with it its folders.
Ends == answer' = None /\ warrant' = {} /\ imported' = {} /\ rounds' = 0

Next ==
    \/ Answers \/ Withdraws \/ Counts \/ Drops \/ Ends
    \/ \E batch \in SUBSET Modules : Imports(batch)

Spec == Init /\ [][Next]_contractVars

\* What the contract gives: only modules that a file's module needs, directly or through
\* others, are ever imported (they are in every set that holds these needs and its own).
OnlyNeededImported ==
    \A closed \in SUBSET Modules :
        /\ \A f \in Files : Deps[ModuleOf[f]] \subseteq closed
        /\ \A m \in closed : Deps[m] \subseteq closed
        => imported \subseteq closed
=============================================================================
