---------------------------- MODULE MCWorkspace ----------------------------
\* The parts of the server that look at the workspace: the modules told to jdtls, the
\* quick fixes, the reactor index. They share no state and are explored side by side.
EXTENDS ModuleGroups, MCFixes, MCReactor, TLC

\* Repo holds two nested groups, Outer and Inner; ModM and ModN are modules of Inner, ModP of Outer;
\* Away is not under the client's root.
CONSTANTS Repo, Outer, Inner, ModM, ModN, ModP, Away
ParentOf == [d \in {Repo, Outer, Inner, ModM, ModN, ModP, Away} |->
    CASE d \in {Repo, Away} -> None [] d = Outer -> Repo [] d \in {Inner, ModP} -> Outer
      [] d \in {ModM, ModN} -> Inner]
RequestSymmetry == Permutations(Requests)

\* The part that moves; the others rest in one initial state.  ModuleGroups is explored
\* twice: one session with requests about every module ("folders"), and all the sessions
\* with only ModN, the module that jdtls imports, asked for ("sessions").
VARIABLE subject
workspaceVars == <<subject, groupVars, fixVars, reactorVars>>

Init ==
    /\ subject \in {"folders", "sessions", "fixes", "reactor"}
    /\ GroupsInit
    /\ IF subject = "fixes" THEN FixInit
       ELSE text = SmallText /\ shown = {} /\ edits = 0 /\ fixed = 0
    /\ ReactorStarts(IF subject = "reactor" THEN Checkouts ELSE {SmallCheckout})

\* The end of the only session, the index built.
FirstSessionOver == start # "off" /\ ~alive /\ UNCHANGED groupVars
Built == done /\ UNCHANGED reactorVars
Next ==
    \/ /\ subject = "folders" /\ (GroupsNext \/ FirstSessionOver) /\ session' = session
       /\ UNCHANGED <<subject, fixVars, reactorVars>>
    \/ /\ subject = "sessions" /\ (GroupsNext \/ LastSession)
       /\ \A r \in Requests : req'[r].mod \in {ModN, None}
       /\ UNCHANGED <<subject, fixVars, reactorVars>>
    \/ subject = "fixes" /\ FixNext /\ UNCHANGED <<subject, groupVars, reactorVars>>
    \/ subject = "reactor" /\ (ReactorNext \/ Built) /\ UNCHANGED <<subject, groupVars, fixVars>>
Spec == Init /\ [][Next]_workspaceVars
=============================================================================
