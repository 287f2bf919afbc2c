------------------------ MODULE HoldRefinementProofs ------------------------
\* The hold implements HoldContract, and what follows for what the client sees.
EXTENDS DiagnosticsHoldProofs, HoldRefinement

(* Each step of the hold is a step of the contract, or one it does not see. *)

\* A publish shows the text and the verdict of the moment, or none when jdtls's set is
\* left out.
LEMMA PublishShows ==
    ASSUME TypeOK, NEW k \in Keys, NEW jd, NEW include \in BOOLEAN, NEW trigger,
           Publish(k, content[k], jd, include, trigger), content' = content
    PROVE  /\ include => Contract!Show(k, IF available THEN jd ELSE Null)
           /\ ~include => Contract!Show(k, Null) /\ dirty' = dirty
BY DEF Publish, Contract!Show

LEMMA RaisingLoses ==
    ASSUME NEW k \in Keys, PublishRaises(k)
    PROVE  Contract!Lose(k) /\ dirty' = dirty
BY DEF PublishRaises, Contract!Lose

\* Opening: the report is owed, shown at once without a verdict, or lost.
LEMMA OpenRefines ==
    ASSUME TypeOK, Tied, NEW k \in Keys, OnDidOpen(k)
    PROVE  Contract!Open(k)
<1>1. PICK c \in Contents :
        /\ content' = [content EXCEPT ![k] = c]
        /\ dirty' = (dirty \ Evicted(k)) \cup (IF AgentHost THEN {k} ELSE {})
        /\ \/ available /\ opening' = opening \cup {k} /\ UNCHANGED <<shown, failed>>
           \/ ~available /\ UNCHANGED opening
              /\ shown' = [shown EXCEPT ![k] = [src |-> c, jd |-> Null]]
              /\ failed' = failed \ {k}
           \/ ~available /\ UNCHANGED <<opening, shown>>
              /\ failed' = failed \cup {k}
  BY DEF OnDidOpen
<1>2. /\ k \notin open /\ open' = open \cup {k} /\ position' = Recorded(k)
      /\ pending' = Forget(pending, Evicted(k))
      /\ UNCHANGED <<available, cache, task>>
  BY DEF OnDidOpen, taskVars
<1>3. Contract!OnlyTextOf(k) /\ content'[k] = c
  BY <1>1 DEF TypeOK, Contract!OnlyTextOf
<1>4. LET now == {j \in Keys : IsOpened(j)}
      IN  now' \subseteq now \cup {k} /\ k \in now'
  BY <1>2, RecordedOpens DEF IsOpened
<1>5. {j \in Keys : IsPending(j)}' = {j \in Keys : IsPending(j)} \cap {j \in Keys : IsOpened(j)}'
  BY <1>2, RecordedOpens, ForgetType DEF IsOpened, IsPending, Tied, HeldIsReachable, Evicted
<1>6. dirty' \ {k} = (dirty \cap {j \in Keys : IsOpened(j)}') \ {k}
  BY <1>1, <1>2, RecordedOpens DEF IsOpened, Tied, Evicted, TypeOK
<1>7. Latest' = Latest
  BY <1>2 DEF Latest
<1>8. \/ Owed' = Owed \cup {k} /\ Contract!ShowNothing
      \/ Owed' = Owed /\ Contract!Show(k, Latest[k])
      \/ Owed' = Owed /\ Contract!Lose(k)
  BY <1>1, <1>2, <1>3
     DEF Owed, Latest, Contract!ShowNothing, Contract!Show, Contract!Lose
<1> QED BY <1>2, <1>3, <1>4, <1>5, <1>6, <1>7, <1>8 DEF Contract!Open

LEMMA ChangeRefines ==
    ASSUME TypeOK, NEW k \in Keys, OnDidChange(k)
    PROVE  Contract!Change(k)
<1>1. Contract!OnlyTextOf(k) /\ k \in open
  BY DEF OnDidChange, TypeOK, Contract!OnlyTextOf
<1>2. /\ task' = [task EXCEPT ![k] = "sleeping"]
      /\ pending' = pending \/ pending' = [pending EXCEPT ![k] = 0]
      /\ dirty' \in {dirty, dirty \cup {k}}
      /\ UNCHANGED <<open, opening, position, available, cache, shown, failed>>
  BY DEF OnDidChange, MarkedDirty
<1>3. Owed' = Owed \cup {k}
  BY <1>2 DEF Owed, TypeOK
<1>4. {j \in Keys : IsPending(j)}' \in
        {{j \in Keys : IsPending(j)}, {j \in Keys : IsPending(j)} \cup {k}}
  BY <1>2 DEF IsPending, Never, TypeOK
<1>5. Latest' = Latest /\ {j \in Keys : IsOpened(j)}' = {j \in Keys : IsOpened(j)}
  BY <1>2 DEF Latest, IsOpened
<1> QED BY <1>1, <1>2, <1>3, <1>4, <1>5 DEF Contract!Change, Contract!ShowNothing

LEMMA CloseRefines ==
    ASSUME TypeOK, NEW k \in Keys, OnDidClose(k)
    PROVE  Contract!Close(k)
<1>1. Contract!OnlyTextOf(k) /\ k \in open
  BY DEF OnDidClose, TypeOK, Contract!OnlyTextOf
<1>2. /\ open' = open \ {k} /\ task' = [task EXCEPT ![k] = "none"]
      /\ pending' = Forget(pending, {k})
      /\ shown' = [shown EXCEPT ![k] = Cleared] /\ failed' = failed \ {k}
      /\ UNCHANGED <<opening, position, available, cache, dirty>>
  BY DEF OnDidClose, TaskEnds
<1>3. Contract!MayPay(k)
  BY <1>2 DEF Owed, TypeOK, Contract!MayPay
<1>4. {j \in Keys : IsPending(j)}' = {j \in Keys : IsPending(j)} \ {k}
  BY <1>2, ForgetType DEF IsPending
<1>5. Latest' = Latest /\ {j \in Keys : IsOpened(j)}' = {j \in Keys : IsOpened(j)}
  BY <1>2 DEF Latest, IsOpened
<1> QED BY <1>1, <1>2, <1>3, <1>4, <1>5 DEF Contract!Close, Contract!Blank, Cleared

\* on_did_open goes on and on_did_save: a report, or a preview of a held file.
LEMMA PublishedRefines ==
    ASSUME TypeOK, HeldHasTask, NEW k \in Keys, OnDidOpenResumes(k) \/ OnDidSave(k)
    PROVE  Contract!Preview(k) \/ Contract!Report(k) \/ Contract!ReportIsLost(k)
<1>1. /\ opening' \in {opening, opening \ {k}}
      /\ UNCHANGED <<content, open, position, available, cache, pending, task>>
  BY DEF OnDidOpenResumes, OnDidSave, clientVars, jdtlsVars, freshVars, taskVars
<1>2. PICK include \in BOOLEAN :
        /\ include = ~IsPending(k)
        /\ Publish(k, content[k], cache[k], include, "open") \/ PublishRaises(k)
  BY DEF OnDidOpenResumes, OnDidSave
<1>3. Latest' = Latest /\ Latest[k] = IF available THEN cache[k] ELSE Null
  BY <1>1 DEF Latest
<1>4. /\ {j \in Keys : IsOpened(j)}' = {j \in Keys : IsOpened(j)}
      /\ {j \in Keys : IsPending(j)}' = {j \in Keys : IsPending(j)}
  BY <1>1 DEF IsOpened, IsPending
<1>5. Contract!MayPay(k) /\ \A j \in Keys : task[j] # "none" => j \in Owed'
  BY <1>1 DEF Owed, Contract!MayPay
<1>6. dirty' \in {dirty, dirty \ {k}}
  BY <1>2, PublishSettles
<1>7. CASE PublishRaises(k)
  <2>1. {j \in Keys : IsPending(j)} \subseteq Owed'
    BY <1>5 DEF HeldHasTask
  <2> QED BY <1>1, <1>3, <1>4, <1>5, <1>7, <2>1, RaisingLoses DEF Contract!ReportIsLost
<1>8. CASE Publish(k, content[k], cache[k], include, "open") /\ include
  <2>1. Contract!Show(k, Latest[k])
    BY <1>1, <1>3, <1>8, PublishShows
  <2>2. {j \in Keys : IsPending(j)}' = {j \in Keys : IsPending(j)} \ {k}
    BY <1>2, <1>4, <1>8
  <2> QED BY <1>1, <1>3, <1>4, <1>5, <1>6, <2>1, <2>2 DEF Contract!Report
<1>9. CASE Publish(k, content[k], cache[k], include, "open") /\ ~include
  <2>1. Contract!Show(k, Null) /\ dirty' = dirty
    BY <1>1, <1>9, PublishShows
  <2>2. IsPending(k) /\ task[k] # "none"
    BY <1>2, <1>9 DEF HeldHasTask
  <2>3. Owed' = Owed /\ k \in Owed
    BY <1>1, <2>2 DEF Owed
  <2> QED BY <1>1, <1>3, <1>4, <2>1, <2>2, <2>3 DEF Contract!Preview
<1> QED BY <1>2, <1>7, <1>8, <1>9

\* A hold task runs: it previews, waits, or ends with the report.
LEMMA TaskRefines ==
    ASSUME TypeOK, HeldHasTask, NEW k \in Keys, DebounceEnds(k) \/ HoldWakes(k)
    PROVE  \/ Contract!Preview(k) \/ Contract!Report(k) \/ Contract!ReportIsLost(k)
           \/ UNCHANGED Contract!contractVars
<1>1. /\ UNCHANGED <<content, open, opening, position, available, cache>>
      /\ task[k] # "none"
  BY DEF DebounceEnds, HoldWakes, clientVars, jdtlsVars
<1>2. Latest' = Latest /\ Latest[k] = IF available THEN cache[k] ELSE Null
  BY <1>1 DEF Latest
<1>3. {j \in Keys : IsOpened(j)}' = {j \in Keys : IsOpened(j)}
  BY <1>1 DEF IsOpened
<1>4. CASE \E trigger :
             /\ \/ Publish(k, content[k], cache[k], TRUE, trigger)
                \/ PublishRaises(k)
             /\ \E ev : TaskEnds(k, ev)
             /\ \/ pending' = Forget(pending, {k})
                \/ ~IsPending(k) /\ UNCHANGED pending
  <2>1. PICK trigger :
             \/ Publish(k, content[k], cache[k], TRUE, trigger)
             \/ PublishRaises(k)
    BY <1>4
  <2>2. {j \in Keys : IsPending(j)}' = {j \in Keys : IsPending(j)} \ {k}
    BY <1>4, ForgetType DEF IsPending
  <2>3. task' = [task EXCEPT ![k] = "none"]
    BY <1>4 DEF TaskEnds
  <2>4. Contract!MayPay(k) /\ \A j \in Owed \ {k} : j \in Owed'
    BY <1>1, <2>3 DEF Owed, Contract!MayPay, TypeOK
  <2>5. dirty' \in {dirty, dirty \ {k}}
    BY <2>1, PublishSettles
  <2>6. CASE Publish(k, content[k], cache[k], TRUE, trigger)
    <3>1. Contract!Show(k, Latest[k])
      BY <1>1, <1>2, <2>6, PublishShows
    <3> QED BY <1>1, <1>2, <1>3, <2>2, <2>4, <2>5, <3>1 DEF Contract!Report
  <2>7. CASE PublishRaises(k)
    <3>1. {j \in Keys : IsPending(j)}' \subseteq Owed'
      BY <2>2, <2>4 DEF HeldHasTask, Owed
    <3> QED BY <1>1, <1>2, <1>3, <2>2, <2>4, <2>7, <3>1, RaisingLoses DEF Contract!ReportIsLost
  <2> QED BY <2>1, <2>6, <2>7
<1>5. CASE /\ IsPending(k) /\ UNCHANGED pending
           /\ task' = [task EXCEPT ![k] = "waiting"]
           /\ Publish(k, content[k], cache[k], FALSE, "custom-first") \/ NoPublish
  <2>1. Owed' = Owed /\ k \in Owed
    BY <1>1, <1>5 DEF Owed, TypeOK
  <2>2. {j \in Keys : IsPending(j)}' = {j \in Keys : IsPending(j)}
    BY <1>5 DEF IsPending
  <2>3. CASE Publish(k, content[k], cache[k], FALSE, "custom-first")
    <3>1. Contract!Show(k, Null) /\ dirty' = dirty
      BY <1>1, <2>3, PublishShows
    <3> QED BY <1>1, <1>2, <1>3, <1>5, <2>1, <2>2, <3>1 DEF Contract!Preview
  <2>4. CASE NoPublish
    BY <1>1, <1>2, <1>3, <2>1, <2>2, <2>4 DEF NoPublish, publishVars, Contract!contractVars
  <2> QED BY <1>5, <2>3, <2>4
<1>6. CASE HoldTurn(k)
  BY <1>4, <1>5, <1>6 DEF HoldTurn
<1>7. CASE ~HoldTurn(k)
  BY <1>4, <1>7 DEF DebounceEnds, HoldWakes, HoldRaises
<1> QED BY <1>6, <1>7

LEMMA DiagnosticsRefine ==
    ASSUME TypeOK, NEW k \in Keys, OnJdtlsDiagnostics(k)
    PROVE  Contract!Verdict(k)
<1>1. UNCHANGED <<content, open, opening, position, available, task>>
  BY DEF OnJdtlsDiagnostics, clientVars
<1>2. PICK about \in Contents :
        /\ cache' = [cache EXCEPT ![k] = about]
        /\ \/ /\ IsOpened(k) => IsPending(k)
              /\ UNCHANGED pending /\ NoPublish
           \/ /\ IsOpened(k) /\ IsPending(k)
              /\ pending' = Forget(pending, {k}) /\ NoPublish
           \/ /\ IsOpened(k) /\ ~IsPending(k) /\ UNCHANGED pending
              /\ Publish(k, content[k], about, TRUE, "jdtls") \/ PublishRaises(k)
  <2>1. \A about \in inFlight[k] : about \in Contents
    BY DEF TypeOK
  <2> QED BY <2>1 DEF OnJdtlsDiagnostics
<1>3. /\ Latest' = [Latest EXCEPT ![k] = IF available THEN about ELSE Null]
      /\ Latest'[k] = IF available THEN about ELSE Null
  BY <1>1, <1>2 DEF Latest, TypeOK
<1>4. \E v \in Contents \cup {Null} : Latest' = [Latest EXCEPT ![k] = v]
  BY <1>3
<1>5. Owed' = Owed /\ {j \in Keys : IsOpened(j)}' = {j \in Keys : IsOpened(j)}
  BY <1>1 DEF Owed, IsOpened
<1>6. CASE (IsOpened(k) => IsPending(k)) /\ UNCHANGED pending /\ NoPublish
  <2>1. {j \in Keys : IsPending(j)}' = {j \in Keys : IsPending(j)}
    BY <1>6 DEF IsPending
  <2> QED BY <1>1, <1>4, <1>5, <1>6, <2>1
         DEF Contract!Verdict, Contract!ShowNothing, NoPublish, publishVars
<1>7. CASE IsPending(k) /\ pending' = Forget(pending, {k}) /\ NoPublish
  <2>1. {j \in Keys : IsPending(j)}' = {j \in Keys : IsPending(j)} \ {k}
    BY <1>7, ForgetType DEF IsPending
  <2> QED BY <1>1, <1>4, <1>5, <1>7, <2>1
         DEF Contract!Verdict, Contract!ShowNothing, NoPublish, publishVars
<1>8. CASE /\ IsOpened(k) /\ ~IsPending(k) /\ UNCHANGED pending
           /\ Publish(k, content[k], about, TRUE, "jdtls") \/ PublishRaises(k)
  <2>1. {j \in Keys : IsPending(j)}' = {j \in Keys : IsPending(j)}
    BY <1>8 DEF IsPending
  <2>2. dirty' \in {dirty, dirty \ {k}}
    BY <1>8, PublishSettles
  <2>3. \/ Contract!Show(k, Latest'[k])
        \/ Contract!Lose(k) /\ dirty' = dirty
    BY <1>1, <1>3, <1>8, PublishShows, RaisingLoses
  <2> QED BY <1>1, <1>4, <1>5, <1>8, <2>1, <2>2, <2>3 DEF Contract!Verdict
<1> QED BY <1>2, <1>6, <1>7, <1>8

\* A superseded task ends a hold only while another task or nobody owes the report.
LEMMA SupersededRefines ==
    ASSUME TypeOK, HeldHasTask, NEW k \in Keys, SupersededRuns(k)
    PROVE  Contract!GiveUp(k) \/ UNCHANGED Contract!contractVars
<1>1. /\ UNCHANGED <<content, open, opening, position, available, cache, task, publishVars>>
      /\ pending' = pending \/ pending' = Forget(pending, {k})
  BY DEF SupersededRuns, clientVars, jdtlsVars
<1>2. Latest' = Latest /\ Owed' = Owed /\ {j \in Keys : IsOpened(j)}' = {j \in Keys : IsOpened(j)}
  BY <1>1 DEF Latest, Owed, IsOpened
<1>3. CASE IsPending(k) /\ pending' = Forget(pending, {k})
  <2>1. {j \in Keys : IsPending(j)}' = {j \in Keys : IsPending(j)} \ {k}
    BY <1>3, ForgetType DEF IsPending
  <2>2. k \in Owed
    BY <1>3 DEF HeldHasTask, Owed
  <2> QED BY <1>1, <1>2, <1>3, <2>1, <2>2 DEF Contract!GiveUp, publishVars
<1>4. CASE pending' = pending \/ ~IsPending(k)
  <2>1. {j \in Keys : IsPending(j)}' = {j \in Keys : IsPending(j)}
    BY <1>1, <1>4, ForgetType DEF IsPending
  <2> QED BY <1>1, <1>2, <2>1 DEF Contract!contractVars, publishVars
<1> QED BY <1>1, <1>3, <1>4

\* The ends of jdtls take its verdicts away; its start adds none.
LEMMA ProcessRefines ==
    ASSUME TypeOK, Tied,
           JdtlsStarts \/ JdtlsAnswers \/ SendFails \/ JdtlsStop \/ JdtlsExits
    PROVE  Contract!Gone \/ UNCHANGED Contract!contractVars
<1>1. UNCHANGED <<content, open, opening, position, task, publishVars>>
  BY DEF JdtlsStarts, JdtlsAnswers, SendFails, JdtlsStop, JdtlsExits, clientVars, taskVars
<1>2. Owed' = Owed /\ {j \in Keys : IsOpened(j)}' = {j \in Keys : IsOpened(j)}
  BY <1>1 DEF Owed, IsOpened
<1>3. CASE JdtlsStarts \/ JdtlsAnswers
  <2>1. Latest' = Latest
    BY <1>3 DEF JdtlsStarts, JdtlsAnswers, Latest, Tied
  <2>2. {j \in Keys : IsPending(j)}' = {j \in Keys : IsPending(j)}
    BY <1>3 DEF JdtlsStarts, JdtlsAnswers, freshVars, IsPending
  <2> QED BY <1>1, <1>2, <2>1, <2>2 DEF Contract!contractVars, publishVars
<1>4. CASE SendFails
  <2>1. Latest' = [k \in Keys |-> Null]
    BY <1>4 DEF SendFails, Latest
  <2>2. {j \in Keys : IsPending(j)}' = {j \in Keys : IsPending(j)}
    BY <1>4 DEF SendFails, freshVars, IsPending
  <2> QED BY <1>1, <1>2, <2>1, <2>2 DEF Contract!Gone, publishVars
<1>5. CASE JdtlsStop \/ JdtlsExits
  <2>1. MarkStopped
    BY <1>5 DEF JdtlsStop, JdtlsExits
  <2>2. CASE UNCHANGED <<available, cache, pending>>
    <3>1. Latest' = Latest /\ {j \in Keys : IsPending(j)}' = {j \in Keys : IsPending(j)}
      BY <2>2 DEF Latest, IsPending
    <3> QED BY <1>1, <1>2, <3>1 DEF Contract!contractVars, publishVars
  <2>3. CASE available' = FALSE /\ pending' = Forget(pending, Keys)
    <3>1. Latest' = [k \in Keys |-> Null] /\ {j \in Keys : IsPending(j)}' = {}
      BY <2>3, ForgetType DEF Latest, IsPending
    <3> QED BY <1>1, <1>2, <3>1 DEF Contract!Gone, publishVars
  <2> QED BY <2>1, <2>2, <2>3 DEF MarkStopped
<1> QED BY <1>3, <1>4, <1>5

LEMMA TickRefines ==
    ASSUME TypeOK, Tick
    PROVE  UNCHANGED Contract!contractVars
<1>1. UNCHANGED <<content, open, opening, position, available, cache, task, publishVars>>
  BY DEF Tick, clientVars
<1>2. \A k \in Keys : pending'[k] = Never <=> pending[k] = Never
  BY TimesOrdered DEF Tick, Older, TypeOK, Never
<1>3. /\ Latest' = Latest /\ Owed' = Owed
      /\ {j \in Keys : IsOpened(j)}' = {j \in Keys : IsOpened(j)}
      /\ {j \in Keys : IsPending(j)}' = {j \in Keys : IsPending(j)}
  BY <1>1, <1>2 DEF Latest, Owed, IsOpened, IsPending
<1> QED BY <1>1, <1>3 DEF Contract!contractVars, publishVars

LEMMA StepRefines ==
    TypeOK /\ HeldHasTask /\ Tied /\ [Next]_vars => [Contract!Next]_(Contract!contractVars)
<1> SUFFICES ASSUME TypeOK, HeldHasTask, Tied, [Next]_vars
             PROVE  Contract!Next \/ UNCHANGED Contract!contractVars
  OBVIOUS
<1>1. ASSUME NEW k \in Keys, OnDidOpen(k) PROVE Contract!Open(k)
  BY <1>1, OpenRefines
<1>2. ASSUME NEW k \in Keys, OnDidChange(k) PROVE Contract!Change(k)
  BY <1>2, ChangeRefines
<1>3. ASSUME NEW k \in Keys, OnDidClose(k) PROVE Contract!Close(k)
  BY <1>3, CloseRefines
<1>4. ASSUME NEW k \in Keys, OnJdtlsDiagnostics(k) PROVE Contract!Verdict(k)
  BY <1>4, DiagnosticsRefine
<1>5. ASSUME NEW k \in Keys, OnDidOpenResumes(k) \/ OnDidSave(k)
      PROVE  Contract!Preview(k) \/ Contract!Report(k) \/ Contract!ReportIsLost(k)
  BY <1>5, PublishedRefines
<1>6. ASSUME NEW k \in Keys, DebounceEnds(k) \/ HoldWakes(k)
      PROVE  Contract!Next \/ UNCHANGED Contract!contractVars
  BY <1>6, TaskRefines DEF Contract!Next
<1>7. ASSUME NEW k \in Keys, SupersededRuns(k)
      PROVE  Contract!Next \/ UNCHANGED Contract!contractVars
  BY <1>7, SupersededRefines DEF Contract!Next
<1>8. CASE JdtlsStarts \/ JdtlsAnswers \/ SendFails \/ JdtlsStop \/ JdtlsExits
  BY <1>8, ProcessRefines DEF Contract!Next
<1>9. CASE Tick
  BY <1>9, TickRefines
<1>10. CASE UNCHANGED vars
  BY <1>10 DEF vars, clientVars, jdtlsVars, freshVars, taskVars, publishVars,
               Contract!contractVars, Latest, Owed, IsOpened, IsPending
<1> QED BY <1>1, <1>2, <1>3, <1>4, <1>5, <1>6, <1>7, <1>8, <1>9, <1>10
       DEF Next, Contract!Next

\* The hold implements its contract, for any number of files, any texts, any hold mode and
\* any timing: a file's view only ever changes to its text of that moment with jdtls's
\* verdict of that moment (or, while it is held, with none), and what is owed to the client
\* or to the hook ends only by such a report, an exception or a close.
THEOREM HoldKeepsContract == Spec => KeepsContract
<1>1. Init => Contract!Init
  BY DEF Init, Contract!Init, Contract!Blank, Cleared, Latest, Owed, IsOpened, IsPending, Never
<1>2. Init => Tied
  BY DEF Init, Tied, HeldIsReachable, IsPending
<1>3. Spec => [](TypeOK /\ HeldHasTask /\ Tied)
  BY <1>2, TypeCorrect, HeldFilesHaveTasks, TiedStep, PTL DEF Spec
<1> QED BY <1>1, <1>3, StepRefines, PTL DEF Spec, KeepsContract, Contract!Spec

----------------------------------------------------------------------------
(* What the contract gives: nothing is swallowed.                           *)

\* A step of the contract keeps ViewIsCurrent; nothing is held that is not owed.
LEMMA ViewStep ==
    ASSUME TypeOK, TypeOK', HeldHasTask, Contract!ViewIsCurrent,
           [Contract!Next]_(Contract!contractVars)
    PROVE  Contract!ViewIsCurrent'
<1> DEFINE Tracked == {i \in Keys : IsOpened(i)}
           Held == {i \in Keys : IsPending(i)}
<1> SUFFICES ASSUME NEW j \in Keys, j \in open', j \in Tracked', j \notin Owed', j \notin failed'
             PROVE  shown'[j].src = content'[j] /\ Latest'[j] \in {Null, shown'[j].jd}
  BY DEF Contract!ViewIsCurrent
<1> DEFINE Fine == shown'[j].src = content'[j] /\ Latest'[j] \in {Null, shown'[j].jd}
<1>0. j \in open /\ j \in Tracked /\ j \notin Owed /\ j \notin failed =>
        shown[j].src = content[j] /\ Latest[j] \in {Null, shown[j].jd}
  BY DEF Contract!ViewIsCurrent
<1>1. Held \subseteq Owed
  BY DEF HeldHasTask, Owed
<1>2. ASSUME NEW k \in Keys, Contract!Lose(k)
      PROVE  /\ k \in failed'
             /\ \A i \in Keys \ {k} : shown'[i] = shown[i] /\ (i \in failed' <=> i \in failed)
  BY <1>2 DEF Contract!Lose
<1>3. ASSUME NEW k \in Keys, Contract!Open(k) PROVE Fine
  <2>1. /\ \A i \in Keys \ {k} : content'[i] = content[i]
        /\ open' = open \cup {k} /\ Tracked' \subseteq Tracked \cup {k} /\ Latest' = Latest
    BY <1>3 DEF Contract!Open, Contract!OnlyTextOf
  <2>2. CASE Owed' = Owed \cup {k} /\ Contract!ShowNothing
    BY <1>0, <2>1, <2>2 DEF Contract!ShowNothing
  <2>3. CASE Owed' = Owed /\ Contract!Show(k, Latest[k])
    BY <1>0, <2>1, <2>3 DEF Contract!Show, TypeOK
  <2>4. CASE Owed' = Owed /\ Contract!Lose(k)
    BY <1>0, <1>2, <2>1, <2>4
  <2> QED BY <1>3, <2>2, <2>3, <2>4 DEF Contract!Open
<1>4. ASSUME NEW k \in Keys, Contract!Change(k) PROVE Fine
  BY <1>0, <1>4 DEF Contract!Change, Contract!OnlyTextOf, Contract!ShowNothing
<1>5. ASSUME NEW k \in Keys, Contract!Close(k) PROVE Fine
  <2>1. j # k /\ content'[j] = content[j] /\ shown'[j] = shown[j]
    BY <1>5 DEF Contract!Close, Contract!OnlyTextOf, TypeOK
  <2> QED BY <1>0, <1>5, <2>1 DEF Contract!Close, Contract!MayPay
<1>6. ASSUME NEW k \in Keys, Contract!Verdict(k) PROVE Fine
  <2>1. /\ UNCHANGED <<content, open, Tracked, Owed>>
        /\ \A i \in Keys \ {k} : Latest'[i] = Latest[i]
    <3>1. \E v : Latest' = [Latest EXCEPT ![k] = v]
      BY <1>6 DEF Contract!Verdict
    <3> QED BY <1>6, <3>1 DEF Contract!Verdict, Latest
  <2>2. CASE (k \in Held \/ k \notin Tracked) /\ Contract!ShowNothing
    BY <1>0, <1>1, <2>1, <2>2 DEF Contract!ShowNothing
  <2>3. CASE Contract!Show(k, Latest'[k])
    BY <1>0, <2>1, <2>3 DEF Contract!Show, TypeOK
  <2>4. CASE Contract!Lose(k)
    BY <1>0, <1>2, <2>1, <2>4
  <2> QED BY <1>6, <2>2, <2>3, <2>4 DEF Contract!Verdict
<1>7. ASSUME NEW k \in Keys, Contract!Preview(k) PROVE Fine
  <2>1. j # k /\ shown'[j] = shown[j] /\ (j \in failed' <=> j \in failed)
    BY <1>1, <1>7 DEF Contract!Preview, Contract!Show, TypeOK
  <2> QED BY <1>0, <1>7, <2>1 DEF Contract!Preview
<1>8. ASSUME NEW k \in Keys, Contract!Report(k) PROVE Fine
  BY <1>0, <1>8 DEF Contract!Report, Contract!MayPay, Contract!Show, TypeOK
<1>9. ASSUME NEW k \in Keys, Contract!ReportIsLost(k) PROVE Fine
  BY <1>0, <1>2, <1>9 DEF Contract!ReportIsLost, Contract!MayPay
<1>10. ASSUME NEW k \in Keys, Contract!GiveUp(k) PROVE Fine
  BY <1>0, <1>10 DEF Contract!GiveUp
<1>11. CASE Contract!Gone
  BY <1>0, <1>11 DEF Contract!Gone
<1>12. CASE UNCHANGED Contract!contractVars
  BY <1>0, <1>12 DEF Contract!contractVars
<1> QED BY <1>3, <1>4, <1>5, <1>6, <1>7, <1>8, <1>9, <1>10, <1>11, <1>12
       DEF Contract!Next

\* Until jdtls is given up, a file it has published nothing for is shown without a verdict.
Unpublished ==
    \A k \in Keys : (jdtls = "starting" \/ available) /\ cache[k] = Null => shown[k].jd = Null

LEMMA UnpublishedStep == TypeOK /\ Tied /\ Unpublished /\ [Next]_vars => Unpublished'
<1> SUFFICES ASSUME TypeOK, Tied, Unpublished, [Next]_vars, NEW j \in Keys,
                    jdtls' = "starting" \/ available', cache'[j] = Null
             PROVE  shown'[j].jd = Null
  BY DEF Unpublished
<1>0. (jdtls = "starting" \/ available) /\ cache[j] = Null => shown[j].jd = Null
  BY DEF Unpublished
<1>1. ASSUME UNCHANGED <<jdtls, available, cache>>, NEW k \in Keys,
             NEW include \in BOOLEAN, NEW trigger,
             Publish(k, content[k], cache[k], include, trigger) \/ PublishRaises(k) \/ NoPublish
      PROVE  shown'[j].jd = Null
  BY <1>0, <1>1 DEF Publish, PublishRaises, NoPublish, publishVars, TypeOK
<1>2. ASSUME NEW k \in Keys, OnDidOpen(k) PROVE shown'[j].jd = Null
  <2>1. /\ UNCHANGED <<jdtls, available, cache>>
        /\ \/ UNCHANGED shown
           \/ \E c \in Contents : shown' = [shown EXCEPT ![k] = [src |-> c, jd |-> Null]]
    BY <1>2 DEF OnDidOpen
  <2> QED BY <1>0, <2>1 DEF TypeOK
<1>3. ASSUME NEW k \in Keys, OnDidChange(k) PROVE shown'[j].jd = Null
  BY <1>0, <1>3 DEF OnDidChange
<1>4. ASSUME NEW k \in Keys, OnDidClose(k) PROVE shown'[j].jd = Null
  BY <1>0, <1>4 DEF OnDidClose, Cleared, TypeOK
<1>5. ASSUME NEW k \in Keys, OnDidOpenResumes(k) \/ OnDidSave(k) PROVE shown'[j].jd = Null
  <2>1. UNCHANGED <<jdtls, available, cache>>
    BY <1>5 DEF OnDidOpenResumes, OnDidSave, jdtlsVars
  <2> QED BY <1>1, <1>5, <2>1 DEF OnDidOpenResumes, OnDidSave
<1>6. ASSUME NEW k \in Keys, DebounceEnds(k) \/ HoldWakes(k) PROVE shown'[j].jd = Null
  <2>1. UNCHANGED <<jdtls, available, cache>>
    BY <1>6 DEF DebounceEnds, HoldWakes, jdtlsVars
  <2>2. \E include \in BOOLEAN : \E trigger \in {"change", "timeout", "jdtls", "custom-first"} :
            \/ Publish(k, content[k], cache[k], include, trigger)
            \/ PublishRaises(k) \/ NoPublish
    BY <1>6 DEF DebounceEnds, HoldWakes, HoldTurn, HoldRaises
  <2> QED BY <1>1, <2>1, <2>2
<1>7. ASSUME NEW k \in Keys, OnJdtlsDiagnostics(k) PROVE shown'[j].jd = Null
  <2>1. PICK about \in inFlight[k] :
          /\ cache' = [cache EXCEPT ![k] = about]
          /\ \/ Publish(k, content[k], about, TRUE, "jdtls")
             \/ PublishRaises(k) \/ NoPublish
    BY <1>7 DEF OnJdtlsDiagnostics
  <2>2. about \in Contents
    BY DEF TypeOK
  <2>3. j # k /\ cache[j] = Null
    BY <2>1, <2>2, NullOutside DEF TypeOK
  <2>4. shown'[j] = shown[j]
    BY <2>1, <2>3 DEF Publish, PublishRaises, NoPublish, publishVars, TypeOK
  <2>5. UNCHANGED <<jdtls, available>>
    BY <1>7 DEF OnJdtlsDiagnostics
  <2> QED BY <1>0, <2>3, <2>4, <2>5
<1>8. CASE JdtlsStarts
  BY <1>0, <1>8 DEF JdtlsStarts, publishVars
<1>9. CASE JdtlsStop \/ JdtlsExits
  <2>1. MarkStopped /\ jdtls' # "starting" /\ UNCHANGED shown
    BY <1>9 DEF JdtlsStop, JdtlsExits, publishVars
  <2>2. UNCHANGED <<available, cache>>
    BY <2>1 DEF MarkStopped
  <2> QED BY <1>0, <2>1, <2>2
<1>10. CASE JdtlsAnswers \/ Tick \/ UNCHANGED vars
  BY <1>0, <1>10 DEF JdtlsAnswers, Tick, vars, publishVars, jdtlsVars
<1>11. ASSUME NEW k \in Keys, SupersededRuns(k) PROVE shown'[j].jd = Null
  BY <1>0, <1>11 DEF SupersededRuns, publishVars, jdtlsVars
<1>12. CASE SendFails
  BY <1>0, <1>12 DEF SendFails, publishVars
<1> QED BY <1>2, <1>3, <1>4, <1>5, <1>6, <1>7, <1>8, <1>9, <1>10, <1>11, <1>12 DEF Next

\* Once no task is left for an open file, the client has seen its current text with the
\* latest set that jdtls published, whatever the hold kept back: it follows from the contract.
THEOREM NothingIsSwallowed == Spec => []NothingSwallowed
<1>1. Init => Tied /\ Unpublished /\ Contract!ViewIsCurrent
  BY DEF Init, Tied, HeldIsReachable, Unpublished, Cleared, Contract!ViewIsCurrent, IsPending
<1>2. Spec => [](TypeOK /\ HeldHasTask /\ Tied /\ Unpublished)
  BY <1>1, TypeCorrect, HeldFilesHaveTasks, TiedStep, UnpublishedStep, PTL DEF Spec
<1>3. Spec => []Contract!ViewIsCurrent
  <2>1. TypeOK /\ TypeOK' /\ HeldHasTask /\ Tied /\ Contract!ViewIsCurrent /\ [Next]_vars
            => Contract!ViewIsCurrent'
    BY StepRefines, ViewStep
  <2> QED BY <1>1, <1>2, <2>1, PTL DEF Spec
<1>4. Contract!ViewIsCurrent /\ Unpublished /\ TypeOK => NothingSwallowed
  BY NullOutside DEF Contract!ViewIsCurrent, Unpublished, NothingSwallowed, Latest, Owed, TypeOK
<1> QED BY <1>2, <1>3, <1>4, PTL
=============================================================================
