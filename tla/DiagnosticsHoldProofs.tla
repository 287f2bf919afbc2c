---------------------- MODULE DiagnosticsHoldProofs ----------------------
(* Proofs about DiagnosticsHold, for every set of files and every timing.  *)
EXTENDS DiagnosticsHold, TLAPS, FiniteSetTheorems

USE DEF Never, Opening, Cleared, IsOpened, IsPending

\* What every publish helper keeps typed.
LEMMA PublishTypes ==
    ASSUME TypeOK, NEW k \in Keys, NEW src \in Contents, NEW jd \in Contents \cup {Null},
           NEW include \in BOOLEAN, NEW trigger,
           \/ Publish(k, src, jd, include, trigger)
           \/ PublishRaises(k)
           \/ NoPublish
    PROVE  /\ shown' \in [Keys -> [src : Contents \cup {Null}, jd : Contents \cup {Null}]]
           /\ failed' \subseteq Keys /\ dirty' \subseteq Keys
           /\ marker' \in [Keys -> Contents \cup {Null, Opening}]
<1>1. CASE Publish(k, src, jd, include, trigger)
  BY <1>1 DEF TypeOK, Publish
<1>2. CASE PublishRaises(k)
  BY <1>2 DEF TypeOK, PublishRaises
<1>3. CASE NoPublish
  BY <1>3 DEF TypeOK, NoPublish, publishVars
<1> QED BY <1>1, <1>2, <1>3

\* The deadline of a held file is an integer no later than its own ceiling.
LEMMA RemainingBounds ==
    ASSUME TypeOK, NEW k \in Keys, IsPending(k)
    PROVE  Remaining(k) \in Int /\ Remaining(k) <= Ceiling - pending[k]
BY TimesOrdered DEF TypeOK, Remaining

\* Opening a file keeps every position a natural number.
LEMMA RecordedType ==
    ASSUME TypeOK, NEW k \in Keys
    PROVE  Recorded(k) \in [Keys -> Nat]
<1> DEFINE S == {j \in Keys : IsOpened(j)}
<1>1. IsFiniteSet(S) /\ Cardinality(S) \in Nat
  BY KeysFinite, FS_Subset, FS_CardinalityType
<1>2. \A j \in Keys : position[j] \in Nat
  BY DEF TypeOK
<1>3. PICK n \in Nat : n = Cardinality(S)
  BY <1>1
<1> DEFINE fresh == IF n = MaxOpened THEN 1 ELSE n + 1
           p == IF IsOpened(k) THEN position[k] ELSE fresh
<1>4. p \in Nat
  BY <1>2, <1>3
<1> HIDE DEF p
<1>5. \A j \in Keys : position[j] > p => position[j] - 1 \in Nat
  BY <1>2, <1>4
<1> QED BY <1>2, <1>3, <1>4, <1>5 DEF Recorded, p

\* Forgetting files keeps the ages of the others typed.
LEMMA ForgetType ==
    ASSUME TypeOK, NEW ks
    PROVE  /\ Forget(pending, ks) \in [Keys -> 0..Ceiling \cup {Never}]
           /\ \A k \in Keys : Forget(pending, ks)[k] = IF k \in ks THEN Never ELSE pending[k]
BY DEF TypeOK, Forget

\* A server that has just started is well typed.
LEMMA InitTypeOK == Init => TypeOK
<1> SUFFICES ASSUME Init PROVE TypeOK
  OBVIOUS
<1>1. /\ content \in [Keys -> Contents] /\ open \subseteq Keys /\ opening \subseteq Keys
      /\ position \in [Keys -> Nat]
  BY DEF Init
<1>2. /\ jdtls \in {"starting", "running", "stopping", "exited"}
      /\ available \in BOOLEAN /\ ready \in BOOLEAN
      /\ cache \in [Keys -> Contents \cup {Null}]
      /\ inFlight \in [Keys -> SUBSET Contents]
  BY DEF Init
<1>3. /\ pending \in [Keys -> 0..Ceiling \cup {Never}]
      /\ lastChange \in 0..Ceiling \cup {Never}
      /\ slack \in DeadlineAfterChange..Ceiling
  BY TimesOrdered DEF Init
<1>4. /\ task \in [Keys -> {"none", "sleeping", "waiting"}]
      /\ timer \in [Keys -> 0..Ceiling]
      /\ event \in [Keys -> {"absent", "clear", "set"}]
      /\ superseded \subseteq Keys
  BY TimesOrdered DEF Init
<1>5. /\ shown \in [Keys -> [src : Contents \cup {Null}, jd : Contents \cup {Null}]]
      /\ failed \subseteq Keys /\ dirty \subseteq Keys
      /\ marker \in [Keys -> Contents \cup {Null, Opening}]
  BY DEF Init
<1> QED BY <1>1, <1>2, <1>3, <1>4, <1>5 DEF TypeOK

\* One turn of a hold's loop keeps the hold's own variables typed.
LEMMA HoldTurnType ==
    ASSUME TypeOK, NEW k \in Keys, HoldTurn(k)
    PROVE  /\ pending' \in [Keys -> 0..Ceiling \cup {Never}]
           /\ task' \in [Keys -> {"none", "sleeping", "waiting"}]
           /\ timer' \in [Keys -> 0..Ceiling]
           /\ event' \in [Keys -> {"absent", "clear", "set"}]
           /\ shown' \in [Keys -> [src : Contents \cup {Null}, jd : Contents \cup {Null}]]
           /\ failed' \subseteq Keys /\ dirty' \subseteq Keys
           /\ marker' \in [Keys -> Contents \cup {Null, Opening}]
<1>0. content[k] \in Contents /\ cache[k] \in Contents \cup {Null}
  BY DEF TypeOK
<1>1. CASE /\ ~IsPending(k) \/ Expired(k)
           /\ pending' = Forget(pending, {k})
           /\ \/ Publish(k, content[k], cache[k], TRUE,
                         IF IsPending(k) THEN "timeout" ELSE "jdtls")
              \/ PublishRaises(k)
           /\ TaskEnds(k, "absent")
  <2>1. pending' \in [Keys -> 0..Ceiling \cup {Never}]
    BY <1>1, ForgetType
  <2>2. /\ task' \in [Keys -> {"none", "sleeping", "waiting"}]
        /\ timer' \in [Keys -> 0..Ceiling]
        /\ event' \in [Keys -> {"absent", "clear", "set"}]
    BY <1>1, TimesOrdered DEF TypeOK, TaskEnds
  <2> QED BY <1>0, <1>1, <2>1, <2>2, PublishTypes
<1>2. CASE /\ IsPending(k) /\ ~Expired(k)
           /\ task' = [task EXCEPT ![k] = "waiting"]
           /\ timer' = [timer EXCEPT ![k] = Remaining(k)]
           /\ event' = EventCleared(k)
           /\ UNCHANGED pending
           /\ IF task[k] = "sleeping" /\ HoldMode = "custom-first"
              THEN Publish(k, content[k], cache[k], FALSE, "custom-first")
              ELSE NoPublish
  <2>1. Remaining(k) \in 0..Ceiling
    BY <1>2, RemainingBounds, TimesOrdered DEF Expired, TypeOK
  <2>2. /\ task' \in [Keys -> {"none", "sleeping", "waiting"}]
        /\ timer' \in [Keys -> 0..Ceiling]
        /\ event' \in [Keys -> {"absent", "clear", "set"}]
        /\ pending' \in [Keys -> 0..Ceiling \cup {Never}]
    BY <1>2, <2>1 DEF TypeOK, EventCleared
  <2>3. Publish(k, content[k], cache[k], FALSE, "custom-first") \/ NoPublish
    BY <1>2
  <2> QED BY <1>0, <2>2, <2>3, PublishTypes
<1> QED BY <1>1, <1>2 DEF HoldTurn

\* A task's turn, whichever await it returns from, keeps everything typed.
LEMMA TaskTypeOK ==
    ASSUME TypeOK, NEW k \in Keys, DebounceEnds(k) \/ HoldWakes(k)
    PROVE  TypeOK'
<1>0. content[k] \in Contents /\ cache[k] \in Contents \cup {Null}
      /\ event[k] \in {"absent", "clear", "set"}
  BY DEF TypeOK
<1>1. UNCHANGED <<clientVars, jdtlsVars, lastChange, slack, superseded>>
  BY DEF DebounceEnds, HoldWakes
<1>2. CASE HoldTurn(k)
  BY <1>1, <1>2, HoldTurnType DEF TypeOK, clientVars, jdtlsVars
<1>3. CASE ~HoldTurn(k)
  <2>1. TaskEnds(k, event[k]) \/ TaskEnds(k, "absent")
    BY <1>3 DEF DebounceEnds, HoldWakes, HoldRaises
  <2>2. /\ task' \in [Keys -> {"none", "sleeping", "waiting"}]
        /\ timer' \in [Keys -> 0..Ceiling]
        /\ event' \in [Keys -> {"absent", "clear", "set"}]
    BY <1>0, <2>1, TimesOrdered DEF TypeOK, TaskEnds
  <2>3. pending' \in [Keys -> 0..Ceiling \cup {Never}]
    <3>1. UNCHANGED pending \/ pending' = Forget(pending, {k})
      BY <1>3 DEF DebounceEnds, HoldWakes, HoldRaises
    <3> QED BY <3>1, ForgetType DEF TypeOK
  <2>4. Publish(k, content[k], cache[k], TRUE, "change") \/ PublishRaises(k)
    BY <1>3 DEF DebounceEnds, HoldWakes, HoldRaises
  <2>5. /\ shown' \in [Keys -> [src : Contents \cup {Null}, jd : Contents \cup {Null}]]
        /\ failed' \subseteq Keys /\ dirty' \subseteq Keys
        /\ marker' \in [Keys -> Contents \cup {Null, Opening}]
    BY <1>0, <2>4, PublishTypes
  <2> QED BY <1>1, <2>2, <2>3, <2>5 DEF TypeOK, clientVars, jdtlsVars
<1> QED BY <1>2, <1>3

\* The client's notifications keep everything typed.
LEMMA ClientTypeOK ==
    ASSUME TypeOK, NEW k \in Keys,
           OnDidOpen(k) \/ OnDidOpenResumes(k) \/ OnDidChange(k) \/ OnDidSave(k)
               \/ OnDidClose(k)
    PROVE  TypeOK'
<1>0. content[k] \in Contents /\ cache[k] \in Contents \cup {Null}
  BY DEF TypeOK
<1>1. CASE OnDidOpen(k)
  <2>1. position' \in [Keys -> Nat]
    BY <1>1, RecordedType DEF OnDidOpen
  <2>2. pending' \in [Keys -> 0..Ceiling \cup {Never}]
    BY <1>1, ForgetType DEF OnDidOpen
  <2>3. PICK c \in Contents :
          /\ content' = [content EXCEPT ![k] = c]
          /\ inFlight' = IF available THEN [inFlight EXCEPT ![k] = @ \cup {c}] ELSE inFlight
          /\ dirty' \subseteq Keys
          /\ marker' = IF AgentHost THEN [marker EXCEPT ![k] = Opening] ELSE marker
          /\ opening' \subseteq Keys
          /\ shown' = shown \/ shown' = [shown EXCEPT ![k] = [src |-> c, jd |-> Null]]
          /\ failed' \subseteq Keys
    <3>1. open \subseteq Keys /\ opening \subseteq Keys /\ failed \subseteq Keys
          /\ dirty \subseteq Keys
      BY DEF TypeOK
    <3> QED BY <1>1, <3>1 DEF OnDidOpen
  <2>4. content' \in [Keys -> Contents] /\ inFlight' \in [Keys -> SUBSET Contents]
    BY <2>3 DEF TypeOK
  <2>5. shown' \in [Keys -> [src : Contents \cup {Null}, jd : Contents \cup {Null}]]
    BY <2>3 DEF TypeOK
  <2>6. marker' \in [Keys -> Contents \cup {Null, Opening}]
    BY <2>3 DEF TypeOK
  <2>7. open' \subseteq Keys
        /\ UNCHANGED <<jdtls, available, ready, cache, lastChange, slack, taskVars>>
    BY <1>1 DEF OnDidOpen, TypeOK
  <2> QED BY <2>1, <2>2, <2>3, <2>4, <2>5, <2>6, <2>7 DEF TypeOK, taskVars
<1>2. CASE OnDidOpenResumes(k)
  <2>1. PICK include \in BOOLEAN : Publish(k, content[k], cache[k], include, "open")
                                   \/ PublishRaises(k)
    BY <1>2 DEF OnDidOpenResumes
  <2>2. /\ shown' \in [Keys -> [src : Contents \cup {Null}, jd : Contents \cup {Null}]]
        /\ failed' \subseteq Keys /\ dirty' \subseteq Keys
        /\ marker' \in [Keys -> Contents \cup {Null, Opening}]
    BY <1>0, <2>1, PublishTypes
  <2> QED BY <1>2, <2>2 DEF OnDidOpenResumes, TypeOK, jdtlsVars, freshVars, taskVars
<1>3. CASE OnDidChange(k)
  <2>1. content' \in [Keys -> Contents] /\ inFlight' \in [Keys -> SUBSET Contents]
    BY <1>3 DEF OnDidChange, TypeOK
  <2>2. /\ pending' \in [Keys -> 0..Ceiling \cup {Never}]
        /\ lastChange' \in 0..Ceiling \cup {Never}
    BY <1>3, TimesOrdered DEF OnDidChange, TypeOK
  <2>3. /\ task' \in [Keys -> {"none", "sleeping", "waiting"}]
        /\ timer' \in [Keys -> 0..Ceiling]
    BY <1>3, TimesOrdered DEF OnDidChange, TypeOK
  <2>4. superseded' \subseteq Keys /\ dirty' \subseteq Keys
    BY <1>3 DEF OnDidChange, TypeOK, CancelTask, MarkedDirty
  <2> QED BY <1>3, <2>1, <2>2, <2>3, <2>4 DEF OnDidChange, TypeOK
<1>4. CASE OnDidSave(k)
  <2>1. /\ shown' \in [Keys -> [src : Contents \cup {Null}, jd : Contents \cup {Null}]]
        /\ failed' \subseteq Keys /\ dirty' \subseteq Keys
        /\ marker' \in [Keys -> Contents \cup {Null, Opening}]
    BY <1>0, <1>4, PublishTypes DEF OnDidSave
  <2> QED BY <1>4, <2>1
         DEF OnDidSave, TypeOK, clientVars, jdtlsVars, freshVars, taskVars
<1>5. CASE OnDidClose(k)
  <2>1. content' \in [Keys -> Contents] /\ inFlight' \in [Keys -> SUBSET Contents]
    BY <1>5 DEF OnDidClose, TypeOK
  <2>2. pending' \in [Keys -> 0..Ceiling \cup {Never}]
    BY <1>5, ForgetType DEF OnDidClose
  <2>3. /\ task' \in [Keys -> {"none", "sleeping", "waiting"}]
        /\ timer' \in [Keys -> 0..Ceiling]
        /\ event' \in [Keys -> {"absent", "clear", "set"}]
    BY <1>5, TimesOrdered DEF OnDidClose, TypeOK, TaskEnds
  <2>4. superseded' \subseteq Keys /\ open' \subseteq Keys /\ failed' \subseteq Keys
    BY <1>5 DEF OnDidClose, TypeOK, CancelTask
  <2>5. shown' \in [Keys -> [src : Contents \cup {Null}, jd : Contents \cup {Null}]]
    BY <1>5 DEF OnDidClose, TypeOK
  <2> QED BY <1>5, <2>1, <2>2, <2>3, <2>4, <2>5 DEF OnDidClose, TypeOK
<1> QED BY <1>1, <1>2, <1>3, <1>4, <1>5

\* What _mark_stopped does to the holds: it forgets them all, or nothing.
LEMMA MarkStoppedEffect ==
    ASSUME TypeOK, MarkStopped
    PROVE  /\ available' \in BOOLEAN /\ cache' \in [Keys -> Contents \cup {Null}]
           /\ pending' \in [Keys -> 0..Ceiling \cup {Never}]
           /\ lastChange' \in 0..Ceiling \cup {Never}
           /\ event' \in [Keys -> {"absent", "clear", "set"}]
           /\ \/ UNCHANGED <<pending, event>>
              \/ \A k \in Keys : pending'[k] = Never
<1>1. CASE UNCHANGED <<available, cache, pending, lastChange, event>>
  BY <1>1 DEF TypeOK
<1>2. CASE /\ available' = FALSE
           /\ cache' = [k \in Keys |-> Null]
           /\ pending' = Forget(pending, Keys)
           /\ lastChange' = Never
           /\ event' = [k \in Keys |-> IF event[k] = "absent" THEN "absent" ELSE "set"]
  BY <1>2, ForgetType
<1> QED BY <1>1, <1>2 DEF MarkStopped

\* What jdtls's set for a file does, by branch of _on_jdtls_diagnostics.
LEMMA JdtlsDiagnosticsTypeOK ==
    ASSUME TypeOK, NEW k \in Keys, OnJdtlsDiagnostics(k)
    PROVE  TypeOK'
<1>0. /\ ready' \in BOOLEAN
      /\ UNCHANGED <<clientVars, jdtls, available, inFlight, lastChange, task, timer,
                     superseded>>
  BY DEF OnJdtlsDiagnostics, TypeOK
<1>1. PICK about \in inFlight[k] :
        /\ cache' = [cache EXCEPT ![k] = about]
        /\ \/ UNCHANGED <<pending, slack, event>> /\ NoPublish
           \/ /\ pending' = Forget(pending, {k})
              /\ slack' \in DeadlineAfterChange..Ceiling
              /\ event' = IF event[k] = "absent" THEN event ELSE [event EXCEPT ![k] = "set"]
              /\ NoPublish
           \/ /\ UNCHANGED <<pending, slack, event>>
              /\ Publish(k, content[k], about, TRUE, "jdtls") \/ PublishRaises(k)
  BY DEF OnJdtlsDiagnostics
<1>2. about \in Contents /\ content[k] \in Contents
  BY DEF TypeOK
<1>3. cache' \in [Keys -> Contents \cup {Null}]
  BY <1>1, <1>2 DEF TypeOK
<1>4. /\ pending' \in [Keys -> 0..Ceiling \cup {Never}]
      /\ slack' \in DeadlineAfterChange..Ceiling
      /\ event' \in [Keys -> {"absent", "clear", "set"}]
  <2>1. pending' = pending \/ pending' = Forget(pending, {k})
    BY <1>1
  <2>2. slack' = slack \/ slack' \in DeadlineAfterChange..Ceiling
    BY <1>1
  <2>3. event' = event \/ event' = [event EXCEPT ![k] = "set"]
    BY <1>1
  <2>4. pending' \in [Keys -> 0..Ceiling \cup {Never}]
    BY <2>1, ForgetType DEF TypeOK
  <2> QED BY <2>2, <2>3, <2>4 DEF TypeOK
<1>5. /\ shown' \in [Keys -> [src : Contents \cup {Null}, jd : Contents \cup {Null}]]
      /\ failed' \subseteq Keys /\ dirty' \subseteq Keys
      /\ marker' \in [Keys -> Contents \cup {Null, Opening}]
  BY <1>1, <1>2, PublishTypes
<1> QED BY <1>0, <1>3, <1>4, <1>5 DEF TypeOK, clientVars

\* Time keeps ages and countdowns within the ceiling.
LEMMA TickTypeOK ==
    ASSUME TypeOK, Tick
    PROVE  TypeOK'
<1>0. \A age \in 0..Ceiling \cup {Never} : Older(age) \in 0..Ceiling \cup {Never}
  BY TimesOrdered DEF Older
<1>1. pending' \in [Keys -> 0..Ceiling \cup {Never}]
  BY <1>0 DEF TypeOK, Tick
<1>2. lastChange' \in 0..Ceiling \cup {Never}
  BY <1>0 DEF TypeOK, Tick
<1>3. timer' \in [Keys -> 0..Ceiling]
  <2>1. \A t \in 0..Ceiling : (IF t = 0 THEN 0 ELSE t - 1) \in 0..Ceiling
    BY TimesOrdered
  <2>2. timer' = [k \in Keys |-> IF timer[k] = 0 THEN 0 ELSE timer[k] - 1]
    BY DEF Tick
  <2>3. \A k \in Keys : timer[k] \in 0..Ceiling
    BY DEF TypeOK
  <2> QED BY <2>1, <2>2, <2>3
<1>4. inFlight' \in [Keys -> SUBSET Contents]
  BY DEF TypeOK, Tick
<1> QED BY <1>1, <1>2, <1>3, <1>4 DEF TypeOK, Tick, clientVars, publishVars

\* Every step of the server, of jdtls and of time keeps everything typed.
LEMMA StepTypeOK == TypeOK /\ [Next]_vars => TypeOK'
<1> SUFFICES ASSUME TypeOK, [Next]_vars PROVE TypeOK'
  OBVIOUS
<1>1. ASSUME NEW k \in Keys,
             OnDidOpen(k) \/ OnDidOpenResumes(k) \/ OnDidChange(k) \/ OnDidSave(k)
                 \/ OnDidClose(k)
      PROVE  TypeOK'
  BY <1>1, ClientTypeOK
<1>2. ASSUME NEW k \in Keys, OnJdtlsDiagnostics(k) PROVE TypeOK'
  BY <1>2, JdtlsDiagnosticsTypeOK
<1>3. ASSUME NEW k \in Keys, DebounceEnds(k) \/ HoldWakes(k) PROVE TypeOK'
  BY <1>3, TaskTypeOK
<1>4. ASSUME NEW k \in Keys, SupersededRuns(k) PROVE TypeOK'
  <2>1. pending' \in [Keys -> 0..Ceiling \cup {Never}]
    BY <1>4, ForgetType DEF SupersededRuns, TypeOK
  <2>2. event' \in [Keys -> {"absent", "clear", "set"}] /\ superseded' \subseteq Keys
    BY <1>4 DEF SupersededRuns, TypeOK
  <2> QED BY <1>4, <2>1, <2>2 DEF SupersededRuns, TypeOK, clientVars, jdtlsVars, publishVars
<1>5. CASE JdtlsStarts
  <2>1. inFlight' \in [Keys -> SUBSET Contents]
    BY <1>5 DEF JdtlsStarts, TypeOK
  <2> QED BY <1>5, <2>1 DEF JdtlsStarts, TypeOK, clientVars, freshVars, taskVars, publishVars
<1>6. CASE JdtlsAnswers \/ SendFails
  BY <1>6 DEF JdtlsAnswers, SendFails, TypeOK, clientVars, freshVars, taskVars, publishVars
<1>7. CASE JdtlsStop \/ JdtlsExits
  <2>1. MarkStopped
    BY <1>7 DEF JdtlsStop, JdtlsExits
  <2> QED BY <1>7, <2>1, MarkStoppedEffect
         DEF JdtlsStop, JdtlsExits, TypeOK, clientVars, publishVars
<1>8. CASE Tick
  BY <1>8, TickTypeOK
<1>9. CASE UNCHANGED vars
  BY <1>9 DEF TypeOK, vars, clientVars, jdtlsVars, freshVars, taskVars, publishVars
<1> QED BY <1>1, <1>2, <1>3, <1>4, <1>5, <1>6, <1>7, <1>8, <1>9 DEF Next

\* Every reachable state is well typed: in particular every age and countdown of
\* the holds stays within 0..Ceiling, so no wait is armed with a negative time.
THEOREM TypeCorrect == Spec => []TypeOK
BY InitTypeOK, StepTypeOK, PTL DEF Spec

----------------------------------------------------------------------------
(* The holds.  Five invariants, each inductive once the state is typed.     *)

\* What a turn of a hold task does to its file, and that it leaves every other
\* file's hold alone.
LEMMA HoldTurnEffect ==
    ASSUME TypeOK, NEW k \in Keys, HoldTurn(k)
    PROVE  /\ \A j \in Keys \ {k} : /\ pending'[j] = pending[j] /\ task'[j] = task[j]
                                   /\ timer'[j] = timer[j] /\ event'[j] = event[j]
           /\ \/ pending'[k] = Never
              \/ /\ IsPending(k) /\ pending'[k] = pending[k]
                 /\ task'[k] = "waiting" /\ event'[k] = "clear"
                 /\ timer'[k] = Remaining(k)
<1>1. CASE /\ pending' = Forget(pending, {k})
           /\ TaskEnds(k, "absent")
  BY <1>1, ForgetType DEF TypeOK, TaskEnds
<1>2. CASE /\ IsPending(k)
           /\ task' = [task EXCEPT ![k] = "waiting"]
           /\ timer' = [timer EXCEPT ![k] = Remaining(k)]
           /\ event' = EventCleared(k)
           /\ UNCHANGED pending
  BY <1>2 DEF TypeOK, EventCleared
<1> QED BY <1>1, <1>2 DEF HoldTurn

\* The same for any run of a current task.
LEMMA TaskEffect ==
    ASSUME TypeOK, NEW k \in Keys, DebounceEnds(k) \/ HoldWakes(k)
    PROVE  /\ \A j \in Keys \ {k} : /\ pending'[j] = pending[j] /\ task'[j] = task[j]
                                   /\ timer'[j] = timer[j] /\ event'[j] = event[j]
           /\ \/ pending'[k] = Never
              \/ /\ IsPending(k) /\ pending'[k] = pending[k]
                 /\ task'[k] = "waiting" /\ event'[k] = "clear"
                 /\ timer'[k] = Remaining(k)
<1>1. CASE HoldTurn(k)
  BY <1>1, HoldTurnEffect
<1>2. CASE /\ ~IsPending(k) /\ UNCHANGED pending
           /\ TaskEnds(k, event[k])
  BY <1>2 DEF TypeOK, TaskEnds
<1>3. CASE HoldRaises(k)
  BY <1>3, ForgetType DEF TypeOK, TaskEnds, HoldRaises
<1> QED BY <1>1, <1>2, <1>3 DEF DebounceEnds, HoldWakes

\* What an edit does to the holds.
LEMMA ChangeEffect ==
    ASSUME TypeOK, NEW k \in Keys, OnDidChange(k)
    PROVE  /\ task'[k] = "sleeping"
           /\ pending'[k] = pending[k] \/ IsOpened(k)
           /\ \A j \in Keys \ {k} : /\ pending'[j] = pending[j] /\ task'[j] = task[j]
                                   /\ timer'[j] = timer[j]
           /\ UNCHANGED <<event, position>>
BY DEF OnDidChange, TypeOK, Eligible

\* What closing a file does to the holds.
LEMMA CloseEffect ==
    ASSUME TypeOK, NEW k \in Keys, OnDidClose(k)
    PROVE  /\ pending'[k] = Never
           /\ \A j \in Keys \ {k} : /\ pending'[j] = pending[j] /\ task'[j] = task[j]
                                   /\ timer'[j] = timer[j] /\ event'[j] = event[j]
           /\ UNCHANGED position
BY ForgetType DEF OnDidClose, TypeOK, TaskEnds

\* A step that is not one of the current tasks', an edit or a close leaves the
\* tasks alone, and only ages, keeps or ends a hold.
LEMMA OtherEffect ==
    ASSUME TypeOK, [Next]_vars,
           \A k \in Keys : ~OnDidChange(k) /\ ~OnDidClose(k)
                          /\ ~DebounceEnds(k) /\ ~HoldWakes(k)
    PROVE  /\ UNCHANGED task
           /\ \/ Tick
              \/ /\ UNCHANGED timer
                 /\ \A k \in Keys : pending'[k] \in {pending[k], Never}
           /\ \A k \in Keys : pending'[k] # Never => IsPending(k)
<1>1. ASSUME NEW k \in Keys, OnDidOpen(k)
      PROVE  UNCHANGED <<task, timer>> /\ \A j \in Keys : pending'[j] \in {pending[j], Never}
  BY <1>1, ForgetType DEF OnDidOpen, taskVars
<1>2. ASSUME NEW k \in Keys, OnDidOpenResumes(k) \/ OnDidSave(k)
      PROVE  UNCHANGED <<task, timer, pending>>
  BY <1>2 DEF OnDidOpenResumes, OnDidSave, freshVars, taskVars
<1>3. ASSUME NEW k \in Keys, OnJdtlsDiagnostics(k)
      PROVE  UNCHANGED <<task, timer>> /\ \A j \in Keys : pending'[j] \in {pending[j], Never}
  <2>1. UNCHANGED <<task, timer>> /\ (pending' = pending \/ pending' = Forget(pending, {k}))
    BY <1>3 DEF OnJdtlsDiagnostics
  <2> QED BY <2>1, ForgetType
<1>4. ASSUME NEW k \in Keys, SupersededRuns(k)
      PROVE  UNCHANGED <<task, timer>> /\ \A j \in Keys : pending'[j] \in {pending[j], Never}
  <2>1. UNCHANGED <<task, timer>> /\ (pending' = pending \/ pending' = Forget(pending, {k}))
    BY <1>4 DEF SupersededRuns
  <2> QED BY <2>1, ForgetType
<1>5. CASE JdtlsStarts \/ JdtlsAnswers \/ SendFails
  BY <1>5 DEF JdtlsStarts, JdtlsAnswers, SendFails, freshVars, taskVars
<1>6. CASE JdtlsStop \/ JdtlsExits
  <2>1. UNCHANGED <<task, timer>> /\ MarkStopped
    BY <1>6 DEF JdtlsStop, JdtlsExits
  <2> QED BY <2>1, MarkStoppedEffect
<1>7. CASE Tick
  BY <1>7, TimesOrdered DEF Tick, Older, TypeOK
<1>8. CASE UNCHANGED vars
  BY <1>8 DEF vars, freshVars, taskVars
<1> QED BY <1>1, <1>2, <1>3, <1>4, <1>5, <1>6, <1>7, <1>8 DEF Next

\* A held file always has a current task that will publish it, so no edit is
\* ever stranded (_deferred_validate, _hold_until_fresh, on_did_close, stops).
LEMMA HeldHasTaskStep == TypeOK /\ HeldHasTask /\ [Next]_vars => HeldHasTask'
<1> SUFFICES ASSUME TypeOK, HeldHasTask, [Next]_vars, NEW j \in Keys, pending'[j] # Never
             PROVE  task'[j] # "none"
  BY DEF HeldHasTask
<1>1. ASSUME NEW k \in Keys, OnDidChange(k) PROVE task'[j] # "none"
  BY <1>1, ChangeEffect DEF HeldHasTask
<1>2. ASSUME NEW k \in Keys, OnDidClose(k) PROVE task'[j] # "none"
  BY <1>2, CloseEffect DEF HeldHasTask
<1>3. ASSUME NEW k \in Keys, DebounceEnds(k) \/ HoldWakes(k) PROVE task'[j] # "none"
  BY <1>3, TaskEffect DEF HeldHasTask
<1>4. CASE \A k \in Keys : ~OnDidChange(k) /\ ~OnDidClose(k)
                          /\ ~DebounceEnds(k) /\ ~HoldWakes(k)
  BY <1>4, OtherEffect DEF HeldHasTask
<1> QED BY <1>1, <1>2, <1>3, <1>4

\* No reachable state has a held file without the task that will publish it.
THEOREM HeldFilesHaveTasks == Spec => []HeldHasTask
<1>1. Init => HeldHasTask
  BY DEF Init, HeldHasTask
<1> QED BY <1>1, TypeCorrect, HeldHasTaskStep, PTL DEF Spec

\* The timeout a hold sleeps on never outlasts the ceiling of its own file,
\* for any number of files and any rate of edits to the others.
LEMMA WaitIsBoundedStep == TypeOK /\ WaitIsBounded /\ [Next]_vars => WaitIsBounded'
<1> SUFFICES ASSUME TypeOK, WaitIsBounded, [Next]_vars, NEW j \in Keys,
                    task'[j] = "waiting", pending'[j] # Never
             PROVE  timer'[j] + pending'[j] <= Ceiling
  BY DEF WaitIsBounded
<1>0. pending[j] \in 0..Ceiling \cup {Never} /\ timer[j] \in 0..Ceiling
  BY DEF TypeOK
<1>1. ASSUME NEW k \in Keys, OnDidChange(k) PROVE timer'[j] + pending'[j] <= Ceiling
  BY <1>1, ChangeEffect DEF WaitIsBounded
<1>2. ASSUME NEW k \in Keys, OnDidClose(k) PROVE timer'[j] + pending'[j] <= Ceiling
  BY <1>2, CloseEffect DEF WaitIsBounded
<1>3. ASSUME NEW k \in Keys, DebounceEnds(k) \/ HoldWakes(k)
      PROVE  timer'[j] + pending'[j] <= Ceiling
  <2>1. CASE j = k
    <3>1. IsPending(j) /\ pending'[j] = pending[j] /\ timer'[j] = Remaining(j)
      BY <1>3, <2>1, TaskEffect
    <3>2. Remaining(j) \in Int /\ Remaining(j) <= Ceiling - pending[j]
      BY <3>1, RemainingBounds
    <3> QED BY <1>0, <3>1, <3>2, TimesOrdered
  <2> QED BY <1>3, <2>1, TaskEffect DEF WaitIsBounded
<1>4. CASE Tick
  <2>1. task[j] = "waiting" /\ pending'[j] = Older(pending[j])
        /\ timer'[j] = IF timer[j] = 0 THEN 0 ELSE timer[j] - 1
    BY <1>4 DEF Tick, TypeOK
  <2>2. IsPending(j) /\ timer[j] + pending[j] <= Ceiling
    BY <2>1 DEF Older, WaitIsBounded
  <2> QED BY <1>0, <2>1, <2>2, TimesOrdered DEF Older
<1>5. CASE ~Tick /\ \A k \in Keys : ~OnDidChange(k) /\ ~OnDidClose(k)
                                   /\ ~DebounceEnds(k) /\ ~HoldWakes(k)
  BY <1>5, OtherEffect DEF WaitIsBounded
<1> QED BY <1>1, <1>2, <1>3, <1>4, <1>5

\* In every reachable state a hold sleeps at most until Ceiling after the last
\* edit of its own file, whatever is edited meanwhile (deadline's second bound).
THEOREM HoldsAreBounded == Spec => []WaitIsBounded
<1>1. Init => WaitIsBounded
  BY DEF Init, WaitIsBounded
<1> QED BY <1>1, TypeCorrect, WaitIsBoundedStep, PTL DEF Spec

----------------------------------------------------------------------------
(* The opened list, what is held and what is unsettled.                     *)

\* What ties the hold's variables together where the contract relies on it: a held or
\* unsettled file is in the opened list, and a jdtls that has not started published nothing.
Tied ==
    /\ HeldIsReachable
    /\ \A k \in dirty : IsOpened(k)
    /\ jdtls = "starting" => ~available /\ \A k \in Keys : cache[k] = Null

\* The opened list after an open holds the file, and of the others those it held before
\* except the evicted ones.
LEMMA RecordedOpens ==
    ASSUME TypeOK, NEW k \in Keys
    PROVE  /\ Recorded(k)[k] > 0
           /\ \A j \in Keys \ {k} : Recorded(k)[j] > 0 <=> IsOpened(j) /\ j \notin Evicted(k)
<1> DEFINE S == {j \in Keys : IsOpened(j)}
<1>1. IsFiniteSet(S) /\ Cardinality(S) \in Nat
  BY KeysFinite, FS_Subset, FS_CardinalityType
<1>2. IsOpened(k) => Cardinality(S) > 0
  BY <1>1, FS_EmptySet DEF IsOpened
<1>3. \A j \in Keys : position[j] \in Nat
  BY DEF TypeOK
<1>4. PICK n \in Nat : n = Cardinality(S)
  BY <1>1
<1>5. Recorded(k)[k] > 0
  BY <1>2, <1>3, <1>4, CapPositive DEF Recorded, IsOpened
<1>6. ASSUME NEW j \in Keys \ {k}
      PROVE  Recorded(k)[j] > 0 => IsOpened(j)
  BY <1>3, <1>4, CapPositive DEF Recorded, IsOpened
<1>7. ASSUME NEW j \in Keys PROVE Recorded(k)[j] \in Nat
  BY RecordedType
<1> QED BY <1>5, <1>6, <1>7 DEF Evicted

\* A publish or a lost one settles at most its own file.
LEMMA PublishSettles ==
    ASSUME NEW k \in Keys, NEW src, NEW jd, NEW include \in BOOLEAN, NEW trigger,
           Publish(k, src, jd, include, trigger) \/ PublishRaises(k) \/ NoPublish
    PROVE  dirty' \in {dirty, dirty \ {k}}
BY DEF Publish, PublishRaises, NoPublish, publishVars

LEMMA TiedStep == TypeOK /\ Tied /\ [Next]_vars => Tied'
<1> SUFFICES ASSUME TypeOK, Tied, [Next]_vars PROVE Tied'
  OBVIOUS
<1>0. \A k \in Keys : position[k] \in Nat
  BY DEF TypeOK
<1>1. ASSUME NEW k \in Keys, OnDidOpen(k) PROVE Tied'
  <2>1. /\ position' = Recorded(k) /\ pending' = Forget(pending, Evicted(k))
        /\ dirty' \subseteq (dirty \ Evicted(k)) \cup {k}
        /\ UNCHANGED <<jdtls, available, cache>>
    BY <1>1 DEF OnDidOpen
  <2>2. \A j \in Keys : pending'[j] # Never => pending[j] # Never /\ j \notin Evicted(k)
    BY <2>1, ForgetType
  <2>3. dirty \subseteq Keys
    BY DEF TypeOK
  <2> QED BY <2>1, <2>2, <2>3, RecordedOpens DEF Tied, HeldIsReachable
<1>2. ASSUME NEW k \in Keys, OnDidChange(k) PROVE Tied'
  <2>1. /\ dirty' \subseteq dirty \cup {k} /\ (k \in dirty' => k \in dirty \/ IsOpened(k))
        /\ UNCHANGED <<jdtls, available, cache>>
    BY <1>2 DEF OnDidChange, MarkedDirty
  <2> QED BY <1>2, <2>1, ChangeEffect DEF Tied, HeldIsReachable
<1>3. ASSUME NEW k \in Keys, OnDidClose(k) PROVE Tied'
  <2>1. UNCHANGED <<jdtls, available, cache, dirty>>
    BY <1>3 DEF OnDidClose
  <2> QED BY <1>3, <2>1, CloseEffect DEF Tied, HeldIsReachable
<1>4. ASSUME NEW k \in Keys, OnDidOpenResumes(k) \/ OnDidSave(k) PROVE Tied'
  <2>1. UNCHANGED <<position, pending, jdtls, available, cache>>
    BY <1>4 DEF OnDidOpenResumes, OnDidSave, clientVars, jdtlsVars, freshVars
  <2>2. dirty' \in {dirty, dirty \ {k}}
    BY <1>4, PublishSettles DEF OnDidOpenResumes, OnDidSave
  <2> QED BY <2>1, <2>2 DEF Tied, HeldIsReachable
<1>5. ASSUME NEW k \in Keys, DebounceEnds(k) \/ HoldWakes(k) PROVE Tied'
  <2>1. UNCHANGED <<position, jdtls, available, cache>>
    BY <1>5 DEF DebounceEnds, HoldWakes, clientVars, jdtlsVars
  <2>2. dirty' \in {dirty, dirty \ {k}}
    BY <1>5, PublishSettles DEF DebounceEnds, HoldWakes, HoldTurn, HoldRaises
  <2> QED BY <1>5, <2>1, <2>2, TaskEffect DEF Tied, HeldIsReachable
<1>6. ASSUME NEW k \in Keys, OnJdtlsDiagnostics(k) PROVE Tied'
  <2>1. /\ UNCHANGED <<position, jdtls, available>> /\ jdtls # "starting"
        /\ pending' = pending \/ pending' = Forget(pending, {k})
    BY <1>6 DEF OnJdtlsDiagnostics, clientVars
  <2>2. dirty' \in {dirty, dirty \ {k}}
    BY <1>6, PublishSettles DEF OnJdtlsDiagnostics
  <2> QED BY <2>1, <2>2, ForgetType DEF Tied, HeldIsReachable
<1>7. ASSUME NEW k \in Keys, SupersededRuns(k) PROVE Tied'
  <2>1. /\ UNCHANGED <<position, jdtls, available, cache, dirty>>
        /\ pending' = pending \/ pending' = Forget(pending, {k})
    BY <1>7 DEF SupersededRuns, clientVars, jdtlsVars, publishVars
  <2> QED BY <2>1, ForgetType DEF Tied, HeldIsReachable
<1>8. CASE JdtlsStarts \/ JdtlsAnswers \/ SendFails
  BY <1>8 DEF JdtlsStarts, JdtlsAnswers, SendFails, clientVars, freshVars, publishVars, Tied,
             HeldIsReachable
<1>9. CASE JdtlsStop \/ JdtlsExits
  <2>1. MarkStopped /\ UNCHANGED <<position, dirty>> /\ jdtls' # "starting"
    BY <1>9 DEF JdtlsStop, JdtlsExits, clientVars, publishVars
  <2> QED BY <2>1, MarkStoppedEffect DEF Tied, HeldIsReachable
<1>10. CASE Tick
  <2>1. UNCHANGED <<position, dirty, jdtls, available, cache>>
    BY <1>10 DEF Tick, clientVars, publishVars
  <2>2. \A k \in Keys : pending'[k] # Never => pending[k] # Never
    BY <1>10, TimesOrdered DEF Tick, Older
  <2> QED BY <2>1, <2>2 DEF Tied, HeldIsReachable
<1>11. CASE UNCHANGED vars
  BY <1>11 DEF vars, clientVars, jdtlsVars, freshVars, publishVars, Tied, HeldIsReachable
<1> QED BY <1>1, <1>2, <1>3, <1>4, <1>5, <1>6, <1>7, <1>8, <1>9, <1>10, <1>11 DEF Next

\* Every held file is in the opened list, so that jdtls's next publish reaches its hold,
\* for any number of files and any length of the list.
THEOREM HeldFilesAreReachable == Spec => []HeldIsReachable
<1>1. Init => Tied
  BY DEF Init, Tied, HeldIsReachable, IsPending
<1>2. Spec => []Tied
  BY <1>1, TypeCorrect, TiedStep, PTL DEF Spec
<1>3. Tied => HeldIsReachable
  BY DEF Tied
<1> QED BY <1>2, <1>3, PTL

----------------------------------------------------------------------------
(* Events, markers and the verdict of a released hold.                      *)

LEMMA HoldIsWakeableStep == TypeOK /\ HoldIsWakeable /\ [Next]_vars => HoldIsWakeable'
<1> SUFFICES ASSUME TypeOK, HoldIsWakeable, [Next]_vars, NEW j \in Keys,
                    task'[j] = "waiting", pending'[j] # Never
             PROVE  event'[j] = "clear"
  BY DEF HoldIsWakeable
<1>1. ASSUME NEW k \in Keys, OnDidChange(k) PROVE event'[j] = "clear"
  BY <1>1, ChangeEffect DEF HoldIsWakeable
<1>2. ASSUME NEW k \in Keys, OnDidClose(k) PROVE event'[j] = "clear"
  BY <1>2, CloseEffect DEF HoldIsWakeable
<1>3. ASSUME NEW k \in Keys, DebounceEnds(k) \/ HoldWakes(k) PROVE event'[j] = "clear"
  BY <1>3, TaskEffect DEF HoldIsWakeable
<1>4. CASE \A k \in Keys : ~OnDidChange(k) /\ ~OnDidClose(k)
                          /\ ~DebounceEnds(k) /\ ~HoldWakes(k)
  <2>1. event[j] = "clear"
    BY <1>4, OtherEffect DEF HoldIsWakeable
  <2>2. ASSUME NEW k \in Keys, OnJdtlsDiagnostics(k) PROVE event'[j] = "clear"
    <3>1. \/ UNCHANGED event
          \/ pending' = Forget(pending, {k})
             /\ (event' = event \/ event' = [event EXCEPT ![k] = "set"])
      BY <2>2 DEF OnJdtlsDiagnostics
    <3> QED BY <2>1, <3>1, ForgetType DEF TypeOK
  <2>3. ASSUME NEW k \in Keys, SupersededRuns(k) PROVE event'[j] = "clear"
    BY <2>1, <2>3 DEF SupersededRuns, TypeOK
  <2>4. CASE JdtlsStop \/ JdtlsExits
    <3>1. MarkStopped
      BY <2>4 DEF JdtlsStop, JdtlsExits
    <3> QED BY <2>1, <3>1, MarkStoppedEffect
  <2>5. ASSUME UNCHANGED event PROVE event'[j] = "clear"
    BY <2>1, <2>5
  <2> QED BY <1>4, <2>2, <2>3, <2>4, <2>5
         DEF Next, vars, taskVars, OnDidOpen, OnDidOpenResumes, OnDidSave, JdtlsStarts,
             JdtlsAnswers, SendFails, Tick
<1> QED BY <1>1, <1>2, <1>3, <1>4

\* While a hold sleeps, its event is registered and clear, whoever cleared or set it before
\* (on_did_change, _release, superseded tasks): a release will wake it and none is stale.
THEOREM HoldsAreWakeable == Spec => []HoldIsWakeable
<1>1. Init => HoldIsWakeable
  BY DEF Init, HoldIsWakeable
<1> QED BY <1>1, TypeCorrect, HoldIsWakeableStep, PTL DEF Spec

\* A publish with the trigger "open", or without jdtls's set, is never final.
LEMMA OpenIsNotFinal ==
    ASSUME NEW k \in Keys, NEW jd, NEW include \in BOOLEAN, NEW trigger,
           include => trigger = "open",
           Publish(k, content[k], jd, include, trigger) \/ PublishRaises(k) \/ NoPublish
    PROVE  dirty' = dirty
BY DEF Publish, PublishRaises, NoPublish, publishVars, IsFinal

LEMMA HeldIsNotFinalStep == TypeOK /\ Tied /\ HeldIsNotFinal /\ [Next]_vars => HeldIsNotFinal'
<1> SUFFICES ASSUME TypeOK, Tied, HeldIsNotFinal, [Next]_vars, AgentHost,
                    NEW j \in Keys, pending'[j] # Never
             PROVE  j \in dirty'
  BY DEF HeldIsNotFinal
<1>0. AgentHost /\ pending[j] # Never => j \in dirty
  BY DEF HeldIsNotFinal
<1>1. ASSUME NEW k \in Keys, OnDidOpen(k) PROVE j \in dirty'
  <2>1. /\ pending' = Forget(pending, Evicted(k))
        /\ (dirty \ Evicted(k)) \subseteq dirty'
    BY <1>1 DEF OnDidOpen
  <2> QED BY <1>0, <2>1, ForgetType
<1>2. ASSUME NEW k \in Keys, OnDidChange(k) PROVE j \in dirty'
  <2>1. dirty \subseteq dirty' /\ (IsOpened(k) => k \in dirty')
    BY <1>2 DEF OnDidChange, MarkedDirty
  <2>2. j # k => pending'[j] = pending[j]
    BY <1>2, ChangeEffect
  <2>3. j = k => IsOpened(j)
    BY <1>2, ChangeEffect DEF Tied, HeldIsReachable
  <2> QED BY <1>0, <2>1, <2>2, <2>3
<1>3. ASSUME NEW k \in Keys, OnDidClose(k) PROVE j \in dirty'
  <2>1. UNCHANGED dirty
    BY <1>3 DEF OnDidClose
  <2> QED BY <1>0, <1>3, <2>1, CloseEffect
<1>4. ASSUME NEW k \in Keys, OnDidOpenResumes(k) \/ OnDidSave(k) PROVE j \in dirty'
  <2>1. UNCHANGED pending
    BY <1>4 DEF OnDidOpenResumes, OnDidSave, freshVars
  <2>2. dirty' = dirty
    BY <1>4, OpenIsNotFinal DEF OnDidOpenResumes, OnDidSave
  <2> QED BY <1>0, <2>1, <2>2
<1>5. ASSUME NEW k \in Keys, DebounceEnds(k) \/ HoldWakes(k) PROVE j \in dirty'
  <2>1. dirty' \in {dirty, dirty \ {k}}
    BY <1>5, PublishSettles DEF DebounceEnds, HoldWakes, HoldTurn, HoldRaises
  <2>2. CASE pending'[k] = Never
    BY <1>0, <1>5, <2>1, <2>2, TaskEffect
  <2>3. CASE pending'[k] # Never
    <3>1. IsPending(k) /\ UNCHANGED pending
      BY <1>5, <2>3, ForgetType DEF HoldTurn, HoldRaises, DebounceEnds, HoldWakes
    <3>2. Publish(k, content[k], cache[k], FALSE, "custom-first") \/ NoPublish
      BY <1>5, <2>3, <3>1, ForgetType DEF HoldTurn, HoldRaises, DebounceEnds, HoldWakes
    <3>3. dirty' = dirty
      BY <3>2, OpenIsNotFinal
    <3> QED BY <1>0, <3>1, <3>3
  <2> QED BY <2>2, <2>3
<1>6. ASSUME NEW k \in Keys, OnJdtlsDiagnostics(k) PROVE j \in dirty'
  <2>1. pending' = pending \/ pending' = Forget(pending, {k})
    BY <1>6 DEF OnJdtlsDiagnostics
  <2>2. dirty' = dirty \/ (UNCHANGED pending /\ ~IsPending(k) /\ dirty' \in {dirty, dirty \ {k}})
    <3>1. ASSUME NEW about,
                 Publish(k, content[k], about, TRUE, "jdtls") \/ PublishRaises(k)
          PROVE  dirty' \in {dirty, dirty \ {k}}
      BY <3>1, PublishSettles
    <3> QED BY <1>6, <3>1 DEF OnJdtlsDiagnostics, NoPublish, publishVars
  <2> QED BY <1>0, <2>1, <2>2, ForgetType
<1>7. ASSUME NEW k \in Keys, SupersededRuns(k) PROVE j \in dirty'
  <2>1. /\ UNCHANGED dirty
        /\ pending' = pending \/ pending' = Forget(pending, {k})
    BY <1>7 DEF SupersededRuns, publishVars
  <2> QED BY <1>0, <2>1, ForgetType
<1>8. CASE JdtlsStarts \/ JdtlsAnswers \/ SendFails \/ UNCHANGED vars
  BY <1>0, <1>8 DEF JdtlsStarts, JdtlsAnswers, SendFails, freshVars, publishVars, vars
<1>9. CASE JdtlsStop \/ JdtlsExits
  <2>1. MarkStopped /\ UNCHANGED dirty
    BY <1>9 DEF JdtlsStop, JdtlsExits, publishVars
  <2> QED BY <1>0, <2>1, MarkStoppedEffect
<1>10. CASE Tick
  <2>1. UNCHANGED dirty /\ pending[j] # Never
    BY <1>10 DEF Tick, Older, publishVars
  <2> QED BY <1>0, <2>1
<1> QED BY <1>1, <1>2, <1>3, <1>4, <1>5, <1>6, <1>7, <1>8, <1>9, <1>10 DEF Next

\* For an agent a held file is never marked final (_stamp_final_publish): the hook goes on
\* waiting until the publish that ends the hold.
THEOREM HeldFilesAreNotFinal == Spec => []HeldIsNotFinal
<1>1. Init => HeldIsNotFinal
  BY DEF Init, HeldIsNotFinal
<1>2. Init => Tied
  BY DEF Init, Tied, HeldIsReachable
<1> QED BY <1>1, <1>2, TypeCorrect, TiedStep, HeldIsNotFinalStep, PTL DEF Spec

\* FinalMeansShown without the exemption of failed files for the marker itself.
Stamped ==
    AgentHost => \A k \in open \ dirty : IsOpened(k) =>
        marker[k] = content[k] /\ (k \notin failed => shown[k].src = content[k])

\* What a publish of the current text, a lost one or none leaves of markers and views.
LEMMA PublishStamps ==
    ASSUME TypeOK, NEW k \in Keys, NEW jd, NEW include \in BOOLEAN, NEW trigger,
           Publish(k, content[k], jd, include, trigger) \/ PublishRaises(k) \/ NoPublish,
           NEW j \in Keys, j \notin dirty'
    PROVE  /\ \/ j \notin dirty /\ marker'[j] = marker[j]
              \/ marker'[j] = content[j] /\ shown'[j].src = content[j]
           /\ j \notin failed' =>
                 \/ shown'[j].src = content[j]
                 \/ j \notin failed /\ j \notin dirty /\ shown'[j] = shown[j]
<1>1. CASE Publish(k, content[k], jd, include, trigger)
  <2>1. shown'[k].src = content[k] /\ \A i \in Keys \ {k} : shown'[i] = shown[i]
    BY <1>1 DEF Publish, TypeOK
  <2>2. CASE include /\ AgentHost /\ IsFinal(trigger) /\ k \in dirty
    <3>1. /\ marker'[k] = content[k] /\ \A i \in Keys \ {k} : marker'[i] = marker[i]
          /\ dirty' = dirty \ {k} /\ failed' = failed \ {k}
      BY <1>1, <2>2 DEF Publish, TypeOK
    <3> QED BY <2>1, <3>1
  <2>3. CASE ~(include /\ AgentHost /\ IsFinal(trigger) /\ k \in dirty)
    <3>1. marker' = marker /\ dirty' = dirty /\ failed' = failed \ {k}
      BY <1>1, <2>3 DEF Publish
    <3> QED BY <2>1, <3>1
  <2> QED BY <2>2, <2>3
<1>2. CASE PublishRaises(k)
  BY <1>2 DEF PublishRaises
<1>3. CASE NoPublish
  BY <1>3 DEF NoPublish, publishVars
<1> QED BY <1>1, <1>2, <1>3

LEMMA StampedStep == TypeOK /\ Stamped /\ [Next]_vars => Stamped'
<1> SUFFICES ASSUME TypeOK, Stamped, [Next]_vars, AgentHost,
                    NEW j \in Keys, j \in open', j \notin dirty', position'[j] > 0
             PROVE  marker'[j] = content'[j] /\ (j \notin failed' => shown'[j].src = content'[j])
  BY DEF Stamped, TypeOK, Next, vars, clientVars, OnDidOpen, OnDidOpenResumes, OnDidChange,
         OnDidSave, OnDidClose, OnJdtlsDiagnostics, DebounceEnds, HoldWakes, SupersededRuns,
         JdtlsStarts, JdtlsAnswers, SendFails, JdtlsStop, JdtlsExits, Tick
<1> DEFINE Fine == marker'[j] = content'[j] /\ (j \notin failed' => shown'[j].src = content'[j])
<1>0. j \in open \ dirty /\ position[j] > 0 =>
        marker[j] = content[j] /\ (j \notin failed => shown[j].src = content[j])
  BY DEF Stamped
<1>1. ASSUME NEW k \in Keys, OnDidOpen(k) PROVE Fine
  <2>1. /\ (dirty \ Evicted(k)) \cup {k} = dirty' /\ open' = open \cup {k}
        /\ position' = Recorded(k)
    BY <1>1 DEF OnDidOpen
  <2>2. j # k /\ position[j] > 0 /\ j \in open \ dirty
    BY <2>1, RecordedOpens
  <2>3. PICK c \in Contents :
           /\ content' = [content EXCEPT ![k] = c]
           /\ marker' = [marker EXCEPT ![k] = Opening]
           /\ \/ UNCHANGED <<shown, failed>>
              \/ /\ shown' = [shown EXCEPT ![k] = [src |-> c, jd |-> Null]]
                 /\ failed' = failed \ {k}
              \/ UNCHANGED shown /\ failed' = failed \cup {k}
    BY <1>1 DEF OnDidOpen
  <2>4. content'[j] = content[j] /\ marker'[j] = marker[j]
    BY <2>2, <2>3 DEF TypeOK
  <2>5. shown'[j] = shown[j] /\ (j \in failed' <=> j \in failed)
    BY <2>2, <2>3 DEF TypeOK
  <2> QED BY <1>0, <2>2, <2>4, <2>5
<1>2. ASSUME NEW k \in Keys, OnDidChange(k) PROVE Fine
  <2>1. /\ dirty' = MarkedDirty(k) /\ \A i \in Keys \ {k} : content'[i] = content[i]
        /\ UNCHANGED <<open, position, shown, failed, marker>>
    BY <1>2 DEF OnDidChange, TypeOK
  <2>2. j # k /\ j \notin dirty
    BY <2>1 DEF MarkedDirty
  <2> QED BY <1>0, <2>1, <2>2
<1>3. ASSUME NEW k \in Keys, OnDidClose(k) PROVE Fine
  <2>1. /\ open' = open \ {k} /\ failed' = failed \ {k}
        /\ \A i \in Keys \ {k} : content'[i] = content[i] /\ shown'[i] = shown[i]
        /\ UNCHANGED <<position, marker, dirty>>
    BY <1>3 DEF OnDidClose, TypeOK
  <2> QED BY <1>0, <2>1
<1>4. ASSUME UNCHANGED <<content, open, position>>, NEW k \in Keys,
             NEW jd, NEW include \in BOOLEAN, NEW trigger,
             Publish(k, content[k], jd, include, trigger) \/ PublishRaises(k) \/ NoPublish
      PROVE  Fine
  BY <1>0, <1>4, PublishStamps
<1>5. ASSUME NEW k \in Keys, OnDidOpenResumes(k) \/ OnDidSave(k) PROVE Fine
  <2>1. UNCHANGED <<content, open, position>>
    BY <1>5 DEF OnDidOpenResumes, OnDidSave, clientVars
  <2> QED BY <1>4, <1>5, <2>1 DEF OnDidOpenResumes, OnDidSave
<1>6. ASSUME NEW k \in Keys, DebounceEnds(k) \/ HoldWakes(k) PROVE Fine
  <2>1. UNCHANGED <<content, open, position>>
    BY <1>6 DEF DebounceEnds, HoldWakes, clientVars
  <2>2. \E include \in BOOLEAN : \E trigger \in {"change", "timeout", "jdtls", "custom-first"} :
            \/ Publish(k, content[k], cache[k], include, trigger)
            \/ PublishRaises(k) \/ NoPublish
    BY <1>6 DEF DebounceEnds, HoldWakes, HoldTurn, HoldRaises
  <2> QED BY <1>4, <2>1, <2>2
<1>7. ASSUME NEW k \in Keys, OnJdtlsDiagnostics(k) PROVE Fine
  <2>1. UNCHANGED <<content, open, position>>
    BY <1>7 DEF OnJdtlsDiagnostics, clientVars
  <2>2. \E about \in inFlight[k] :
            Publish(k, content[k], about, TRUE, "jdtls") \/ PublishRaises(k) \/ NoPublish
    BY <1>7 DEF OnJdtlsDiagnostics
  <2> QED BY <1>4, <2>1, <2>2
<1>8. ASSUME UNCHANGED <<content, open, position, publishVars>> PROVE Fine
  BY <1>0, <1>8 DEF publishVars
<1> QED BY <1>1, <1>2, <1>3, <1>5, <1>6, <1>7, <1>8
       DEF Next, vars, clientVars, publishVars, SupersededRuns, JdtlsStarts, JdtlsAnswers,
           SendFails, JdtlsStop, JdtlsExits, Tick

\* When nothing is owed to the hook for a file, its marker names the text the client was
\* last shown and that is the current text, for any number of files and evictions.
THEOREM FinalIsShown == Spec => []FinalMeansShown
<1>1. Init => Stamped
  BY DEF Init, Stamped
<1>2. Spec => []Stamped
  BY <1>1, TypeCorrect, StampedStep, PTL DEF Spec
<1>3. Stamped => FinalMeansShown
  BY DEF Stamped, FinalMeansShown
<1> QED BY <1>2, <1>3, PTL

----------------------------------------------------------------------------
(* What a released hold publishes.                                          *)

\* A file is held only while it is eligible, a closed file has no task, and there is
\* nothing to hold or to wake before jdtls has started.
Settled ==
    /\ HeldHasTask
    /\ \A k \in Keys : IsPending(k) => Eligible(k)
    /\ \A k \in Keys \ open : task[k] = "none"
    /\ jdtls = "starting" => ~available /\ \A k \in Keys : ~IsPending(k) /\ event[k] # "set"

\* With the debounce that FRESH_MIN_AGE assumes of jdtls: it has nothing left to say about
\* an older text once a held file's edit has that age, nor once the hold is released.
Answered ==
    \A k \in Keys : available =>
        /\ pending[k] >= FreshMinAge => inFlight[k] = {content[k]}
        /\ task[k] = "waiting" /\ event[k] = "set" =>
               inFlight[k] = {content[k]} /\ cache[k] = content[k]

LEMMA SettledStep == TypeOK /\ Tied /\ Settled /\ [Next]_vars => Settled'
<1> SUFFICES ASSUME TypeOK, Tied, Settled, [Next]_vars PROVE Settled'
  OBVIOUS
<1>1. HeldHasTask'
  BY HeldHasTaskStep DEF Settled
<1>2. ready => ready'
  BY DEF TypeOK, Next, vars, jdtlsVars, OnDidOpen, OnDidOpenResumes, OnDidChange,
         OnDidSave, OnDidClose, OnJdtlsDiagnostics, DebounceEnds, HoldWakes, SupersededRuns,
         JdtlsStarts, JdtlsAnswers, SendFails, JdtlsStop, JdtlsExits, Tick
<1>3. Tied' /\ TypeOK'
  BY TiedStep, StepTypeOK
<1>4. ASSUME NEW k \in Keys, pending'[k] # Never, IsPending(k)
      PROVE  Eligible(k)'
  BY <1>2, <1>3, <1>4 DEF Settled, Eligible, Tied, HeldIsReachable
<1>5. ASSUME NEW k \in Keys, OnDidChange(k) PROVE Settled'
  <2>1. /\ \/ pending' = pending
           \/ available /\ Eligible(k) /\ pending' = [pending EXCEPT ![k] = 0]
        /\ task' = [task EXCEPT ![k] = "sleeping"] /\ k \in open
        /\ UNCHANGED <<jdtls, available, open, position, ready, event>>
    BY <1>5 DEF OnDidChange
  <2>2. \A j \in Keys : pending'[j] # Never => IsPending(j) \/ (j = k /\ Eligible(j))
    BY <2>1 DEF TypeOK
  <2>3. \A j \in Keys : pending'[j] # Never => Eligible(j)'
    BY <2>1, <2>2 DEF Settled, Eligible
  <2>4. \A j \in Keys \ open : task'[j] = "none"
    BY <2>1 DEF Settled, TypeOK
  <2>5. jdtls = "starting" => pending' = pending
    BY <2>1 DEF Settled
  <2> QED BY <1>1, <2>1, <2>3, <2>4, <2>5 DEF Settled
<1>6. ASSUME NEW k \in Keys, OnDidClose(k) PROVE Settled'
  <2>1. /\ open' = open \ {k} /\ task'[k] = "none" /\ event'[k] # "set"
        /\ UNCHANGED <<jdtls, available>>
    BY <1>6 DEF OnDidClose, TaskEnds, TypeOK
  <2>2. /\ pending'[k] = Never
        /\ \A j \in Keys \ {k} : pending'[j] = pending[j] /\ task'[j] = task[j] /\ event'[j] = event[j]
    BY <1>6, CloseEffect
  <2> QED BY <1>1, <1>4, <2>1, <2>2 DEF Settled
<1>7. ASSUME NEW k \in Keys, DebounceEnds(k) \/ HoldWakes(k) PROVE Settled'
  <2>1. /\ UNCHANGED <<open, jdtls, available>> /\ task[k] # "none"
    BY <1>7 DEF DebounceEnds, HoldWakes, clientVars, jdtlsVars
  <2>2. event'[k] # "set" \/ event'[k] = event[k]
    BY <1>7 DEF DebounceEnds, HoldWakes, HoldTurn, HoldRaises, TaskEnds, EventCleared, TypeOK
  <2> QED BY <1>1, <1>4, <1>7, <2>1, <2>2, TaskEffect DEF Settled
<1>8. CASE \A k \in Keys : ~OnDidChange(k) /\ ~OnDidClose(k)
                          /\ ~DebounceEnds(k) /\ ~HoldWakes(k)
  <2>1. UNCHANGED task /\ \A k \in Keys : pending'[k] # Never => IsPending(k)
    BY <1>8, OtherEffect
  <2>2. open \subseteq open' /\ open' \subseteq Keys
    BY <1>3, <1>8 DEF TypeOK, Next, vars, clientVars, OnDidOpen, OnDidOpenResumes, OnDidSave,
           OnJdtlsDiagnostics, SupersededRuns, JdtlsStarts, JdtlsAnswers, SendFails, JdtlsStop,
           JdtlsExits, Tick
  <2>3. jdtls' = "starting" => UNCHANGED <<jdtls, available>>
    BY <1>8 DEF Next, vars, jdtlsVars, OnDidOpen, OnDidOpenResumes, OnDidSave,
           OnJdtlsDiagnostics, SupersededRuns, JdtlsStarts, JdtlsAnswers, SendFails, JdtlsStop,
           JdtlsExits, Tick
  <2>4. jdtls' = "starting" => \A k \in Keys : event'[k] # "set"
    <3>1. ASSUME NEW k \in Keys, SupersededRuns(k), jdtls = "starting"
          PROVE  \A j \in Keys : event'[j] # "set"
      BY <3>1 DEF SupersededRuns, Settled, TypeOK
    <3>2. ASSUME jdtls' = "starting", \A k \in Keys : ~SupersededRuns(k)
          PROVE  UNCHANGED event
      BY <1>8, <3>2 DEF Next, vars, taskVars, OnDidOpen, OnDidOpenResumes, OnDidSave,
             OnJdtlsDiagnostics, JdtlsStarts, JdtlsAnswers, SendFails, JdtlsStop,
             JdtlsExits, Tick
    <3> QED BY <2>3, <3>1, <3>2 DEF Settled
  <2> QED BY <1>1, <1>4, <2>1, <2>2, <2>3, <2>4 DEF Settled
<1> QED BY <1>5, <1>6, <1>7, <1>8

LEMMA AnsweredStep ==
    ASSUME ~LateJdtls, TypeOK, Settled, Answered, [Next]_vars
    PROVE  Answered'
<1> SUFFICES ASSUME NEW j \in Keys, available'
             PROVE  /\ pending'[j] >= FreshMinAge => inFlight'[j] = {content'[j]}
                    /\ task'[j] = "waiting" /\ event'[j] = "set" =>
                           inFlight'[j] = {content'[j]} /\ cache'[j] = content'[j]
  BY DEF Answered
<1> DEFINE Done == /\ pending'[j] >= FreshMinAge => inFlight'[j] = {content'[j]}
                   /\ task'[j] = "waiting" /\ event'[j] = "set" =>
                          inFlight'[j] = {content'[j]} /\ cache'[j] = content'[j]
<1>0. /\ available /\ pending[j] >= FreshMinAge => inFlight[j] = {content[j]}
      /\ available /\ task[j] = "waiting" /\ event[j] = "set" =>
             inFlight[j] = {content[j]} /\ cache[j] = content[j]
      /\ ~(Never >= FreshMinAge) /\ ~(0 >= FreshMinAge)
  BY TimesOrdered DEF Answered
<1>1. ASSUME NEW k \in Keys, OnDidOpen(k) PROVE Done
  <2>1. /\ \A i \in Keys \ {k} : content'[i] = content[i] /\ inFlight'[i] = inFlight[i]
        /\ UNCHANGED <<available, cache, task, event>> /\ k \notin open
        /\ pending' = Forget(pending, Evicted(k))
    BY <1>1 DEF OnDidOpen, taskVars, TypeOK
  <2>2. task[k] = "none" /\ pending[k] = Never
    BY <2>1 DEF Settled, HeldHasTask
  <2> QED BY <1>0, <2>1, <2>2, ForgetType
<1>2. ASSUME NEW k \in Keys, OnDidChange(k) PROVE Done
  <2>1. /\ \A i \in Keys \ {k} : content'[i] = content[i] /\ inFlight'[i] = inFlight[i]
        /\ UNCHANGED <<available, cache, event>> /\ task'[k] = "sleeping"
        /\ \A i \in Keys \ {k} : task'[i] = task[i] /\ pending'[i] = pending[i]
    BY <1>2 DEF OnDidChange, TypeOK
  <2>2. available => pending'[k] \in {0, Never}
    <3>1. available /\ Eligible(k) => pending'[k] = 0
      BY <1>2 DEF OnDidChange, TypeOK
    <3>2. ~Eligible(k) => pending'[k] = pending[k] /\ pending[k] = Never
      BY <1>2 DEF OnDidChange, Settled
    <3> QED BY <3>1, <3>2
  <2> QED BY <1>0, <2>1, <2>2
<1>3. ASSUME NEW k \in Keys, OnDidClose(k) PROVE Done
  <2>1. /\ \A i \in Keys \ {k} : content'[i] = content[i] /\ inFlight'[i] = inFlight[i]
        /\ UNCHANGED <<available, cache>> /\ task'[k] = "none"
    BY <1>3 DEF OnDidClose, TaskEnds, TypeOK
  <2> QED BY <1>0, <1>3, <2>1, CloseEffect
<1>4. ASSUME NEW k \in Keys, DebounceEnds(k) \/ HoldWakes(k) PROVE Done
  <2>1. UNCHANGED <<content, inFlight, available, cache>>
    BY <1>4 DEF DebounceEnds, HoldWakes, clientVars, jdtlsVars
  <2>2. /\ \A i \in Keys \ {k} : task'[i] = task[i] /\ pending'[i] = pending[i] /\ event'[i] = event[i]
        /\ pending'[k] \in {pending[k], Never}
    BY <1>4, TaskEffect
  <2>3. ~(task'[k] = "waiting" /\ event'[k] = "set")
    BY <1>4 DEF DebounceEnds, HoldWakes, HoldTurn, HoldRaises, TaskEnds, EventCleared, TypeOK
  <2> QED BY <1>0, <2>1, <2>2, <2>3
<1>5. ASSUME NEW k \in Keys, OnJdtlsDiagnostics(k) PROVE Done
  <2>1. UNCHANGED <<content, available, inFlight, task>>
    BY <1>5 DEF OnJdtlsDiagnostics, clientVars
  <2>2. PICK about \in inFlight[k] :
          /\ cache' = [cache EXCEPT ![k] = about]
          /\ \/ UNCHANGED <<pending, event>>
             \/ /\ IsPending(k) /\ ~TooEarly(k)
                /\ pending' = Forget(pending, {k})
                /\ event' = IF event[k] = "absent" THEN event ELSE [event EXCEPT ![k] = "set"]
    BY <1>5 DEF OnJdtlsDiagnostics
  <2>3. cache'[k] = about /\ \A i \in Keys \ {k} : cache'[i] = cache[i]
    BY <2>2 DEF TypeOK
  <2>4. CASE UNCHANGED <<pending, event>>
    BY <1>0, <2>1, <2>2, <2>3, <2>4
  <2>5. CASE /\ IsPending(k) /\ ~TooEarly(k)
             /\ pending' = Forget(pending, {k})
             /\ event' = IF event[k] = "absent" THEN event ELSE [event EXCEPT ![k] = "set"]
    <3>1. pending'[k] = Never /\ \A i \in Keys \ {k} : pending'[i] = pending[i] /\ event'[i] = event[i]
      BY <2>5, ForgetType DEF TypeOK
    <3>2. pending[k] >= FreshMinAge
      BY <2>5, TimesOrdered DEF TooEarly, TypeOK
    <3>3. j = k => inFlight[k] = {content[k]}
      BY <1>0, <2>1, <3>2
    <3> QED BY <1>0, <2>1, <2>2, <2>3, <3>1, <3>3
  <2> QED BY <2>2, <2>4, <2>5
<1>6. ASSUME NEW k \in Keys, SupersededRuns(k) PROVE Done
  <2>1. UNCHANGED <<content, available, inFlight, cache, task>>
    BY <1>6 DEF SupersededRuns, clientVars, jdtlsVars
  <2>2. pending' = pending \/ pending' = Forget(pending, {k})
    BY <1>6 DEF SupersededRuns
  <2>3. event' = event \/ event' = [event EXCEPT ![k] = "clear"]
    BY <1>6 DEF SupersededRuns
  <2>4. pending'[j] \in {pending[j], Never} /\ (event'[j] = "set" => event[j] = "set")
    BY <2>2, <2>3, ForgetType DEF TypeOK
  <2> QED BY <1>0, <2>1, <2>4
<1>7. CASE JdtlsStarts
  <2>1. pending[j] = Never /\ event[j] # "set" /\ UNCHANGED <<pending, event, task>>
    BY <1>7 DEF JdtlsStarts, Settled, freshVars, taskVars
  <2> QED BY <1>0, <2>1
<1>8. CASE JdtlsStop \/ JdtlsExits
  <2>1. MarkStopped /\ UNCHANGED <<content, inFlight, task>>
    BY <1>8 DEF JdtlsStop, JdtlsExits, clientVars
  <2>2. UNCHANGED <<available, cache, pending, event>>
    BY <2>1 DEF MarkStopped
  <2> QED BY <1>0, <2>1, <2>2
<1>9. CASE Tick
  <2>1. /\ UNCHANGED <<content, available, cache, task, event>>
        /\ pending'[j] = Older(pending[j])
        /\ inFlight'[j] = IF IsPending(j) /\ pending'[j] >= FreshMinAge
                          THEN {content[j]} ELSE inFlight[j]
    BY <1>9 DEF Tick, clientVars, publishVars
  <2>2. pending'[j] >= FreshMinAge => IsPending(j)
    BY <1>0, <2>1 DEF Older
  <2> QED BY <1>0, <2>1, <2>2
<1>10. CASE \/ JdtlsAnswers \/ SendFails \/ UNCHANGED vars
            \/ \E k \in Keys : OnDidOpenResumes(k) \/ OnDidSave(k)
  <2>1. UNCHANGED <<content, inFlight, cache, pending, event, task>> /\ (available' => available)
    BY <1>10 DEF JdtlsAnswers, SendFails, OnDidOpenResumes, OnDidSave, vars, clientVars,
           jdtlsVars, freshVars, taskVars
  <2> QED BY <1>0, <2>1
<1> QED BY <1>1, <1>2, <1>3, <1>4, <1>5, <1>6, <1>7, <1>8, <1>9, <1>10 DEF Next

\* What a woken hold shows comes from the cache of that moment or is without a verdict.
LEMMA WokenShowsAnswer ==
    ASSUME TypeOK, Answered, NEW k \in Keys, HoldWakes(k), event[k] = "set",
           shown'[k] # shown[k]
    PROVE  shown'[k].jd \in {Null, content[k]}
<1>1. /\ task[k] = "waiting" /\ UNCHANGED available
      /\ \E include \in BOOLEAN : \E trigger \in {"timeout", "jdtls", "custom-first"} :
            Publish(k, content[k], cache[k], include, trigger)
  BY DEF HoldWakes, HoldTurn, PublishRaises, NoPublish, publishVars, jdtlsVars
<1>2. shown'[k].jd \in {Null, IF available THEN cache[k] ELSE Null}
  BY <1>1 DEF Publish, TypeOK
<1> QED BY <1>1, <1>2 DEF Answered

\* If jdtls's debounce is what FRESH_MIN_AGE takes it to be, a hold that jdtls released
\* never pairs the new text with diagnostics of an older one: for any number of files, any
\* rate of edits, and with failed writes, exits and superseded tasks in between.
THEOREM ReleasesAreFresh == ASSUME ~LateJdtls PROVE Spec => ReleaseIsFresh
<1>1. Init => Settled /\ Answered /\ Tied
  BY TimesOrdered DEF Init, Settled, Answered, Tied, HeldHasTask, HeldIsReachable
<1>2. TypeOK /\ Settled /\ Answered /\ [Next]_vars => Answered'
  BY AnsweredStep
<1>3. TypeOK /\ Answered /\ [Next]_vars =>
        [\A k \in Keys : HoldWakes(k) /\ event[k] = "set" /\ shown'[k] # shown[k]
                           => shown'[k].jd \in {Null, content[k]}]_vars
  BY WokenShowsAnswer
<1> QED BY <1>1, <1>2, <1>3, TypeCorrect, TiedStep, SettledStep, PTL DEF Spec, ReleaseIsFresh

----------------------------------------------------------------------------
(* When the two claims hold that the code does not keep in general.         *)

\* Without a lost write nothing is held beside a jdtls that is not available.
HeldForJdtls ==
    /\ ~available => \A k \in Keys : ~IsPending(k)
    /\ jdtls \in {"stopping", "exited"} => ~available

LEMMA HeldForJdtlsStep ==
    TypeOK /\ HeldForJdtls /\ [Next]_vars /\ [~SendFails]_vars => HeldForJdtls'
<1> SUFFICES ASSUME TypeOK, HeldForJdtls, [Next]_vars, [~SendFails]_vars PROVE HeldForJdtls'
  OBVIOUS
<1>1. ASSUME UNCHANGED <<jdtls, available>>,
             \A k \in Keys : ~available /\ ~IsPending(k) => pending'[k] = Never
      PROVE  HeldForJdtls'
  BY <1>1 DEF HeldForJdtls
<1>2. ASSUME NEW k \in Keys, OnDidChange(k) PROVE HeldForJdtls'
  <2>1. UNCHANGED <<jdtls, available>> /\ (~available => pending' = pending)
    BY <1>2 DEF OnDidChange
  <2> QED BY <1>1, <2>1
<1>3. ASSUME NEW k \in Keys, OnDidClose(k) PROVE HeldForJdtls'
  <2>1. UNCHANGED <<jdtls, available>>
    BY <1>3 DEF OnDidClose
  <2> QED BY <1>1, <1>3, <2>1, CloseEffect
<1>4. ASSUME NEW k \in Keys, DebounceEnds(k) \/ HoldWakes(k) PROVE HeldForJdtls'
  <2>1. UNCHANGED <<jdtls, available>>
    BY <1>4 DEF DebounceEnds, HoldWakes, jdtlsVars
  <2> QED BY <1>1, <1>4, <2>1, TaskEffect
<1>5. ASSUME \A k \in Keys : ~OnDidChange(k) /\ ~OnDidClose(k) /\ ~DebounceEnds(k) /\ ~HoldWakes(k)
      PROVE  HeldForJdtls'
  <2>1. \A k \in Keys : pending'[k] # Never => IsPending(k)
    BY <1>5, OtherEffect
  <2>2. CASE JdtlsStarts
    BY <2>1, <2>2 DEF JdtlsStarts, HeldForJdtls
  <2>3. CASE JdtlsStop \/ JdtlsExits
    <3>1. MarkStopped /\ jdtls' \in {"stopping", "exited"}
      BY <2>3 DEF JdtlsStop, JdtlsExits
    <3>2. available' = FALSE
      BY <3>1 DEF MarkStopped, TypeOK
    <3>3. ~available => \A k \in Keys : ~(pending'[k] # Never)
      BY <2>1 DEF HeldForJdtls
    <3>4. available => \A k \in Keys : pending'[k] = Never
      BY <3>1, ForgetType DEF MarkStopped
    <3> QED BY <3>1, <3>2, <3>3, <3>4 DEF HeldForJdtls
  <2>4. CASE SendFails
    <3>1. UNCHANGED vars
      BY <2>4
    <3> QED BY <1>1, <2>1, <3>1 DEF vars, jdtlsVars
  <2>5. CASE ~JdtlsStarts /\ ~JdtlsStop /\ ~JdtlsExits /\ ~SendFails
    <3>1. UNCHANGED <<jdtls, available>>
      BY <1>5, <2>5 DEF Next, OnDidOpen, OnDidOpenResumes, OnDidSave, OnJdtlsDiagnostics,
             SupersededRuns, JdtlsAnswers, Tick, vars, jdtlsVars
    <3> QED BY <1>1, <2>1, <3>1
  <2> QED BY <2>2, <2>3, <2>4, <2>5
<1> QED BY <1>2, <1>3, <1>4, <1>5

\* What _on_jdtls_stopped says it does it fails to do only after a write to jdtls failed: as
\* long as none does, no file is held once jdtls has exited (ExitReleasesAll).
THEOREM ExitReleasesUnlessSendFails ==
    Spec /\ [][~SendFails]_vars => []ExitReleasesAll
<1>1. Init => HeldForJdtls
  BY DEF Init, HeldForJdtls
<1>2. HeldForJdtls => ExitReleasesAll
  BY DEF HeldForJdtls, ExitReleasesAll
<1> QED BY <1>1, <1>2, TypeCorrect, HeldForJdtlsStep, PTL DEF Spec

\* No edit puts back the text that the file's marker names.
EditIsNoRevert == \A k \in open : content'[k] # content[k] => content'[k] # marker[k]

\* What a publish of the current text, a lost one or none leaves of a matching marker.
LEMMA PublishMatches ==
    ASSUME TypeOK, NEW k \in Keys, NEW jd, NEW include \in BOOLEAN, NEW trigger,
           Publish(k, content[k], jd, include, trigger) \/ PublishRaises(k) \/ NoPublish,
           NEW j \in Keys, j \notin failed', marker'[j] = content[j]
    PROVE  \/ shown'[j].src = content[j]
           \/ j \notin failed /\ marker[j] = content[j] /\ shown'[j] = shown[j]
<1>1. CASE Publish(k, content[k], jd, include, trigger)
  <2>1. shown'[k].src = content[k] /\ \A i \in Keys \ {k} : shown'[i] = shown[i]
    BY <1>1 DEF Publish, TypeOK
  <2>2. failed' = failed \ {k} /\ \A i \in Keys \ {k} : marker'[i] = marker[i]
    BY <1>1 DEF Publish, TypeOK
  <2> QED BY <2>1, <2>2
<1>2. CASE PublishRaises(k)
  BY <1>2 DEF PublishRaises
<1>3. CASE NoPublish
  BY <1>3 DEF NoPublish, publishVars
<1> QED BY <1>1, <1>2, <1>3

LEMMA MarkerProvesStep ==
    TypeOK /\ MarkerProvesShown /\ [Next]_vars /\ [EditIsNoRevert]_vars => MarkerProvesShown'
<1> SUFFICES ASSUME TypeOK, MarkerProvesShown, [Next]_vars, [EditIsNoRevert]_vars, AgentHost,
                    NEW j \in Keys, j \in open', position'[j] > 0, j \notin failed',
                    marker'[j] = content'[j]
             PROVE  shown'[j].src = content'[j]
  BY StepTypeOK DEF MarkerProvesShown, TypeOK
<1> DEFINE Fine == shown'[j].src = content'[j]
<1>0. j \in open /\ position[j] > 0 /\ j \notin failed /\ marker[j] = content[j] =>
        shown[j].src = content[j]
  BY DEF MarkerProvesShown
<1>1. ASSUME NEW k \in Keys, OnDidOpen(k) PROVE Fine
  <2>1. open' = open \cup {k} /\ position' = Recorded(k)
    BY <1>1 DEF OnDidOpen
  <2>2. PICK c \in Contents :
           /\ content' = [content EXCEPT ![k] = c]
           /\ marker' = [marker EXCEPT ![k] = Opening]
           /\ \/ UNCHANGED <<shown, failed>>
              \/ /\ shown' = [shown EXCEPT ![k] = [src |-> c, jd |-> Null]]
                 /\ failed' = failed \ {k}
              \/ UNCHANGED shown /\ failed' = failed \cup {k}
    BY <1>1 DEF OnDidOpen
  <2>3. marker'[k] # content'[k]
    BY <2>2, NullOutside DEF TypeOK
  <2>4. j # k /\ j \in open /\ position[j] > 0
    BY <2>1, <2>3, RecordedOpens
  <2>5. content'[j] = content[j] /\ marker'[j] = marker[j] /\ shown'[j] = shown[j]
        /\ j \notin failed
    BY <2>2, <2>4 DEF TypeOK
  <2> QED BY <1>0, <2>4, <2>5
<1>2. ASSUME NEW k \in Keys, OnDidChange(k) PROVE Fine
  <2>1. UNCHANGED <<open, position, shown, failed, marker>>
    BY <1>2 DEF OnDidChange
  <2>2. content'[j] = content[j]
    <3>1. EditIsNoRevert \/ UNCHANGED content
      BY DEF vars, clientVars
    <3> QED BY <2>1, <3>1 DEF EditIsNoRevert
  <2> QED BY <1>0, <2>1, <2>2
<1>3. ASSUME NEW k \in Keys, OnDidClose(k) PROVE Fine
  <2>1. /\ open' = open \ {k} /\ failed' = failed \ {k}
        /\ \A i \in Keys \ {k} : content'[i] = content[i] /\ shown'[i] = shown[i]
        /\ UNCHANGED <<position, marker>>
    BY <1>3 DEF OnDidClose, TypeOK
  <2> QED BY <1>0, <2>1
<1>4. ASSUME UNCHANGED <<content, open, position>>, NEW k \in Keys,
             NEW jd, NEW include \in BOOLEAN, NEW trigger,
             Publish(k, content[k], jd, include, trigger) \/ PublishRaises(k) \/ NoPublish
      PROVE  Fine
  BY <1>0, <1>4, PublishMatches
<1>5. ASSUME NEW k \in Keys, OnDidOpenResumes(k) \/ OnDidSave(k) PROVE Fine
  <2>1. UNCHANGED <<content, open, position>>
    BY <1>5 DEF OnDidOpenResumes, OnDidSave, clientVars
  <2> QED BY <1>4, <1>5, <2>1 DEF OnDidOpenResumes, OnDidSave
<1>6. ASSUME NEW k \in Keys, DebounceEnds(k) \/ HoldWakes(k) PROVE Fine
  <2>1. UNCHANGED <<content, open, position>>
    BY <1>6 DEF DebounceEnds, HoldWakes, clientVars
  <2>2. \E include \in BOOLEAN : \E trigger \in {"change", "timeout", "jdtls", "custom-first"} :
            \/ Publish(k, content[k], cache[k], include, trigger)
            \/ PublishRaises(k) \/ NoPublish
    BY <1>6 DEF DebounceEnds, HoldWakes, HoldTurn, HoldRaises
  <2> QED BY <1>4, <2>1, <2>2
<1>7. ASSUME NEW k \in Keys, OnJdtlsDiagnostics(k) PROVE Fine
  <2>1. UNCHANGED <<content, open, position>>
    BY <1>7 DEF OnJdtlsDiagnostics, clientVars
  <2>2. \E about \in inFlight[k] :
            Publish(k, content[k], about, TRUE, "jdtls") \/ PublishRaises(k) \/ NoPublish
    BY <1>7 DEF OnJdtlsDiagnostics
  <2> QED BY <1>4, <2>1, <2>2
<1>8. ASSUME UNCHANGED <<content, open, position, publishVars>> PROVE Fine
  BY <1>0, <1>8 DEF publishVars
<1> QED BY <1>1, <1>2, <1>3, <1>5, <1>6, <1>7, <1>8
       DEF Next, vars, clientVars, publishVars, SupersededRuns, JdtlsStarts, JdtlsAnswers,
           SendFails, JdtlsStop, JdtlsExits, Tick

\* A marker names a text of the file and not a publish, and that is the one way in which it
\* can satisfy the hook wrongly: as long as no edit puts back the text the marker names, a
\* marker that matches an open file's text is there because that text is what the client
\* was last shown (MarkerProvesShown).
THEOREM MarkerProvesWithoutReverts ==
    Spec /\ [][EditIsNoRevert]_vars => []MarkerProvesShown
<1>1. Init => MarkerProvesShown
  BY DEF Init, MarkerProvesShown
<1> QED BY <1>1, TypeCorrect, MarkerProvesStep, PTL DEF Spec
=============================================================================
