------------------------- MODULE ModuleGroupsProofs -------------------------
(***************************************************************************)
(* What ModuleGroups keeps for every repository, every number of requests, *)
(* of groups and of sessions.  The first part is about the directories and *)
(* the second about the registry and the requests; then come the group     *)
(* limit, the diff of a module, its snapshot, and the workspace folders.   *)
(***************************************************************************)
EXTENDS ModuleGroups, SequenceFolds

----------------------------------------------------------------------------
(* The directory walks.                                                    *)

\* Ancestors is a recursive function, hence a CHOOSE; the sets of directories that are
\* closed under Parent give a function that satisfies its equation.
Closed(S) == \A d \in S : Parent[d] # None => Parent[d] \in S
AncestorsOf(d) == {a \in Dirs : \A S \in SUBSET Dirs : d \in S /\ Closed(S) => a \in S}

LEMMA ClosureRecurs ==
    ASSUME NEW d \in Dirs
    PROVE  AncestorsOf(d) =
               {d} \cup IF Parent[d] = None THEN {} ELSE AncestorsOf(Parent[d])
<1>0. Parent[d] # None => Parent[d] \in Dirs
  BY DirsAreTrees
<1>1. ASSUME NEW a \in {d} \cup IF Parent[d] = None THEN {} ELSE AncestorsOf(Parent[d])
      PROVE  a \in AncestorsOf(d)
  BY <1>0 DEF AncestorsOf, Closed
<1>2. ASSUME NEW a \in AncestorsOf(d), a # d
      PROVE  Parent[d] # None /\ a \in AncestorsOf(Parent[d])
  <2>1. Parent[d] # None
    <3> SUFFICES ASSUME Parent[d] = None PROVE FALSE OBVIOUS
    <3>1. Closed({d}) /\ {d} \in SUBSET Dirs
      BY DEF Closed
    <3> QED BY <1>2, <3>1 DEF AncestorsOf
  <2>2. ASSUME NEW S \in SUBSET Dirs, Parent[d] \in S, Closed(S) PROVE a \in S
    <3>1. (S \cup {d}) \in SUBSET Dirs /\ Closed(S \cup {d})
      BY <2>2 DEF Closed
    <3> QED BY <1>2, <3>1 DEF AncestorsOf
  <2> QED BY <2>1, <2>2 DEF AncestorsOf
<1>3. AncestorsOf(d) \subseteq {d} \cup IF Parent[d] = None THEN {} ELSE AncestorsOf(Parent[d])
  BY <1>2
<1> QED BY <1>1, <1>3

LEMMA AncestorsRecur ==
    \A d \in Dirs : Ancestors[d] = {d} \cup IF Parent[d] = None THEN {} ELSE Ancestors[Parent[d]]
<1> DEFINE Solves(A) ==
        A = [d \in Dirs |-> {d} \cup IF Parent[d] = None THEN {} ELSE A[Parent[d]]]
<1>1. Ancestors = CHOOSE A : Solves(A)
  BY DEF Ancestors
<1>2. \E A : Solves(A)
  <2> DEFINE A == [d \in Dirs |-> AncestorsOf(d)]
  <2>1. \A d \in Dirs : A[d] = {d} \cup IF Parent[d] = None THEN {} ELSE A[Parent[d]]
    BY ClosureRecurs, DirsAreTrees
  <2>2. A = [d \in Dirs |-> A[d]]
    OBVIOUS
  <2>3. Solves(A)
    <3> HIDE DEF A
    <3> QED BY <2>1, <2>2
  <2> QED BY <2>3
<1>3. Solves(Ancestors)
  <2> HIDE DEF Solves
  <2> QED BY <1>1, <1>2
<1> QED BY <1>3

\* Going up ends: what a parent hands down to its children holds of every directory.
LEMMA DirInduction ==
    ASSUME NEW S, \A d \in Dirs : (Parent[d] # None => Parent[d] \in S) => d \in S
    PROVE  Dirs \subseteq S
<1> SUFFICES ASSUME Dirs \ S # {} PROVE FALSE
  OBVIOUS
<1>1. PICK d \in Dirs \ S : Parent[d] \notin Dirs \ S
  BY DirsAreTrees
<1> QED BY <1>1, DirsAreTrees

LEMMA AncestorsTyped == \A d \in Dirs : d \in Ancestors[d] /\ Ancestors[d] \subseteq Dirs
<1> DEFINE S == {d \in Dirs : Ancestors[d] \subseteq Dirs}
<1>1. ASSUME NEW d \in Dirs, Parent[d] # None => Parent[d] \in S PROVE d \in S
  BY <1>1, AncestorsRecur
<1>2. Dirs \subseteq S
  <2> HIDE DEF S
  <2> QED BY <1>1, DirInduction
<1> QED BY <1>2, AncestorsRecur

LEMMA UnderTransitive ==
    ASSUME NEW d \in Dirs, NEW a, NEW b, Under(d, a), Under(a, b)
    PROVE  Under(d, b)
<1> DEFINE S == {e \in Dirs : \A x \in Ancestors[e] : Ancestors[x] \subseteq Ancestors[e]}
<1>1. ASSUME NEW e \in Dirs, Parent[e] # None => Parent[e] \in S PROVE e \in S
  BY <1>1, AncestorsRecur
<1>2. Dirs \subseteq S
  <2> HIDE DEF S
  <2> QED BY <1>1, DirInduction
<1> QED BY <1>2 DEF Under

\* The directories above one another have a lowest and a topmost one.
LEMMA ExtremesExist ==
    ASSUME NEW m \in Dirs, NEW T \in SUBSET Ancestors[m], T # {}
    PROVE  /\ \E d \in T : \A a \in T : Under(d, a)
           /\ \E d \in T : \A a \in T : Under(a, d)
<1> DEFINE Has(e) == \A U \in SUBSET Ancestors[e] : U # {} =>
                        /\ \E d \in U : \A a \in U : Under(d, a)
                        /\ \E d \in U : \A a \in U : Under(a, d)
           S == {e \in Dirs : Has(e)}
<1>1. ASSUME NEW e \in Dirs, Parent[e] # None => Parent[e] \in S PROVE e \in S
  <2> SUFFICES ASSUME NEW U \in SUBSET Ancestors[e], U # {}
               PROVE  /\ \E d \in U : \A a \in U : Under(d, a)
                      /\ \E d \in U : \A a \in U : Under(a, d)
    OBVIOUS
  <2>1. Under(e, e) /\ \A a \in U : Under(e, a)
    BY AncestorsTyped DEF Under
  <2>2. CASE U \subseteq {e}
    <3>1. U = {e}
      BY <2>2
    <3> QED BY <2>1, <3>1
  <2>3. CASE ~(U \subseteq {e})
    <3> DEFINE W == U \ {e}
    <3>1. Parent[e] # None /\ W \in SUBSET Ancestors[Parent[e]] /\ W # {}
      BY <2>3, AncestorsRecur
    <3>2. Has(Parent[e])
      BY <1>1, <3>1
    <3>3. PICK low \in W, top \in W : \A a \in W : Under(low, a) /\ Under(a, top)
      <4> HIDE DEF W
      <4> QED BY <3>1, <3>2
    <3>4. \A a \in U : Under(a, top)
      BY <2>1, <3>3
    <3>5. CASE e \in U
      BY <2>1, <3>4, <3>5
    <3>6. CASE e \notin U
      BY <3>3, <3>4, <3>6
    <3> QED BY <3>5, <3>6
  <2> QED BY <2>2, <2>3
<1>2. Dirs \subseteq S
  <2> HIDE DEF S
  <2> QED BY <1>1, DirInduction
<1>3. Has(m)
  <2> HIDE DEF Has
  <2> QED BY <1>2
<1> QED BY <1>3

LEMMA GroupRootTyped ==
    ASSUME NEW m \in Dirs
    PROVE  GroupRoot(m) \in Dirs
<1> DEFINE boundary == RepoBoundary(m)
           bound == IF Under(ClientRoot, boundary) THEN ClientRoot ELSE boundary
           groups == {a \in Ancestors[m] \ {m} : a \in Aggregators /\ Under(a, bound) /\ a # bound}
<1>1. GroupRoot(m) \in {ClientRoot, m, Deepest(groups)} /\ (GroupRoot(m) = Deepest(groups) => groups # {} \/ GroupRoot(m) \in {ClientRoot, m})
  BY DEF GroupRoot
<1>2. groups \in SUBSET Ancestors[m]
  OBVIOUS
<1>3. groups # {} => Deepest(groups) \in groups
  <2> HIDE DEF groups
  <2> QED BY <1>2, ExtremesExist DEF Deepest
<1> HIDE DEF groups
<1> QED BY <1>1, <1>2, <1>3, RootInDirs, AncestorsTyped

----------------------------------------------------------------------------
(* The registry and the requests.                                          *)

Places == {"idle", "hot", "drain", "first", "wait", "woken", "retry"}
RegistryTyped ==
    /\ states \in [Dirs -> {"unknown", "added", "ready"}]
    /\ events \in [Dirs -> (SUBSET Requests) \cup {None}]
RequestsTyped ==
    /\ req \in [Requests -> [pc : Places, mod : Wanted \cup {None}]]
    /\ \A q \in Requests : req[q].pc # "idle" => req[q].mod \in Wanted
\* An event only holds requests that wait for its module.
EventsHoldWaiters ==
    \A m \in Dirs : \A q \in Woken(m) : req[q].pc = "wait" /\ req[q].mod = m
\* A module that is READY is imported, or else a full method was answered.
Seen == imported \cup early
ReadyIsSeen == \A m \in Dirs : IsReady(m) => m \in Seen
RegistryInv ==
    RegistryTyped /\ RequestsTyped /\ ReadyIsSeen /\ WaitersWake /\ EventsHoldWaiters

LEMMA RegistryInit == GroupsInit => RegistryInv
<1> SUFFICES ASSUME GroupsInit PROVE RegistryInv OBVIOUS
<1>1. RegistryTyped BY DEF GroupsInit, RegistryTyped
<1>2. RequestsTyped BY DEF GroupsInit, RequestsTyped, Idle, Places
<1>3. ReadyIsSeen BY DEF GroupsInit, ReadyIsSeen, IsReady
<1>4. WaitersWake BY DEF GroupsInit, WaitersWake, Idle
<1>5. EventsHoldWaiters BY DEF GroupsInit, EventsHoldWaiters, Woken
<1> QED BY <1>1, <1>2, <1>3, <1>4, <1>5 DEF RegistryInv

\* Adding modules wakes nobody and drops no event.
LEMMA AddingKeeps ==
    ASSUME RegistryInv, NEW ms, MarkAdded(ms), Seen' = Seen
    PROVE  /\ RegistryTyped' /\ ReadyIsSeen'
           /\ \A m \in Dirs : Woken(m)' = Woken(m) /\ (IsReady(m)' => IsReady(m))
<1>1. RegistryTyped'
  BY DEF RegistryInv, RegistryTyped, MarkAdded
<1>2. ASSUME NEW m \in Dirs PROVE Woken(m)' = Woken(m) /\ (IsReady(m)' => IsReady(m))
  BY <1>2, NoneOutside DEF RegistryInv, RegistryTyped, MarkAdded, Woken, IsReady
<1>3. ReadyIsSeen'
  BY <1>2 DEF RegistryInv, ReadyIsSeen
<1> QED BY <1>1, <1>2, <1>3

\* A module that becomes READY wakes all who wait for it, and no one else is touched.
LEMMA ReadyWakes ==
    ASSUME RegistryInv, NEW m \in Dirs, m \in Seen, MarkReady(m), Seen' = Seen,
           req' = Resumed(Woken(m))
    PROVE  RegistryInv'
<1>1. RegistryTyped'
  BY DEF RegistryInv, RegistryTyped, MarkReady
<1>2. RequestsTyped'
  <2>1. \A q \in Woken(m) : req[q].pc = "wait"
    BY DEF RegistryInv, EventsHoldWaiters
  <2>2. \A q \in Requests :
          req'[q] = IF q \in Woken(m) THEN [req[q] EXCEPT !.pc = "woken"] ELSE req[q]
    BY DEF Resumed
  <2> QED BY <2>1, <2>2 DEF RegistryInv, RequestsTyped, Resumed, Places
<1>3. ReadyIsSeen'
  BY DEF RegistryInv, RegistryTyped, ReadyIsSeen, IsReady, MarkReady
<1>5. EventsHoldWaiters'
  <2> SUFFICES ASSUME NEW d \in Dirs, NEW q \in Woken(d)'
               PROVE  (req[q].pc = "wait" /\ req[q].mod = d)'
    BY DEF EventsHoldWaiters
  <2>1. d # m /\ q \in Woken(d) /\ q \in Requests
    BY DEF Woken, MarkReady, RegistryInv, RegistryTyped
  <2>2. req[q].pc = "wait" /\ req[q].mod = d
    BY <2>1 DEF RegistryInv, EventsHoldWaiters
  <2>3. q \notin Woken(m)
    BY <2>1, <2>2 DEF RegistryInv, EventsHoldWaiters
  <2> QED BY <2>1, <2>2, <2>3 DEF Resumed
<1>4. WaitersWake'
  <2> SUFFICES ASSUME NEW q \in Requests, req'[q].pc = "wait"
               PROVE  (~IsReady(req[q].mod) /\ q \in Woken(req[q].mod))'
    BY DEF WaitersWake
  <2>1. req'[q] = req[q] /\ q \notin Woken(m)
    BY DEF RegistryInv, RequestsTyped, Resumed
  <2>2. ~IsReady(req[q].mod) /\ q \in Woken(req[q].mod) /\ req[q].mod \in Dirs
    BY <2>1, WantedInDirs DEF RegistryInv, WaitersWake, RequestsTyped
  <2>3. req[q].mod # m
    BY <2>1, <2>2
  <2>4. states'[req[q].mod] = states[req[q].mod] /\ events'[req[q].mod] = events[req[q].mod]
    BY <2>2, <2>3 DEF MarkReady, RegistryInv, RegistryTyped
  <2> QED BY <2>1, <2>2, <2>4 DEF IsReady, Woken
<1> QED BY <1>1, <1>2, <1>3, <1>4, <1>5 DEF RegistryInv

\* One request moves on; the registry stays, or gives up an event for it.
LEMMA RequestMoves ==
    ASSUME RegistryInv, NEW r \in Requests, NEW e \in [pc : Places, mod : Wanted \cup {None}],
           e.pc # "idle" => e.mod \in Wanted, e.pc # "wait",
           req' = [req EXCEPT ![r] = e], states' = states, Seen' = Seen,
           events' \in [Dirs -> (SUBSET Requests) \cup {None}],
           \A m \in Dirs : Woken(m)' = Woken(m) \ {r}
    PROVE  RegistryInv'
<1>1. RegistryTyped'
  BY DEF RegistryInv, RegistryTyped
<1>2. RequestsTyped'
  BY DEF RegistryInv, RequestsTyped
<1>3. ReadyIsSeen'
  BY DEF RegistryInv, ReadyIsSeen, IsReady
<1>4. WaitersWake'
  <2> SUFFICES ASSUME NEW q \in Requests, req'[q].pc = "wait"
               PROVE  (~IsReady(req[q].mod) /\ q \in Woken(req[q].mod))'
    BY DEF WaitersWake
  <2>1. q # r /\ req'[q] = req[q]
    BY DEF RegistryInv, RequestsTyped
  <2>2. ~IsReady(req[q].mod) /\ q \in Woken(req[q].mod) /\ req[q].mod \in Dirs
    BY <2>1, WantedInDirs DEF RegistryInv, WaitersWake, RequestsTyped
  <2> QED BY <2>1, <2>2 DEF IsReady
<1>5. EventsHoldWaiters'
  BY DEF RegistryInv, EventsHoldWaiters, RequestsTyped
<1> QED BY <1>1, <1>2, <1>3, <1>4, <1>5 DEF RegistryInv

\* Nothing the registry or the requests depend on changes.
LEMMA RegistryRests ==
    ASSUME RegistryInv, UNCHANGED <<states, events, req>>, Seen \subseteq Seen'
    PROVE  RegistryInv'
<1>1. \A m : Woken(m)' = Woken(m) /\ IsReady(m)' = IsReady(m)
  BY DEF Woken, IsReady
<1>2. ReadyIsSeen' /\ WaitersWake' /\ EventsHoldWaiters'
  BY <1>1 DEF RegistryInv, ReadyIsSeen, WaitersWake, EventsHoldWaiters
<1> QED BY <1>2 DEF RegistryInv, RegistryTyped, RequestsTyped

\* Modules are added while one request, or none, moves on.
LEMMA AddingMoves ==
    ASSUME RegistryInv, NEW r \in Requests, req[r].pc # "wait", NEW e \in [pc : Places, mod : Wanted \cup {None}],
           e.pc # "idle" => e.mod \in Wanted, e.pc # "wait",
           req' = [req EXCEPT ![r] = e] \/ req' = req,
           NEW ms, MarkAdded(ms), Seen' = Seen
    PROVE  RegistryInv'
<1>1. /\ RegistryTyped' /\ ReadyIsSeen'
      /\ \A m \in Dirs : Woken(m)' = Woken(m) /\ (IsReady(m)' => IsReady(m))
  BY AddingKeeps
<1>2. RequestsTyped'
  BY DEF RegistryInv, RequestsTyped
<1>3. WaitersWake'
  <2> SUFFICES ASSUME NEW q \in Requests, req'[q].pc = "wait"
               PROVE  (~IsReady(req[q].mod) /\ q \in Woken(req[q].mod))'
    BY DEF WaitersWake
  <2>1. req'[q] = req[q]
    BY DEF RegistryInv, RequestsTyped
  <2>2. ~IsReady(req[q].mod) /\ q \in Woken(req[q].mod) /\ req[q].mod \in Dirs
    BY <2>1, WantedInDirs DEF RegistryInv, WaitersWake, RequestsTyped
  <2> QED BY <1>1, <2>1, <2>2
<1>4. EventsHoldWaiters'
  <2> SUFFICES ASSUME NEW m \in Dirs, NEW q \in Woken(m)'
               PROVE  (req[q].pc = "wait" /\ req[q].mod = m)'
    BY DEF EventsHoldWaiters
  <2>1. q \in Woken(m) /\ q \in Requests
    BY <1>1 DEF Woken, RegistryInv, RegistryTyped
  <2>2. req[q].pc = "wait" /\ req[q].mod = m
    BY <2>1 DEF RegistryInv, EventsHoldWaiters
  <2> QED BY <2>1, <2>2 DEF RegistryInv, RequestsTyped
<1> QED BY <1>1, <1>2, <1>3, <1>4 DEF RegistryInv

\* A request starts to wait: it joins the module's event, which may be new.
LEMMA RequestWaits ==
    ASSUME RegistryInv, NEW r \in Requests, req[r].pc = "first", ~IsReady(req[r].mod),
           Goes(r, "wait"), events' = [events EXCEPT ![req[r].mod] = Woken(req[r].mod) \cup {r}],
           states' = states, Seen' = Seen
    PROVE  RegistryInv'
<1>0. PICK m \in Wanted : m = req[r].mod
  BY DEF RegistryInv, RequestsTyped
<1>1. m \in Dirs /\ Woken(m) \subseteq Requests
  BY WantedInDirs DEF RegistryInv, RequestsTyped, RegistryTyped, Woken
<1>2. RegistryTyped'
  BY <1>0, <1>1 DEF RegistryInv, RegistryTyped
<1>3. RequestsTyped'
  BY <1>0 DEF RegistryInv, RequestsTyped, Goes, Places
<1>4. Woken(m)' = Woken(m) \cup {r} /\ \A d \in Dirs \ {m} : Woken(d)' = Woken(d)
  BY <1>0, <1>1, NoneOutside DEF Woken, RegistryInv, RegistryTyped
<1>5. /\ \A q \in Requests \ {r} : req'[q] = req[q]
      /\ req'[r].pc = "wait" /\ req'[r].mod = m
  BY <1>0 DEF Goes, RegistryInv, RequestsTyped
<1>6. ReadyIsSeen' /\ \A d : IsReady(d)' = IsReady(d)
  BY DEF RegistryInv, ReadyIsSeen, IsReady
<1>7. WaitersWake'
  <2> SUFFICES ASSUME NEW q \in Requests, req'[q].pc = "wait"
               PROVE  (~IsReady(req[q].mod) /\ q \in Woken(req[q].mod))'
    BY DEF WaitersWake
  <2>1. CASE q = r
    BY <1>0, <1>4, <1>5, <1>6, <2>1
  <2>2. CASE q # r
    <3>1. req'[q] = req[q] /\ req[q].mod \in Dirs
      BY <1>5, <2>2, WantedInDirs DEF RegistryInv, RequestsTyped
    <3>2. ~IsReady(req[q].mod) /\ q \in Woken(req[q].mod)
      BY <3>1 DEF RegistryInv, WaitersWake
    <3> QED BY <1>0, <1>4, <1>6, <3>1, <3>2
  <2> QED BY <2>1, <2>2
<1>8. EventsHoldWaiters'
  <2> SUFFICES ASSUME NEW d \in Dirs, NEW q \in Woken(d)'
               PROVE  (req[q].pc = "wait" /\ req[q].mod = d)'
    BY DEF EventsHoldWaiters
  <2>1. CASE q = r /\ d = m
    BY <1>5, <2>1
  <2>2. CASE ~(q = r /\ d = m)
    <3>1. q \in Woken(d) /\ q \in Requests
      BY <1>1, <1>4, <2>2 DEF Woken, RegistryInv, RegistryTyped
    <3>2. req[q].pc = "wait" /\ req[q].mod = d
      BY <3>1 DEF RegistryInv, EventsHoldWaiters
    <3> QED BY <1>5, <3>1, <3>2
  <2> QED BY <2>1, <2>2
<1> QED BY <1>2, <1>3, <1>6, <1>7, <1>8 DEF RegistryInv

LEMMA RequestKeepsRegistry ==
    ASSUME RegistryInv, NEW r \in Requests, NEW m \in Wanted, Request(r, m)
    PROVE  RegistryInv'
<1>1. req[r].pc = "idle" /\ Seen' = Seen
  BY DEF Request, importVars, Seen
<1>2. \A d \in Dirs : r \notin Woken(d)
  BY <1>1 DEF RegistryInv, EventsHoldWaiters
<1>3. ASSUME NEW pc \in {"hot", "first"}, req' = [req EXCEPT ![r] = [pc |-> pc, mod |-> m]],
             UNCHANGED registryVars
      PROVE  RegistryInv'
  <2>1. \A d \in Dirs : Woken(d)' = Woken(d) \ {r}
    BY <1>2, <1>3 DEF Woken, registryVars
  <2>2. [pc |-> pc, mod |-> m] \in [pc : Places, mod : Wanted \cup {None}] /\ pc # "wait"
    BY <1>3 DEF Places
  <2>3. states' = states /\ events' \in [Dirs -> (SUBSET Requests) \cup {None}]
    BY <1>3 DEF registryVars, RegistryInv, RegistryTyped
  <2> QED BY <1>1, <1>3, <2>1, <2>2, <2>3, RequestMoves
<1>4. ASSUME req' = [req EXCEPT ![r] = [pc |-> "drain", mod |-> m]], AddModule(m)
      PROVE  RegistryInv'
  <2>1. MarkAdded({m, GroupRoot(m)})
    BY <1>4 DEF AddModule
  <2>2. [pc |-> "drain", mod |-> m] \in [pc : Places, mod : Wanted \cup {None}]
    BY DEF Places
  <2> QED BY <1>1, <1>4, <2>1, <2>2, AddingMoves
<1> QED BY <1>3, <1>4 DEF Request

LEMMA AnsweredKeepsRegistry ==
    ASSUME RegistryInv, NEW r \in Requests, Answered(r)
    PROVE  RegistryInv'
<1>1. req[r].pc \in {"hot", "first", "retry"} /\ Seen \subseteq Seen'
  BY DEF Answered, Seen
<1>2. \A d \in Dirs : r \notin Woken(d)
  BY <1>1 DEF RegistryInv, EventsHoldWaiters
<1>3. Idle \in [pc : Places, mod : Wanted \cup {None}] /\ Idle.pc = "idle"
  BY DEF Idle, Places
<1>4. CASE Ends(r) /\ UNCHANGED registryVars /\ Seen' = Seen
  <2>1. \A d \in Dirs : Woken(d)' = Woken(d) \ {r}
    BY <1>2, <1>4 DEF Woken, registryVars
  <2>2. states' = states /\ events' \in [Dirs -> (SUBSET Requests) \cup {None}]
    BY <1>4 DEF registryVars, RegistryInv, RegistryTyped
  <2> QED BY <1>1, <1>3, <1>4, <2>1, <2>2, RequestMoves DEF Ends
<1> DEFINE m == req[r].mod
<1>5. CASE /\ m \in Seen' /\ MarkReady(m)
           /\ req' = [Resumed(Woken(m)) EXCEPT ![r] = Idle]
  <2>1. m \in Dirs
    BY <1>1, WantedInDirs DEF RegistryInv, RequestsTyped
  <2>2. RegistryTyped'
    BY <1>5 DEF RegistryInv, RegistryTyped, MarkReady
  <2>3. ReadyIsSeen'
    BY <1>1, <1>5, <2>1 DEF RegistryInv, RegistryTyped, ReadyIsSeen, IsReady, MarkReady
  <2>4. \A q \in Requests \ {r} :
          req'[q] = IF q \in Woken(m) THEN [req[q] EXCEPT !.pc = "woken"] ELSE req[q]
    BY <1>5 DEF Resumed
  <2>5. req'[r] = Idle /\ DOMAIN req' = Requests
    BY <1>5 DEF Resumed
  <2>6. \A q \in Woken(m) : req[q].pc = "wait"
    BY <2>1 DEF RegistryInv, EventsHoldWaiters
  <2>7. RequestsTyped'
    <3>1. req' \in [Requests -> [pc : Places, mod : Wanted \cup {None}]]
      <4>1. req' = [q \in Requests |-> req'[q]]
        BY <1>5 DEF Resumed
      <4>2. \A q \in Requests : req'[q] \in [pc : Places, mod : Wanted \cup {None}]
        BY <1>3, <2>4, <2>5 DEF RegistryInv, RequestsTyped, Places
      <4> QED BY <4>1, <4>2
    <3>2. \A q \in Requests : req'[q].pc # "idle" => req'[q].mod \in Wanted
      BY <1>3, <2>4, <2>5, <2>6 DEF RegistryInv, RequestsTyped
    <3> QED BY <3>1, <3>2 DEF RequestsTyped
  <2>8. WaitersWake'
    <3> SUFFICES ASSUME NEW q \in Requests, req'[q].pc = "wait"
                 PROVE  (~IsReady(req[q].mod) /\ q \in Woken(req[q].mod))'
      BY DEF WaitersWake
    <3>1. req'[q] = req[q] /\ q \notin Woken(m)
      BY <1>3, <2>4, <2>5 DEF RegistryInv, RequestsTyped
    <3>2. ~IsReady(req[q].mod) /\ q \in Woken(req[q].mod) /\ req[q].mod \in Dirs
      BY <3>1, WantedInDirs DEF RegistryInv, WaitersWake, RequestsTyped
    <3>3. req[q].mod # m
      BY <3>1, <3>2
    <3>4. states'[req[q].mod] = states[req[q].mod] /\ events'[req[q].mod] = events[req[q].mod]
      BY <1>5, <3>2, <3>3 DEF MarkReady, RegistryInv, RegistryTyped
    <3> QED BY <3>1, <3>2, <3>4 DEF IsReady, Woken
  <2>9. EventsHoldWaiters'
    <3> SUFFICES ASSUME NEW d \in Dirs, NEW q \in Woken(d)'
                 PROVE  (req[q].pc = "wait" /\ req[q].mod = d)'
      BY DEF EventsHoldWaiters
    <3>1. d # m /\ q \in Woken(d) /\ q \in Requests
      BY <1>5, <2>1 DEF Woken, MarkReady, RegistryInv, RegistryTyped
    <3>2. req[q].pc = "wait" /\ req[q].mod = d
      BY <3>1 DEF RegistryInv, EventsHoldWaiters
    <3>3. q \notin Woken(m) /\ q # r
      BY <1>1, <2>1, <3>1, <3>2 DEF RegistryInv, EventsHoldWaiters
    <3> QED BY <2>4, <3>1, <3>2, <3>3
  <2> QED BY <2>2, <2>3, <2>7, <2>8, <2>9 DEF RegistryInv
<1>6. CASE /\ MarkReady(m) /\ req' = [Resumed(Woken(m)) EXCEPT ![r] = Idle]
           /\ early' = (IF m \notin imported THEN early \cup {m} ELSE early) /\ imported' = imported
  <2>1. m \in Seen'
    BY <1>6 DEF Seen
  <2> QED BY <1>5, <1>6, <2>1
<1>7. ASSUME Ends(r), UNCHANGED <<registryVars, early, imported>> PROVE RegistryInv'
  BY <1>4, <1>7 DEF Seen
<1> QED BY <1>6, <1>7 DEF Answered, Confirms, Methods

LEMMA RegistryStep == RegistryInv /\ [GroupsNext \/ LastSession]_groupVars => RegistryInv'
<1> SUFFICES ASSUME RegistryInv, [GroupsNext \/ LastSession]_groupVars PROVE RegistryInv'
  OBVIOUS
<1>1. CASE JdtlsStarts
  <2>1. PICK m \in Initials : MarkAdded({m, GroupRoot(m)})
    BY <1>1 DEF JdtlsStarts
  <2>2. Seen' = Seen /\ req' = req
    BY <1>1 DEF JdtlsStarts, importVars, Seen
  <2>3. /\ RegistryTyped' /\ ReadyIsSeen'
        /\ \A d \in Dirs : Woken(d)' = Woken(d) /\ (IsReady(d)' => IsReady(d))
    BY <2>1, <2>2, AddingKeeps
  <2>4. RequestsTyped' /\ EventsHoldWaiters'
    BY <2>2, <2>3 DEF RegistryInv, RequestsTyped, EventsHoldWaiters
  <2>5. WaitersWake'
    <3> SUFFICES ASSUME NEW q \in Requests, req'[q].pc = "wait"
                 PROVE  (~IsReady(req[q].mod) /\ q \in Woken(req[q].mod))'
      BY DEF WaitersWake
    <3>1. ~IsReady(req[q].mod) /\ q \in Woken(req[q].mod) /\ req[q].mod \in Dirs
      BY <2>2, WantedInDirs DEF RegistryInv, WaitersWake, RequestsTyped
    <3> QED BY <2>2, <2>3, <3>1
  <2> QED BY <2>3, <2>4, <2>5 DEF RegistryInv
<1>2. CASE NewSession
  <2>1. /\ states' = [m \in Dirs |-> "unknown"] /\ events' = [m \in Dirs |-> None]
        /\ req' = [q \in Requests |-> Idle]
    BY <1>2 DEF NewSession, Forgotten
  <2>2. RegistryTyped' /\ RequestsTyped'
    BY <2>1 DEF RegistryTyped, RequestsTyped, Idle, Places
  <2>3. ReadyIsSeen' /\ WaitersWake' /\ EventsHoldWaiters'
    BY <2>1 DEF ReadyIsSeen, IsReady, WaitersWake, EventsHoldWaiters, Woken, Idle
  <2> QED BY <2>2, <2>3 DEF RegistryInv
<1>3. ASSUME NEW r \in Requests, NEW m \in Wanted, Request(r, m) PROVE RegistryInv'
  BY <1>3, RequestKeepsRegistry
<1>4. ASSUME NEW r \in Requests, AddModuleEnds(r) \/ WaitEnds(r) PROVE RegistryInv'
  <2>1. PICK pc \in {"first", "retry"} : Goes(r, pc) /\ states' = states /\ Seen' = Seen
    BY <1>4 DEF AddModuleEnds, WaitEnds, registryVars, importVars, Seen
  <2>2. \A d \in Dirs : Woken(d)' = Woken(d) \ {r}
    <3>1. CASE AddModuleEnds(r)
      BY <3>1 DEF AddModuleEnds, registryVars, Woken, RegistryInv, EventsHoldWaiters
    <3>2. CASE WaitEnds(r)
      BY <3>2, NoneOutside DEF WaitEnds, Woken, RegistryInv, RegistryTyped
    <3> QED BY <1>4, <3>1, <3>2
  <2>3. events' \in [Dirs -> (SUBSET Requests) \cup {None}]
    BY <1>4 DEF AddModuleEnds, WaitEnds, registryVars, RegistryInv, RegistryTyped
  <2>4. req[r].pc # "idle" /\ req[r].mod \in Wanted
    BY <1>4 DEF AddModuleEnds, WaitEnds, RegistryInv, RequestsTyped
  <2>5. [req[r] EXCEPT !.pc = pc] \in [pc : Places, mod : Wanted \cup {None}]
    BY DEF RegistryInv, RequestsTyped, Places
  <2>6. req' = [req EXCEPT ![r] = [req[r] EXCEPT !.pc = pc]]
    BY <2>1 DEF Goes
  <2>7. [req[r] EXCEPT !.pc = pc].pc # "wait" /\ [req[r] EXCEPT !.pc = pc].mod \in Wanted
    BY <2>4 DEF RegistryInv, RequestsTyped
  <2> QED BY <2>1, <2>2, <2>3, <2>5, <2>6, <2>7, RequestMoves
<1>5. ASSUME NEW r \in Requests, Answered(r) PROVE RegistryInv'
  BY <1>5, AnsweredKeepsRegistry
<1>6. ASSUME NEW r \in Requests, NotAnswered(r) PROVE RegistryInv'
  <2>1. req[r].pc \in {"hot", "first", "retry"} /\ req[r].mod \in Wanted /\ Seen' = Seen
    BY <1>6 DEF NotAnswered, RegistryInv, RequestsTyped, importVars, Seen
  <2>2. \A d \in Dirs : r \notin Woken(d)
    BY <2>1 DEF RegistryInv, EventsHoldWaiters
  <2>3. ASSUME NEW e \in [pc : Places, mod : Wanted \cup {None}], e.pc # "wait",
               e.pc # "idle" => e.mod \in Wanted,
               req' = [req EXCEPT ![r] = e], UNCHANGED registryVars
        PROVE  RegistryInv'
    <3>1. \A d \in Dirs : Woken(d)' = Woken(d) \ {r}
      BY <2>2, <2>3 DEF Woken, registryVars
    <3>2. states' = states /\ events' \in [Dirs -> (SUBSET Requests) \cup {None}]
      BY <2>3 DEF registryVars, RegistryInv, RegistryTyped
    <3> QED BY <2>1, <2>3, <3>1, <3>2, RequestMoves
  <2>4. CASE Ends(r) /\ UNCHANGED registryVars
    BY <2>3, <2>4 DEF Ends, Idle, Places
  <2>5. CASE Goes(r, "retry") /\ UNCHANGED registryVars
    <3>1. [req[r] EXCEPT !.pc = "retry"] \in [pc : Places, mod : Wanted \cup {None}]
      BY DEF RegistryInv, RequestsTyped, Places
    <3>2. /\ [req[r] EXCEPT !.pc = "retry"].pc = "retry"
          /\ [req[r] EXCEPT !.pc = "retry"].mod \in Wanted
      BY <2>1 DEF RegistryInv, RequestsTyped
    <3> QED BY <2>3, <2>5, <3>1, <3>2 DEF Goes
  <2>6. CASE /\ req[r].pc = "first" /\ ~IsReady(req[r].mod) /\ Goes(r, "wait")
             /\ events' = [events EXCEPT ![req[r].mod] = Woken(req[r].mod) \cup {r}]
             /\ states' = states
    BY <2>1, <2>6, RequestWaits
  <2> QED BY <1>6, <2>4, <2>5, <2>6 DEF NotAnswered, registryVars
<1>7. ASSUME NEW m \in Wanted, OnJdtlsDiagnostics(m) PROVE RegistryInv'
  <2>1. m \in Seen /\ MarkReady(m) /\ req' = Resumed(Woken(m)) /\ Seen' = Seen
    BY <1>7 DEF OnJdtlsDiagnostics, PublishConfirms, importVars, Seen
  <2> QED BY <2>1, ReadyWakes, WantedInDirs
<1>8. ASSUME NEW m \in Wanted,
             \/ ImportModule(m) \/ DiffEnds(m) \/ ApplyRuns(m) \/ ApplyAwaitEnds(m) \/ ApplySaves(m)
      PROVE  RegistryInv'
  <2>1. UNCHANGED <<states, events, req>> /\ Seen \subseteq Seen'
    BY <1>8 DEF ImportModule, DiffEnds, ApplyRuns, ApplyAwaitEnds, ApplySaves, registryVars,
                importVars, Seen
  <2> QED BY <2>1, RegistryRests
<1>9. CASE ExpandFullEnds \/ JdtlsExits \/ WriteFails \/ LastSession \/ UNCHANGED groupVars
  <2>1. UNCHANGED <<states, events, req>> /\ Seen \subseteq Seen'
    BY <1>9 DEF ExpandFullEnds, JdtlsExits, WriteFails, LastSession, registryVars, groupVars, importVars,
                Seen
  <2> QED BY <2>1, RegistryRests
<1> QED BY <1>1, <1>2, <1>3, <1>4, <1>5, <1>6, <1>7, <1>8, <1>9 DEF GroupsNext

LEMMA RegistryHolds == GroupsSpec => []RegistryInv
<1> QED BY RegistryInit, RegistryStep, PTL DEF GroupsSpec

\* A request that waits for a module always waits on the event that mark_ready sets, and
\* never for a module that is READY already (ModuleRegistry).
THEOREM WaitersAreWoken == GroupsSpec => []WaitersWake
<1>1. RegistryInv => WaitersWake BY DEF RegistryInv
<1> QED BY <1>1, RegistryHolds, PTL

----------------------------------------------------------------------------
(* The limit on groups.  While expand_full_workspace is suspended its group *)
(* is on nobody's record: a group that is there by then crossed its await.  *)

Over == Cardinality(expanded) > MaxGroups
LimitInv ==
    /\ IsFiniteSet(expanded) /\ Cardinality(expanded) <= MaxGroups + 1
    /\ start = "off" => expanded = {} /\ ~available
    /\ start = "drain" => ~Over
    /\ start = "drain" /\ expanded # {} => crossed
    /\ Over => crossed

LEMMA NothingExpanded == Cardinality({}) = 0 /\ IsFiniteSet({}) /\ ~(0 > MaxGroups) /\ 0 <= MaxGroups + 1
BY FS_EmptySet, LimitPositive

LEMMA LimitInit == GroupsInit => LimitInv
<1> SUFFICES ASSUME GroupsInit PROVE LimitInv OBVIOUS
<1>1. expanded = {} /\ start = "off" /\ ~available BY DEF GroupsInit
<1>2. ~Over /\ Cardinality(expanded) <= MaxGroups + 1 BY <1>1, NothingExpanded DEF Over
<1> QED BY <1>1, <1>2, NothingExpanded DEF LimitInv

LEMMA LimitStep == LimitInv /\ [GroupsNext \/ LastSession]_groupVars => LimitInv'
<1> SUFFICES ASSUME LimitInv, [GroupsNext \/ LastSession]_groupVars PROVE LimitInv'
  OBVIOUS
<1>0. Cardinality(expanded) \in Nat /\ MaxGroups \in Nat \ {0}
  BY FS_CardinalityType, LimitPositive DEF LimitInv
<1>1. ASSUME NEW d, expanded' = expanded \cup {d}
      PROVE  /\ IsFiniteSet(expanded') /\ Cardinality(expanded') \in Nat
             /\ Cardinality(expanded') <= Cardinality(expanded) + 1
  <2>1. IsFiniteSet(expanded \cup {d})
    BY FS_AddElement DEF LimitInv
  <2>2. \/ Cardinality(expanded \cup {d}) = Cardinality(expanded)
        \/ Cardinality(expanded \cup {d}) = Cardinality(expanded) + 1
    BY FS_AddElement DEF LimitInv
  <2> QED BY <1>0, <1>1, <2>1, <2>2
<1>2. CASE JdtlsStarts
  <2>1. expanded = {} /\ start' \in {"done", "drain"}
    BY <1>2 DEF JdtlsStarts, LimitInv
  <2>2. PICK m : expanded' = {m} \/ expanded' = {}
    BY <1>2, <2>1 DEF JdtlsStarts
  <2>3. start' = "drain" => expanded' = {}
    BY <1>2, <2>1 DEF JdtlsStarts
  <2>4. IsFiniteSet(expanded') /\ (Cardinality(expanded') = 0 \/ Cardinality(expanded') = 1)
    <3>1. IsFiniteSet({m}) /\ Cardinality({m}) = 1
      BY FS_Singleton
    <3> QED BY <2>2, <3>1, NothingExpanded
  <2>5. ~Over' /\ Cardinality(expanded') <= MaxGroups + 1
    BY <1>0, <2>4 DEF Over
  <2> QED BY <2>1, <2>3, <2>4, <2>5 DEF LimitInv
<1>3. CASE ExpandFullEnds
  <2>1. /\ expanded' = expanded \cup {GroupRoot(initial)} /\ start' = "done" /\ crossed' = crossed
        /\ start = "drain"
    BY <1>3 DEF ExpandFullEnds
  <2>2. expanded # {} => crossed
    BY <2>1 DEF LimitInv
  <2>3. Cardinality(expanded) <= MaxGroups
    <3>1. ~Over
      BY <2>1 DEF LimitInv
    <3> QED BY <1>0, <3>1 DEF Over
  <2>4. /\ IsFiniteSet(expanded') /\ Cardinality(expanded') \in Nat
        /\ Cardinality(expanded') <= Cardinality(expanded) + 1
    <3>1. expanded' = expanded \cup {GroupRoot(initial)}
      BY <2>1
    <3> QED BY <1>1, <3>1
  <2>5. Cardinality(expanded') <= MaxGroups + 1
    BY <1>0, <2>3, <2>4
  <2>6. expanded = {} => ~Over'
    <3> SUFFICES ASSUME expanded = {} PROVE ~Over' OBVIOUS
    <3>1. Cardinality(expanded) = 0
      BY NothingExpanded
    <3> QED BY <1>0, <2>4, <3>1 DEF Over
  <2>7. crossed' = crossed /\ start' = "done"
    BY <2>1
  <2> QED BY <2>2, <2>4, <2>5, <2>6, <2>7 DEF LimitInv
<1>4. ASSUME NEW r \in Requests, NEW m \in Wanted, Request(r, m) PROVE LimitInv'
  <2>1. available /\ start' = start
    BY <1>4 DEF Request
  <2>2. start # "off"
    BY <2>1 DEF LimitInv
  <2>3. CASE expanded' = expanded /\ crossed' = crossed
    BY <2>1, <2>2, <2>3 DEF LimitInv, Over
  <2>4. CASE MayExpand(m) /\ AddModule(m)
    <3>1. Cardinality(expanded) < MaxGroups /\ expanded' = expanded \cup {GroupRoot(m)}
      BY <2>4 DEF MayExpand, AddModule
    <3>2. start = "drain" => crossed'
      BY <2>4 DEF AddModule
    <3>3. IsFiniteSet(expanded') /\ Cardinality(expanded') <= MaxGroups + 1 /\ ~Over'
      BY <1>0, <1>1, <3>1 DEF Over
    <3> QED BY <2>1, <2>2, <3>2, <3>3 DEF LimitInv
  <2> QED BY <1>4, <2>3, <2>4 DEF Request
<1>5. CASE NewSession
  <2>1. expanded' = {} /\ ~available' /\ start' = "off"
    BY <1>5 DEF NewSession, Forgotten
  <2>2. ~Over' /\ IsFiniteSet(expanded') /\ Cardinality(expanded') <= MaxGroups + 1
    BY <2>1, NothingExpanded DEF Over
  <2> QED BY <2>1, <2>2 DEF LimitInv
<1>6. ASSUME expanded' = expanded, start' = start, crossed' = crossed, ~available => ~available'
      PROVE  LimitInv'
  BY <1>6 DEF LimitInv, Over
<1>7. ASSUME NEW r \in Requests,
             AddModuleEnds(r) \/ Answered(r) \/ NotAnswered(r) \/ WaitEnds(r)
      PROVE  LimitInv'
  BY <1>6, <1>7 DEF AddModuleEnds, Answered, NotAnswered, WaitEnds, clientVars
<1>8. ASSUME NEW m \in Wanted,
             ImportModule(m) \/ OnJdtlsDiagnostics(m) \/ DiffEnds(m) \/ ApplySaves(m)
      PROVE  LimitInv'
  BY <1>6, <1>8 DEF ImportModule, OnJdtlsDiagnostics, DiffEnds, ApplySaves, clientVars
<1>9. ASSUME NEW m \in Wanted, ApplyRuns(m) \/ ApplyAwaitEnds(m) PROVE LimitInv'
  <2>1. expanded' = expanded /\ start' = start /\ crossed' = crossed
    BY <1>9 DEF ApplyRuns, ApplyAwaitEnds
  <2>2. ~available => ~available'
    BY <1>9 DEF ApplyRuns, ApplyAwaitEnds, Notify, Says
  <2> QED BY <1>6, <2>1, <2>2
<1>10. CASE JdtlsExits \/ WriteFails \/ LastSession \/ UNCHANGED groupVars
  BY <1>6, <1>10 DEF JdtlsExits, WriteFails, LastSession, groupVars, clientVars
<1> QED BY <1>2, <1>3, <1>4, <1>5, <1>7, <1>8, <1>9, <1>10 DEF GroupsNext

\* However many groups and requests there are, the limit is passed by at most one group,
\* that of expand_full_workspace, and only when a request crossed its await.
THEOREM GroupsStayBounded == GroupsSpec => []GroupsBounded
<1>1. LimitInv => GroupsBounded BY DEF LimitInv, Over, GroupsBounded
<1> QED BY <1>1, LimitInit, LimitStep, PTL DEF GroupsSpec

----------------------------------------------------------------------------
(* The diff of a module.  It is computed once a session, after the one       *)
(* expansion that adds the module, and taken by the task that READY starts.*)

Stamps == Versions \cup {None}
TasksTyped ==
    /\ initial \in Initials \cup {None}
    /\ results \in [Dirs -> [old : Stamps, new : Versions] \cup {None}]
    /\ apply \in [Dirs -> [pc : {"none", "fired", "await", "sent"}, new : Stamps,
                          said : {"yes", "no", "same"}]]
    /\ known \in [Initials -> [Dirs -> Stamps]]
    /\ disk \in [Dirs -> Versions] /\ snap \in [Dirs -> Stamps]
    /\ savedFor \in [Dirs -> Initials \cup {None}]
    /\ session \in 1 .. Sessions /\ \A d \in Dirs : disk[d] < session

LEMMA VersionsAreNumbers == Versions \subseteq Nat /\ 0 \in Versions /\ Sessions \in Nat
BY SessionsPositive DEF Versions

LEMMA TasksTypedInit == GroupsInit => TasksTyped
<1> SUFFICES ASSUME GroupsInit PROVE TasksTyped OBVIOUS
<1>1. session \in 1 .. Sessions /\ \A d \in Dirs : disk[d] < session
  BY SessionsPositive DEF GroupsInit
<1> QED BY <1>1, VersionsAreNumbers DEF GroupsInit, TasksTyped, Passive, Stamps

LEMMA NotifyTyped ==
    ASSUME TasksTyped, NEW m \in Wanted, results[m] # None, Notify(m),
           UNCHANGED <<initial, disk, session>>
    PROVE  TasksTyped'
<1>1. results[m] \in [old : Stamps, new : Versions] /\ m \in Dirs
  BY WantedInDirs DEF TasksTyped
<1>2. snap' = snap /\ savedFor' = savedFor
  BY DEF Notify
<1>3. results' = [results EXCEPT ![m] = None]
  BY DEF Notify
<1>4. PICK said \in {"yes", "no", "same"} :
        apply' = [apply EXCEPT ![m] = [pc |-> "sent", new |-> results[m].new, said |-> said]]
  BY DEF Notify, Says, Sending
<1>5. known' = known \/ known' = [known EXCEPT ![initial][m] = results[m].new]
  BY DEF Notify, Says
<1>6. [pc |-> "sent", new |-> results[m].new, said |-> said]
        \in [pc : {"none", "fired", "await", "sent"}, new : Stamps, said : {"yes", "no", "same"}]
  BY <1>1 DEF Stamps
<1>7. apply' \in [Dirs -> [pc : {"none", "fired", "await", "sent"}, new : Stamps,
                          said : {"yes", "no", "same"}]]
  BY <1>4, <1>6 DEF TasksTyped
<1>8. known' \in [Initials -> [Dirs -> Stamps]]
  <2>1. results[m].new \in Stamps
    BY <1>1 DEF Stamps
  <2>2. \A i \in Initials :
          known'[i] = known[i] \/ known'[i] = [known[i] EXCEPT ![m] = results[m].new]
    BY <1>5 DEF TasksTyped
  <2>3. ASSUME NEW i \in Initials PROVE known'[i] \in [Dirs -> Stamps]
    <3>1. known[i] \in [Dirs -> Stamps]
      BY DEF TasksTyped
    <3> QED BY <2>1, <2>2, <3>1
  <2>4. known' = [i \in Initials |-> known'[i]]
    BY <1>5 DEF TasksTyped
  <2> QED BY <2>3, <2>4
<1>9. results' \in [Dirs -> [old : Stamps, new : Versions] \cup {None}]
  BY <1>3 DEF TasksTyped
<1> QED BY <1>2, <1>7, <1>8, <1>9 DEF TasksTyped

LEMMA TasksTypedStep == TasksTyped /\ [GroupsNext \/ LastSession]_groupVars => TasksTyped'
<1> SUFFICES ASSUME TasksTyped, [GroupsNext \/ LastSession]_groupVars PROVE TasksTyped'
  OBVIOUS
<1>1. CASE JdtlsStarts
  <2>1. initial' \in Initials /\ UNCHANGED <<results, apply, known, disk, snap, savedFor, session>>
    BY <1>1 DEF JdtlsStarts, diffVars, diskVars
  <2> QED BY <2>1 DEF TasksTyped
<1>2. CASE NewSession
  <2>1. /\ initial' = None /\ results' = [m \in Dirs |-> None] /\ apply' = [m \in Dirs |-> Passive]
        /\ UNCHANGED <<known, snap, savedFor>>
    BY <1>2 DEF NewSession, Forgotten
  <2>2. /\ disk' \in [Dirs -> Versions] /\ session' \in 1 .. Sessions
        /\ \A d \in Dirs : disk'[d] < session'
    <3>1. session \in 1 .. Sessions /\ session < Sessions /\ session' = session + 1
      BY <1>2 DEF NewSession, TasksTyped
    <3>2. PICK changed \in SUBSET Changing :
            disk' = [m \in Dirs |-> IF m \in changed THEN disk[m] + 1 ELSE disk[m]]
      BY <1>2 DEF NewSession
    <3>3. ASSUME NEW d \in Dirs PROVE disk'[d] \in Versions /\ disk'[d] < session'
      <4>1. disk[d] \in Nat /\ disk[d] < session /\ (disk'[d] = disk[d] \/ disk'[d] = disk[d] + 1)
        BY <3>2, VersionsAreNumbers DEF TasksTyped
      <4> QED BY <3>1, <4>1, SessionsPositive DEF Versions
    <3> QED BY <3>1, <3>2, <3>3, SessionsPositive
  <2> QED BY <2>1, <2>2 DEF TasksTyped, Passive, Stamps
<1>3. ASSUME UNCHANGED <<initial, results, apply, known, disk, snap, savedFor, session>> PROVE TasksTyped'
  BY <1>3 DEF TasksTyped
<1>4. ASSUME NEW r \in Requests,
             \/ \E m \in Wanted : Request(r, m)
             \/ AddModuleEnds(r) \/ Answered(r) \/ NotAnswered(r) \/ WaitEnds(r)
      PROVE  TasksTyped'
  BY <1>3, <1>4 DEF Request, AddModuleEnds, Answered, NotAnswered, WaitEnds, clientVars, diffVars,
                    diskVars
<1>5. CASE ExpandFullEnds \/ JdtlsExits \/ WriteFails \/ LastSession \/ UNCHANGED groupVars
  BY <1>3, <1>5 DEF ExpandFullEnds, JdtlsExits, WriteFails, LastSession, groupVars, clientVars, diffVars, diskVars
<1>6. ASSUME NEW m \in Wanted, ImportModule(m) PROVE TasksTyped'
  <2>1. UNCHANGED <<initial, results, apply, disk, snap, savedFor, session>>
    BY <1>6 DEF ImportModule, clientVars, diffVars
  <2>2. known' \in [Initials -> [Dirs -> Stamps]]
    BY <1>6, WantedInDirs DEF ImportModule, TasksTyped, Stamps
  <2> QED BY <2>1, <2>2 DEF TasksTyped
<1>7. ASSUME NEW m \in Wanted, OnJdtlsDiagnostics(m) PROVE TasksTyped'
  <2>1. UNCHANGED <<initial, results, known, disk, snap, savedFor, session>>
    BY <1>7 DEF OnJdtlsDiagnostics, clientVars, diskVars
  <2>2. apply' = apply \/ ApplyAt(m, "fired")
    BY <1>7 DEF OnJdtlsDiagnostics
  <2> QED BY <2>1, <2>2 DEF TasksTyped, ApplyAt
<1>8. ASSUME NEW m \in Wanted, DiffEnds(m) PROVE TasksTyped'
  <2>1. UNCHANGED <<initial, apply, known, disk, snap, savedFor, session>>
    BY <1>8 DEF DiffEnds, clientVars, diskVars
  <2>2. results' = results \/ results' = [results EXCEPT ![m] = [old |-> snap[m], new |-> disk[m]]]
    BY <1>8 DEF DiffEnds
  <2>3. [old |-> snap[m], new |-> disk[m]] \in [old : Stamps, new : Versions]
    BY WantedInDirs DEF TasksTyped
  <2>4. results' \in [Dirs -> [old : Stamps, new : Versions] \cup {None}]
    BY <2>2, <2>3 DEF TasksTyped
  <2> QED BY <2>1, <2>4 DEF TasksTyped
<1>9. ASSUME NEW m \in Wanted, ApplyRuns(m) \/ ApplyAwaitEnds(m) PROVE TasksTyped'
  <2>1. UNCHANGED <<initial, disk, session>>
    BY <1>9 DEF ApplyRuns, ApplyAwaitEnds
  <2>2. CASE results[m] # None /\ Notify(m)
    BY <2>1, <2>2, NotifyTyped
  <2>3. CASE UNCHANGED <<results, known, snap, savedFor>> /\ \E pc \in {"await", "none"} : ApplyAt(m, pc)
    <3>1. PICK pc \in {"await", "none"} : apply' = [apply EXCEPT ![m].pc = pc]
      BY <2>3 DEF ApplyAt
    <3>2. apply' \in [Dirs -> [pc : {"none", "fired", "await", "sent"}, new : Stamps,
                              said : {"yes", "no", "same"}]]
      BY <3>1 DEF TasksTyped
    <3> QED BY <2>1, <2>3, <3>2 DEF TasksTyped
  <2> QED BY <1>9, <2>2, <2>3 DEF ApplyRuns, ApplyAwaitEnds
<1>10. ASSUME NEW m \in Wanted, ApplySaves(m) PROVE TasksTyped'
  <2>1. UNCHANGED <<initial, results, known, disk, session>> /\ apply' = [apply EXCEPT ![m] = Passive]
    BY <1>10 DEF ApplySaves, clientVars
  <2>2. /\ snap' = snap \/ snap' = [snap EXCEPT ![m] = apply[m].new]
        /\ savedFor' = savedFor \/ savedFor' = [savedFor EXCEPT ![m] = initial]
    BY <1>10 DEF ApplySaves
  <2>3. apply[m].new \in Stamps
    BY WantedInDirs DEF TasksTyped
  <2>4. snap' \in [Dirs -> Stamps] /\ savedFor' \in [Dirs -> Initials \cup {None}]
    BY <2>2, <2>3 DEF TasksTyped
  <2>5. apply' \in [Dirs -> [pc : {"none", "fired", "await", "sent"}, new : Stamps,
                            said : {"yes", "no", "same"}]]
    BY <2>1 DEF TasksTyped, Passive, Stamps
  <2> QED BY <2>1, <2>4, <2>5 DEF TasksTyped
<1> QED BY <1>1, <1>2, <1>4, <1>5, <1>6, <1>7, <1>8, <1>9, <1>10 DEF GroupsNext

\* A request is about to create the module's diff task.
Expanding(m) == \E q \in Requests : req[q].pc = "drain" /\ req[q].mod = m
OneExpands ==
    \A q, r \in Requests :
        req[q].pc = "drain" /\ req[r].pc = "drain" /\ req[q].mod = req[r].mod => q = r

\* Where a module is on its way from the expansion to the saved snapshot: each place
\* excludes the others, and a READY module with no _apply_module_diff has come to the end.
DiffInv(m) ==
    /\ Expanding(m) => /\ WasAdded(m) /\ m \notin running /\ m \notin pending
                       /\ results[m] = None /\ apply[m].pc \in {"none", "fired"}
    /\ m \in running => /\ WasAdded(m) /\ results[m] = None /\ apply[m].pc # "sent"
                        /\ (m \in pending \/ apply[m].pc = "await")
    /\ m \in pending => m \in running
    /\ results[m] # None => WasAdded(m) /\ apply[m].pc # "sent"
    /\ apply[m].pc # "none" => WasAdded(m)
    /\ IsReady(m) /\ apply[m].pc = "none" /\ m \notin unannounced =>
           results[m] = None /\ m \notin running /\ ~Expanding(m)
TasksInv == TasksTyped /\ OneExpands /\ \A m \in Wanted : DiffInv(m)

LEMMA AddingStates ==
    ASSUME RegistryTyped, NEW ms, MarkAdded(ms), NEW d \in Dirs
    PROVE  /\ (WasAdded(d) => WasAdded(d)') /\ (IsReady(d)' => IsReady(d))
           /\ (d \in ms => WasAdded(d)' /\ ~IsReady(d)')
BY DEF RegistryTyped, MarkAdded, WasAdded, IsReady

\* One request moves on, and not to the await of an expansion.
LEMMA NoNewExpansion ==
    ASSUME RequestsTyped, OneExpands, NEW r \in Requests, NEW e, e.pc # "drain",
           req' = [req EXCEPT ![r] = e]
    PROVE  OneExpands' /\ \A d \in Wanted : Expanding(d)' => Expanding(d)
<1>1. \A q \in Requests : req'[q].pc = "drain" => req'[q] = req[q]
  BY DEF RequestsTyped
<1> QED BY <1>1 DEF OneExpands, Expanding

\* Waking requests starts no expansion.
LEMMA WakingExpandsNothing ==
    ASSUME RequestsTyped, OneExpands, NEW woken, req' = Resumed(woken)
    PROVE  OneExpands' /\ \A d \in Wanted : Expanding(d)' => Expanding(d)
<1>1. \A q \in Requests : req'[q].pc = "drain" => req'[q] = req[q]
  BY DEF RequestsTyped, Resumed
<1> QED BY <1>1 DEF OneExpands, Expanding

\* The pair is taken: what was written down is about to be saved.
LEMMA NotifyKeepsDiff ==
    ASSUME TasksInv, NEW m \in Wanted, results[m] # None, Notify(m), apply[m].pc \in {"fired", "await"},
           UNCHANGED <<states, req, running, pending, unannounced>>
    PROVE  OneExpands' /\ \A d \in Wanted : DiffInv(d)'
<1>1. m \in Dirs /\ results'[m] = None /\ apply'[m].pc = "sent"
  BY WantedInDirs DEF Notify, Says, Sending, TasksInv, TasksTyped
<1>2. \A d \in Wanted \ {m} : results'[d] = results[d] /\ apply'[d] = apply[d]
  BY WantedInDirs DEF Notify, Says, Sending, TasksInv, TasksTyped
<1>3. OneExpands' /\ \A d : Expanding(d)' = Expanding(d) /\ WasAdded(d)' = WasAdded(d) /\ IsReady(d)' = IsReady(d)
  BY DEF TasksInv, OneExpands, Expanding, WasAdded, IsReady
<1>4. ASSUME NEW d \in Wanted, d # m PROVE DiffInv(d)'
  <2>1. results'[d] = results[d] /\ apply'[d] = apply[d] /\ DiffInv(d)
    BY <1>2, <1>4 DEF TasksInv
  <2> QED BY <1>3, <2>1 DEF DiffInv
<1>5. DiffInv(m)'
  <2>1. DiffInv(m)
    BY DEF TasksInv
  <2>2. m \notin running /\ m \notin pending /\ ~Expanding(m) /\ WasAdded(m)
    BY <2>1 DEF DiffInv
  <2> QED BY <1>1, <1>3, <2>2 DEF DiffInv
<1> QED BY <1>3, <1>4, <1>5

LEMMA DiffInit == GroupsInit => TasksInv
<1> SUFFICES ASSUME GroupsInit PROVE TasksInv OBVIOUS
<1>1. \A m \in Wanted : ~Expanding(m) BY DEF GroupsInit, Expanding, Idle
<1>2. \A m \in Wanted : results[m] = None /\ m \notin running /\ m \notin pending /\ apply[m].pc = "none"
  BY WantedInDirs DEF GroupsInit, Passive
<1>3. \A m \in Wanted : DiffInv(m) BY <1>1, <1>2 DEF DiffInv
<1>4. OneExpands BY DEF GroupsInit, OneExpands, Idle
<1> QED BY <1>3, <1>4, TasksTypedInit DEF TasksInv

LEMMA RequestKeepsDiff ==
    ASSUME RegistryInv, TasksInv, NEW r \in Requests, NEW m \in Wanted, Request(r, m)
    PROVE  OneExpands' /\ \A d \in Wanted : DiffInv(d)'
<1>1. UNCHANGED <<results, apply, running, pending, unannounced>> /\ req[r].pc = "idle"
  BY DEF Request, diffVars
<1>2. ASSUME NEW pc, pc # "drain", req' = [req EXCEPT ![r] = [pc |-> pc, mod |-> m]],
             UNCHANGED registryVars
      PROVE  OneExpands' /\ \A d \in Wanted : DiffInv(d)'
  <2>1. OneExpands' /\ \A d \in Wanted : Expanding(d)' => Expanding(d)
    BY <1>2, NoNewExpansion DEF RegistryInv, TasksInv
  <2>2. \A d \in Wanted : WasAdded(d)' = WasAdded(d) /\ IsReady(d)' = IsReady(d)
    BY <1>2 DEF WasAdded, IsReady, registryVars
  <2>3. ASSUME NEW d \in Wanted PROVE DiffInv(d)'
    BY <1>1, <2>1, <2>2 DEF DiffInv, TasksInv
  <2> QED BY <2>1, <2>3
<1>3. ASSUME ~IsReady(m), MayExpand(m), req' = [req EXCEPT ![r] = [pc |-> "drain", mod |-> m]], AddModule(m)
      PROVE  OneExpands' /\ \A d \in Wanted : DiffInv(d)'
  <2>1. ~WasAdded(m) /\ MarkAdded({m, GroupRoot(m)})
    BY <1>3 DEF MayExpand, AddModule
  <2>2. DiffInv(m) /\ m \in Dirs /\ RegistryTyped
    BY WantedInDirs DEF TasksInv, RegistryInv
  <2>3. /\ ~Expanding(m) /\ m \notin running /\ m \notin pending
        /\ results[m] = None /\ apply[m].pc = "none"
    BY <2>1, <2>2 DEF DiffInv
  <2>4. /\ \A q \in Requests \ {r} : req'[q] = req[q]
        /\ req'[r].pc = "drain" /\ req'[r].mod = m
    BY <1>3 DEF RegistryInv, RequestsTyped
  <2>5. OneExpands'
    BY <2>3, <2>4 DEF OneExpands, Expanding, TasksInv
  <2>6. ASSUME NEW d \in Wanted, d # m PROVE DiffInv(d)'
    <3>1. Expanding(d)' => Expanding(d)
      BY <2>4, <2>6 DEF Expanding
    <3>2. (WasAdded(d) => WasAdded(d)') /\ (IsReady(d)' => IsReady(d))
      BY <2>1, <2>2, AddingStates, WantedInDirs
    <3> QED BY <1>1, <3>1, <3>2 DEF DiffInv, TasksInv
  <2>7. DiffInv(m)'
    <3>1. WasAdded(m)' /\ ~IsReady(m)'
      BY <2>1, <2>2, AddingStates
    <3> QED BY <1>1, <2>3, <3>1 DEF DiffInv
  <2> QED BY <2>5, <2>6, <2>7
<1> QED BY <1>2, <1>3 DEF Request

LEMMA AnsweredKeepsDiff ==
    ASSUME RegistryInv, TasksInv, NEW r \in Requests, Answered(r)
    PROVE  OneExpands' /\ \A d \in Wanted : DiffInv(d)'
<1>1. UNCHANGED <<results, apply, running, pending>> /\ req[r].pc # "idle"
  BY DEF Answered, diffVars
<1>0. PICK m \in Wanted : m = req[r].mod
  BY <1>1 DEF RegistryInv, RequestsTyped
<1>2. CASE Ends(r) /\ UNCHANGED <<registryVars, unannounced>>
  <2>1. OneExpands' /\ \A d \in Wanted : Expanding(d)' => Expanding(d)
    <3>1. Idle.pc # "drain" BY DEF Idle
    <3> QED BY <1>2, <3>1, NoNewExpansion DEF Ends, RegistryInv, TasksInv
  <2>2. \A d \in Wanted : WasAdded(d)' = WasAdded(d) /\ IsReady(d)' = IsReady(d)
    BY <1>2 DEF WasAdded, IsReady, registryVars
  <2>3. ASSUME NEW d \in Wanted PROVE DiffInv(d)'
    BY <1>1, <1>2, <2>1, <2>2 DEF DiffInv, TasksInv
  <2> QED BY <2>1, <2>3
<1>3. CASE /\ MarkReady(m) /\ req' = [Resumed(Woken(m)) EXCEPT ![r] = Idle]
           /\ unannounced' = IF IsReady(m) THEN unannounced ELSE unannounced \cup {m}
  <2>1. \A q \in Requests : req'[q].pc = "drain" => req'[q] = req[q]
    BY <1>3 DEF RegistryInv, RequestsTyped, Resumed, Idle
  <2>2. OneExpands' /\ \A d \in Wanted : Expanding(d)' => Expanding(d)
    BY <2>1 DEF OneExpands, Expanding, TasksInv
  <2>3. /\ WasAdded(m)' /\ (IsReady(m) \/ m \in unannounced')
        /\ \A d \in Wanted \ {m} : WasAdded(d)' = WasAdded(d) /\ IsReady(d)' = IsReady(d)
    BY <1>3, WantedInDirs DEF MarkReady, RegistryInv, RegistryTyped, WasAdded, IsReady
  <2>4. unannounced \subseteq unannounced'
    BY <1>3
  <2>5. ASSUME NEW d \in Wanted PROVE DiffInv(d)'
    BY <1>1, <2>2, <2>3, <2>4 DEF DiffInv, TasksInv
  <2> QED BY <2>2, <2>5
<1> QED BY <1>0, <1>2, <1>3 DEF Answered

LEMMA PublishKeepsDiff ==
    ASSUME RegistryInv, TasksInv, NEW m \in Wanted, OnJdtlsDiagnostics(m)
    PROVE  OneExpands' /\ \A d \in Wanted : DiffInv(d)'
<1>1. /\ UNCHANGED <<results, running, pending, unannounced>>
      /\ MarkReady(m) /\ req' = Resumed(Woken(m))
  BY DEF OnJdtlsDiagnostics
<1>2. OneExpands' /\ \A d \in Wanted : Expanding(d)' => Expanding(d)
  BY <1>1, WakingExpandsNothing DEF RegistryInv, TasksInv
<1>3. /\ WasAdded(m)'
      /\ \A d \in Wanted \ {m} : WasAdded(d)' = WasAdded(d) /\ IsReady(d)' = IsReady(d)
  BY <1>1, WantedInDirs DEF MarkReady, RegistryInv, RegistryTyped, WasAdded, IsReady
<1>4. \/ (IsReady(m) \/ apply[m].pc # "none") /\ apply' = apply
      \/ apply[m].pc = "none" /\ ApplyAt(m, "fired")
  BY DEF OnJdtlsDiagnostics
<1>5. /\ \A d \in Wanted \ {m} : apply'[d] = apply[d]
      /\ \/ (IsReady(m) \/ apply[m].pc # "none") /\ apply'[m] = apply[m]
         \/ apply[m].pc = "none" /\ apply'[m].pc = "fired"
  BY <1>4, WantedInDirs DEF ApplyAt, TasksInv, TasksTyped
<1>6. ASSUME NEW d \in Wanted PROVE DiffInv(d)'
  BY <1>1, <1>2, <1>3, <1>5 DEF DiffInv, TasksInv
<1> QED BY <1>2, <1>6

\* The tasks of a module: the executor's return, and _apply_module_diff.
LEMMA TaskKeepsDiff ==
    ASSUME TasksInv, NEW m \in Wanted,
           DiffEnds(m) \/ ApplyRuns(m) \/ ApplyAwaitEnds(m) \/ ApplySaves(m)
    PROVE  OneExpands' /\ \A d \in Wanted : DiffInv(d)'
<1>1. UNCHANGED <<states, req>> /\ m \in Dirs /\ DiffInv(m)
  BY WantedInDirs DEF DiffEnds, ApplyRuns, ApplyAwaitEnds, ApplySaves, registryVars, TasksInv
<1>2. OneExpands' /\ \A d : Expanding(d)' = Expanding(d) /\ WasAdded(d)' = WasAdded(d) /\ IsReady(d)' = IsReady(d)
  BY <1>1 DEF TasksInv, OneExpands, Expanding, WasAdded, IsReady
<1>3. ASSUME \A d \in Wanted \ {m} :
                /\ results'[d] = results[d] /\ apply'[d] = apply[d]
                /\ d \in running' <=> d \in running
                /\ d \in pending' <=> d \in pending
                /\ d \in unannounced' <=> d \in unannounced
      PROVE  \A d \in Wanted \ {m} : DiffInv(d)'
  BY <1>2, <1>3 DEF DiffInv, TasksInv
<1>4. CASE DiffEnds(m)
  <2>1. /\ m \in running /\ running' = running \ {m} /\ pending' = pending \ {m}
        /\ UNCHANGED <<apply, unannounced>>
    BY <1>4 DEF DiffEnds
  <2>2. \A d \in Wanted \ {m} : results'[d] = results[d]
    BY <1>4, WantedInDirs DEF DiffEnds, TasksInv, TasksTyped
  <2>3. DiffInv(m)'
    BY <1>1, <1>2, <2>1 DEF DiffInv
  <2> QED BY <1>2, <1>3, <2>1, <2>2, <2>3
<1>5. CASE ApplyRuns(m)
  <2>1. apply[m].pc = "fired" /\ running' = running
    BY <1>5 DEF ApplyRuns
  <2>2. CASE results[m] # None /\ Notify(m) /\ UNCHANGED <<pending, unannounced>>
    BY <1>1, <2>1, <2>2, NotifyKeepsDiff
  <2>3. CASE /\ results[m] = None /\ m \in pending /\ pending' = pending \ {m} /\ ApplyAt(m, "await")
             /\ UNCHANGED <<unannounced, results>>
    <3>1. apply'[m].pc = "await" /\ \A d \in Wanted \ {m} : apply'[d] = apply[d]
      BY <1>1, <2>3 DEF ApplyAt, TasksInv, TasksTyped
    <3>2. DiffInv(m)'
      BY <1>1, <1>2, <2>1, <2>3, <3>1 DEF DiffInv
    <3> QED BY <1>2, <1>3, <2>1, <2>3, <3>1, <3>2
  <2>4. CASE /\ results[m] = None /\ m \notin pending /\ ApplyAt(m, "none")
             /\ unannounced' = IF \E q \in Requests : req[q].pc = "drain" /\ req[q].mod = m
                               THEN unannounced \cup {m} ELSE unannounced
             /\ UNCHANGED <<pending, results>>
    <3>1. apply'[m].pc = "none" /\ \A d \in Wanted \ {m} : apply'[d] = apply[d]
      BY <1>1, <2>4 DEF ApplyAt, TasksInv, TasksTyped
    <3>2. Expanding(m) => m \in unannounced'
      BY <2>4 DEF Expanding
    <3>3. m \notin running
      BY <1>1, <2>1, <2>4 DEF DiffInv
    <3>4. DiffInv(m)'
      BY <1>1, <1>2, <2>1, <2>4, <3>1, <3>2, <3>3 DEF DiffInv
    <3>5. \A d \in Wanted \ {m} : d \in unannounced' <=> d \in unannounced
      BY <2>4
    <3> QED BY <1>2, <1>3, <2>1, <2>4, <3>1, <3>4, <3>5
  <2> QED BY <1>5, <2>2, <2>3, <2>4 DEF ApplyRuns
<1>6. CASE ApplyAwaitEnds(m)
  <2>1. apply[m].pc = "await" /\ m \notin running /\ UNCHANGED <<running, pending, unannounced>>
    BY <1>6 DEF ApplyAwaitEnds
  <2>2. CASE results[m] # None /\ Notify(m)
    BY <1>1, <2>1, <2>2, NotifyKeepsDiff
  <2>3. CASE results[m] = None /\ ApplyAt(m, "none") /\ UNCHANGED results
    <3>1. apply'[m].pc = "none" /\ \A d \in Wanted \ {m} : apply'[d] = apply[d]
      BY <1>1, <2>3 DEF ApplyAt, TasksInv, TasksTyped
    <3>2. DiffInv(m)'
      BY <1>1, <1>2, <2>1, <2>3, <3>1 DEF DiffInv
    <3> QED BY <1>2, <1>3, <2>1, <2>3, <3>1, <3>2
  <2> QED BY <1>6, <2>2, <2>3 DEF ApplyAwaitEnds
<1>7. CASE ApplySaves(m)
  <2>1. apply[m].pc = "sent" /\ UNCHANGED <<results, running, pending, unannounced>>
    BY <1>7 DEF ApplySaves
  <2>2. apply'[m].pc = "none" /\ \A d \in Wanted \ {m} : apply'[d] = apply[d]
    BY <1>1, <1>7 DEF ApplySaves, TasksInv, TasksTyped, Passive
  <2>3. DiffInv(m)'
    BY <1>1, <1>2, <2>1, <2>2 DEF DiffInv
  <2> QED BY <1>2, <1>3, <2>1, <2>2, <2>3
<1> QED BY <1>4, <1>5, <1>6, <1>7

LEMMA DiffStep == RegistryInv /\ TasksInv /\ [GroupsNext \/ LastSession]_groupVars => TasksInv'
<1> SUFFICES ASSUME RegistryInv, TasksInv, [GroupsNext \/ LastSession]_groupVars PROVE TasksInv'
  OBVIOUS
<1>0. TasksTyped'
  BY TasksTypedStep DEF TasksInv
<1> SUFFICES OneExpands' /\ \A d \in Wanted : DiffInv(d)'
  BY <1>0 DEF TasksInv
<1>1. CASE JdtlsStarts
  <2>1. UNCHANGED <<req, results, apply, running, pending, unannounced>>
    BY <1>1 DEF JdtlsStarts, diffVars
  <2>2. \A d \in Wanted : (WasAdded(d) => WasAdded(d)') /\ (IsReady(d)' => IsReady(d))
    BY <1>1, AddingStates, WantedInDirs DEF JdtlsStarts, RegistryInv
  <2>3. OneExpands' /\ \A d : Expanding(d)' = Expanding(d)
    BY <2>1 DEF TasksInv, OneExpands, Expanding
  <2>4. ASSUME NEW d \in Wanted PROVE DiffInv(d)'
    BY <2>1, <2>2, <2>3 DEF DiffInv, TasksInv
  <2> QED BY <2>3, <2>4
<1>2. CASE NewSession
  <2>1. /\ req' = [q \in Requests |-> Idle] /\ results' = [m \in Dirs |-> None]
        /\ pending' = {} /\ running' = {} /\ apply' = [m \in Dirs |-> Passive]
    BY <1>2 DEF NewSession, Forgotten
  <2>2. OneExpands' /\ \A d \in Wanted : ~Expanding(d)'
    BY <2>1 DEF OneExpands, Expanding, Idle
  <2>3. \A d \in Wanted : results'[d] = None /\ apply'[d].pc = "none"
    BY <2>1, WantedInDirs DEF Passive
  <2>4. ASSUME NEW d \in Wanted PROVE DiffInv(d)'
    BY <2>1, <2>2, <2>3 DEF DiffInv
  <2> QED BY <2>2, <2>4
<1>3. ASSUME NEW r \in Requests, NEW m \in Wanted, Request(r, m)
      PROVE  OneExpands' /\ \A d \in Wanted : DiffInv(d)'
  BY <1>3, RequestKeepsDiff
<1>4. ASSUME NEW r \in Requests, AddModuleEnds(r)
      PROVE  OneExpands' /\ \A d \in Wanted : DiffInv(d)'
  <2>1. PICK m \in Wanted : m = req[r].mod /\ req[r].pc = "drain"
    BY <1>4 DEF AddModuleEnds, RegistryInv, RequestsTyped
  <2>2. /\ running' = running \cup {m} /\ pending' = pending \cup {m}
        /\ UNCHANGED <<states, results, apply, unannounced>>
        /\ req' = [req EXCEPT ![r] = [req[r] EXCEPT !.pc = "first"]]
    BY <1>4, <2>1 DEF AddModuleEnds, Goes, registryVars
  <2>3. Expanding(m) /\ DiffInv(m)
    BY <2>1 DEF Expanding, TasksInv
  <2>4. [req[r] EXCEPT !.pc = "first"].pc # "drain"
    BY DEF RegistryInv, RequestsTyped
  <2>5. OneExpands' /\ \A d \in Wanted : Expanding(d)' => Expanding(d)
    BY <2>2, <2>4, NoNewExpansion DEF RegistryInv, TasksInv
  <2>6. ~Expanding(m)'
    <3>1. \A q \in Requests \ {r} : req'[q] = req[q] /\ ~(req[q].pc = "drain" /\ req[q].mod = m)
      BY <2>1, <2>2 DEF OneExpands, TasksInv, RegistryInv, RequestsTyped
    <3>2. req'[r].pc = "first"
      BY <2>2 DEF RegistryInv, RequestsTyped
    <3> QED BY <3>1, <3>2 DEF Expanding
  <2>7. \A d : WasAdded(d)' = WasAdded(d) /\ IsReady(d)' = IsReady(d)
    BY <2>2 DEF WasAdded, IsReady
  <2>8. DiffInv(m)'
    BY <2>2, <2>3, <2>6, <2>7 DEF DiffInv
  <2>9. ASSUME NEW d \in Wanted, d # m PROVE DiffInv(d)'
    BY <2>2, <2>5, <2>7, <2>9 DEF DiffInv, TasksInv
  <2> QED BY <2>5, <2>8, <2>9
<1>5. ASSUME NEW r \in Requests, Answered(r)
      PROVE  OneExpands' /\ \A d \in Wanted : DiffInv(d)'
  BY <1>5, AnsweredKeepsDiff
<1>6. ASSUME NEW r \in Requests, NotAnswered(r) \/ WaitEnds(r)
      PROVE  OneExpands' /\ \A d \in Wanted : DiffInv(d)'
  <2>1. UNCHANGED <<states, results, apply, running, pending, unannounced>>
    BY <1>6 DEF NotAnswered, WaitEnds, registryVars, diffVars
  <2>2. PICK e : e.pc # "drain" /\ req' = [req EXCEPT ![r] = e]
    <3>1. CASE Ends(r)
      BY <3>1 DEF Ends, Idle
    <3>2. CASE \E pc \in {"wait", "retry"} : Goes(r, pc)
      <4>1. PICK pc \in {"wait", "retry"} : req' = [req EXCEPT ![r] = [req[r] EXCEPT !.pc = pc]]
        BY <3>2 DEF Goes
      <4>2. [req[r] EXCEPT !.pc = pc].pc # "drain"
        BY DEF RegistryInv, RequestsTyped
      <4> QED BY <4>1, <4>2
    <3> QED BY <1>6, <3>1, <3>2 DEF NotAnswered, WaitEnds
  <2>3. OneExpands' /\ \A d \in Wanted : Expanding(d)' => Expanding(d)
    BY <2>2, NoNewExpansion DEF RegistryInv, TasksInv
  <2>4. \A d : WasAdded(d)' = WasAdded(d) /\ IsReady(d)' = IsReady(d)
    BY <2>1 DEF WasAdded, IsReady
  <2>5. ASSUME NEW d \in Wanted PROVE DiffInv(d)'
    BY <2>1, <2>3, <2>4 DEF DiffInv, TasksInv
  <2> QED BY <2>3, <2>5
<1>7. ASSUME NEW m \in Wanted, OnJdtlsDiagnostics(m)
      PROVE  OneExpands' /\ \A d \in Wanted : DiffInv(d)'
  BY <1>7, PublishKeepsDiff
<1>8. ASSUME NEW m \in Wanted, DiffEnds(m) \/ ApplyRuns(m) \/ ApplyAwaitEnds(m) \/ ApplySaves(m)
      PROVE  OneExpands' /\ \A d \in Wanted : DiffInv(d)'
  BY <1>8, TaskKeepsDiff
<1>9. CASE \/ ExpandFullEnds \/ JdtlsExits \/ WriteFails \/ LastSession \/ UNCHANGED groupVars
           \/ \E m \in Wanted : ImportModule(m)
  <2>1. UNCHANGED <<states, req, results, apply, running, pending, unannounced>>
    BY <1>9 DEF ExpandFullEnds, JdtlsExits, WriteFails, LastSession, ImportModule, registryVars, diffVars, groupVars
  <2>2. OneExpands' /\ \A d : Expanding(d)' = Expanding(d) /\ WasAdded(d)' = WasAdded(d) /\ IsReady(d)' = IsReady(d)
    BY <2>1 DEF TasksInv, OneExpands, Expanding, WasAdded, IsReady
  <2>3. ASSUME NEW d \in Wanted PROVE DiffInv(d)'
    BY <2>1, <2>2 DEF DiffInv, TasksInv
  <2> QED BY <2>2, <2>3
<1> QED BY <1>1, <1>2, <1>3, <1>4, <1>5, <1>6, <1>7, <1>8, <1>9 DEF GroupsNext

LEMMA TasksHold == GroupsSpec => [](RegistryInv /\ TasksInv)
<1> QED BY RegistryInit, RegistryStep, DiffInit, DiffStep, PTL DEF GroupsSpec

\* A diff that was computed is applied once its module is READY, whichever of the two
\* comes first (_kick_module_diff, _apply_module_diff), with the exceptions on record.
THEOREM DiffsAreApplied == GroupsSpec => []DiffIsApplied
<1>1. TasksInv => DiffIsApplied BY DEF TasksInv, DiffInv, DiffIsApplied
<1> QED BY <1>1, TasksHold, PTL

----------------------------------------------------------------------------
(* The snapshot of a module.  Within a session the files do not change, so   *)
(* everything on its way is about the version on disk; what jdtls knows of *)
(* a module only grows, towards that version.                              *)

StartInv ==
    IF start = "off" THEN ~available /\ ~alive /\ \A d \in Dirs : ~WasAdded(d)
    ELSE initial \in Initials
KnownInv == \A i \in Initials, d \in Dirs : known[i][d] \in Nat => known[i][d] <= disk[d]
SavedInv(m) ==
    snap[m] # None /\ m \notin unsaid =>
        /\ savedFor[m] \in Initials /\ known[savedFor[m]][m] \in Nat
        /\ snap[m] <= known[savedFor[m]][m]
MovingInv(m) ==
    /\ results[m] # None => results[m].new = disk[m] /\ results[m].old = snap[m]
    /\ apply[m].pc = "sent" =>
           /\ apply[m].new = disk[m]
           /\ apply[m].said = "yes" => known[initial][m] = disk[m]
           /\ apply[m].said = "same" => snap[m] = disk[m]
SnapshotInv == StartInv /\ KnownInv /\ \A m \in Wanted : SavedInv(m) /\ MovingInv(m)

LEMMA SnapshotInit == GroupsInit => SnapshotInv
<1> SUFFICES ASSUME GroupsInit PROVE SnapshotInv OBVIOUS
<1>1. StartInv BY DEF GroupsInit, StartInv, WasAdded
<1>2. KnownInv BY NoneOutside DEF GroupsInit, KnownInv
<1>3. ASSUME NEW m \in Wanted PROVE SavedInv(m) /\ MovingInv(m)
  BY WantedInDirs DEF GroupsInit, SavedInv, MovingInv, Passive
<1> QED BY <1>1, <1>2, <1>3 DEF SnapshotInv

LEMMA StartStep ==
    RegistryInv /\ TasksInv /\ StartInv /\ [GroupsNext \/ LastSession]_groupVars => StartInv'
<1> SUFFICES ASSUME RegistryInv, TasksInv, StartInv, [GroupsNext \/ LastSession]_groupVars
             PROVE  StartInv'
  OBVIOUS
<1>1. CASE JdtlsStarts
  <2>1. start' # "off" /\ initial' \in Initials
    BY <1>1 DEF JdtlsStarts
  <2> QED BY <2>1 DEF StartInv
<1>2. CASE NewSession
  BY <1>2 DEF NewSession, Forgotten, StartInv, WasAdded
<1>3. ASSUME start # "off", start' # "off", initial' = initial PROVE StartInv'
  BY <1>3 DEF StartInv
<1>4. ASSUME UNCHANGED <<start, initial, states>>, ~available => ~available', ~alive => ~alive'
      PROVE  StartInv'
  BY <1>4 DEF StartInv, WasAdded
<1>5. CASE ExpandFullEnds
  BY <1>3, <1>5 DEF ExpandFullEnds
<1>6. CASE JdtlsExits \/ WriteFails \/ LastSession \/ UNCHANGED groupVars
  BY <1>4, <1>6 DEF JdtlsExits, WriteFails, LastSession, groupVars, clientVars, registryVars
<1>7. ASSUME NEW r \in Requests,
             \/ \E m \in Wanted : Request(r, m)
             \/ Answered(r)
      PROVE  StartInv'
  <2>1. (available \/ alive) /\ start' = start /\ initial' = initial
    BY <1>7 DEF Request, Answered, clientVars
  <2>2. start # "off"
    BY <2>1 DEF StartInv
  <2> QED BY <1>3, <2>1, <2>2
<1>8. ASSUME NEW r \in Requests, AddModuleEnds(r) \/ NotAnswered(r) \/ WaitEnds(r) PROVE StartInv'
  BY <1>4, <1>8 DEF AddModuleEnds, NotAnswered, WaitEnds, clientVars, registryVars
<1>9. ASSUME NEW m \in Wanted, OnJdtlsDiagnostics(m) PROVE StartInv'
  <2>1. alive /\ start' = start /\ initial' = initial
    BY <1>9 DEF OnJdtlsDiagnostics, clientVars
  <2>2. start # "off"
    BY <2>1 DEF StartInv
  <2> QED BY <1>3, <2>1, <2>2
<1>10. ASSUME NEW m \in Wanted, ImportModule(m) \/ DiffEnds(m) \/ ApplySaves(m) PROVE StartInv'
  BY <1>4, <1>10 DEF ImportModule, DiffEnds, ApplySaves, clientVars, registryVars
<1>11. ASSUME NEW m \in Wanted, ApplyRuns(m) \/ ApplyAwaitEnds(m) PROVE StartInv'
  <2>1. UNCHANGED <<start, initial, states, alive>>
    BY <1>11 DEF ApplyRuns, ApplyAwaitEnds, registryVars
  <2>2. ~available => ~available'
    BY <1>11 DEF ApplyRuns, ApplyAwaitEnds, Notify, Says
  <2> QED BY <1>4, <2>1, <2>2
<1> QED BY <1>1, <1>2, <1>5, <1>6, <1>7, <1>8, <1>9, <1>10, <1>11 DEF GroupsNext

\* jdtls's data either stays or catches up with the disk.
KnownMoves ==
    \A i \in Initials, d \in Dirs : known'[i][d] = known[i][d] \/ known'[i][d] = disk[d]

\* A step of a session that neither saves nor hands over anything about module d.
LEMMA SnapshotRests ==
    ASSUME TasksTyped, SnapshotInv, NEW d \in Wanted, disk' = disk, KnownMoves, initial' = initial,
           results'[d] = results[d] \/ results'[d] = None,
           apply'[d] = apply[d] \/ apply'[d].pc # "sent",
           initial \in Initials \/ apply[d].pc # "sent",
           snap'[d] = snap[d], savedFor'[d] = savedFor[d], d \in unsaid' <=> d \in unsaid
    PROVE  SavedInv(d)' /\ MovingInv(d)'
<1>1. SavedInv(d) /\ MovingInv(d) /\ KnownInv /\ d \in Dirs /\ disk[d] \in Nat
  BY WantedInDirs, VersionsAreNumbers DEF SnapshotInv, TasksTyped
<1>2. SavedInv(d)'
  <2> SUFFICES ASSUME snap[d] # None, d \notin unsaid
               PROVE  /\ savedFor[d] \in Initials /\ known'[savedFor[d]][d] \in Nat
                      /\ snap[d] <= known'[savedFor[d]][d]
    BY DEF SavedInv
  <2>1. /\ savedFor[d] \in Initials /\ known[savedFor[d]][d] \in Nat
        /\ snap[d] <= known[savedFor[d]][d]
    BY <1>1 DEF SavedInv
  <2>2. known[savedFor[d]][d] <= disk[d]
    BY <1>1, <2>1 DEF KnownInv
  <2>3. known'[savedFor[d]][d] = known[savedFor[d]][d] \/ known'[savedFor[d]][d] = disk[d]
    BY <1>1, <2>1 DEF KnownMoves
  <2>4. snap[d] \in Nat
    BY <1>1, VersionsAreNumbers DEF TasksTyped, Stamps
  <2> QED BY <1>1, <2>1, <2>2, <2>3, <2>4
<1>3. MovingInv(d)'
  <2>1. apply[d].pc = "sent" /\ apply[d].said = "yes" => known'[initial][d] = disk[d]
    BY <1>1 DEF MovingInv, KnownMoves
  <2> QED BY <1>1, <2>1 DEF MovingInv
<1> QED BY <1>2, <1>3

LEMMA KnownStays ==
    ASSUME TasksTyped, KnownInv, KnownMoves, disk' = disk
    PROVE  KnownInv'
<1> SUFFICES ASSUME NEW i \in Initials, NEW d \in Dirs, known'[i][d] \in Nat
             PROVE  known'[i][d] <= disk[d]
  BY DEF KnownInv
<1>1. disk[d] \in Nat
  BY VersionsAreNumbers DEF TasksTyped
<1> QED BY <1>1 DEF KnownInv, KnownMoves

LEMMA NotifyKeepsSnapshot ==
    ASSUME TasksInv, SnapshotInv, NEW m \in Wanted, results[m] # None, Notify(m),
           initial' = initial, disk' = disk
    PROVE  KnownInv' /\ \A d \in Wanted : SavedInv(d)' /\ MovingInv(d)'
<1>1. m \in Dirs /\ DiffInv(m) /\ MovingInv(m) /\ TasksTyped
  BY WantedInDirs DEF TasksInv, SnapshotInv
<1>2. /\ results[m] \in [old : Stamps, new : Versions]
      /\ results[m].new = disk[m] /\ results[m].old = snap[m]
  BY <1>1 DEF MovingInv, TasksTyped
<1>3. WasAdded(m) /\ initial \in Initials
  BY <1>1 DEF DiffInv, SnapshotInv, StartInv
<1>4. /\ results' = [results EXCEPT ![m] = None] /\ UNCHANGED <<snap, savedFor, unsaid>>
      /\ \/ known' = known \/ known' = [known EXCEPT ![initial][m] = disk[m]]
  BY <1>2 DEF Notify, Says
<1>5. KnownMoves
  <2> SUFFICES ASSUME NEW i \in Initials, NEW d \in Dirs
               PROVE  known'[i][d] = known[i][d] \/ known'[i][d] = disk[d]
    BY DEF KnownMoves
  <2>1. CASE known' = [known EXCEPT ![initial][m] = disk[m]]
    <3>1. known'[i] = IF i = initial THEN [known[i] EXCEPT ![m] = disk[m]] ELSE known[i]
      BY <1>1, <2>1 DEF TasksTyped
    <3>2. known[i] \in [Dirs -> Stamps]
      BY <1>1 DEF TasksTyped
    <3> QED BY <3>1, <3>2
  <2> QED BY <1>4, <2>1
<1>6. KnownInv'
  BY <1>1, <1>5, KnownStays DEF SnapshotInv
<1>7. /\ apply'[m].pc = "sent" /\ apply'[m].new = disk[m]
      /\ apply'[m].said = "yes" => known'[initial][m] = disk[m]
      /\ apply'[m].said = "same" => snap[m] = disk[m]
  <2>1. CASE results[m].old = None /\ known' = known
             /\ Sending(m, results[m], IF known[initial][m] = results[m].new THEN "yes" ELSE "no")
    BY <1>1, <1>2, <2>1 DEF Sending, TasksTyped
  <2>2. CASE results[m].old = results[m].new /\ Sending(m, results[m], "same")
    BY <1>1, <1>2, <2>2 DEF Sending, TasksTyped
  <2>3. CASE Sending(m, results[m], "yes") /\ known' = [known EXCEPT ![initial][m] = results[m].new]
    BY <1>1, <1>2, <1>3, <2>3 DEF Sending, TasksTyped
  <2>4. CASE Sending(m, results[m], "no")
    BY <1>1, <1>2, <2>4 DEF Sending, TasksTyped
  <2> QED BY <2>1, <2>2, <2>3, <2>4 DEF Notify, Says
<1>8. ASSUME NEW d \in Wanted, d # m PROVE SavedInv(d)' /\ MovingInv(d)'
  <2>1. results'[d] = results[d]
    BY <1>1, <1>4, <1>8, WantedInDirs DEF TasksTyped
  <2>2. apply'[d] = apply[d]
    BY <1>1, <1>8, WantedInDirs DEF Notify, Says, Sending, TasksTyped
  <2> QED BY <1>1, <1>3, <1>4, <1>5, <2>1, <2>2, SnapshotRests
<1>9. SavedInv(m)'
  <2> SUFFICES ASSUME snap[m] # None, m \notin unsaid
               PROVE  /\ savedFor[m] \in Initials /\ known'[savedFor[m]][m] \in Nat
                      /\ snap[m] <= known'[savedFor[m]][m]
    BY <1>4 DEF SavedInv
  <2>1. /\ savedFor[m] \in Initials /\ known[savedFor[m]][m] \in Nat
        /\ snap[m] <= known[savedFor[m]][m] /\ known[savedFor[m]][m] <= disk[m]
    BY <1>1 DEF SavedInv, SnapshotInv, KnownInv
  <2>2. known'[savedFor[m]][m] = known[savedFor[m]][m] \/ known'[savedFor[m]][m] = disk[m]
    BY <1>1, <1>5, <2>1 DEF KnownMoves
  <2>3. snap[m] \in Nat /\ disk[m] \in Nat
    BY <1>1, VersionsAreNumbers DEF TasksTyped, Stamps
  <2> QED BY <2>1, <2>2, <2>3
<1>10. results'[m] = None
  BY <1>1, <1>4 DEF TasksTyped
<1>11. MovingInv(m)'
  BY <1>4, <1>7, <1>10 DEF MovingInv
<1> QED BY <1>6, <1>8, <1>9, <1>11

LEMMA SavingKeepsSnapshot ==
    ASSUME TasksInv, SnapshotInv, NEW m \in Wanted, ApplySaves(m)
    PROVE  KnownInv' /\ \A d \in Wanted : SavedInv(d)' /\ MovingInv(d)'
<1>1. /\ m \in Dirs /\ DiffInv(m) /\ MovingInv(m) /\ SavedInv(m) /\ TasksTyped
      /\ apply[m].pc = "sent"
  BY WantedInDirs DEF TasksInv, SnapshotInv, ApplySaves
<1>2. initial \in Initials /\ results[m] = None
  BY <1>1 DEF DiffInv, SnapshotInv, StartInv
<1>3. UNCHANGED <<initial, results, known, disk>> /\ apply' = [apply EXCEPT ![m] = Passive]
  BY DEF ApplySaves, clientVars
<1>4. KnownMoves /\ KnownInv'
  BY <1>3 DEF KnownMoves, SnapshotInv, KnownInv
<1>5. /\ \A d \in Wanted \ {m} : /\ snap'[d] = snap[d] /\ savedFor'[d] = savedFor[d]
                                 /\ d \in unsaid' <=> d \in unsaid
  BY <1>1, WantedInDirs DEF ApplySaves, TasksTyped
<1>6. apply'[m].pc # "sent" /\ \A d \in Wanted \ {m} : apply'[d] = apply[d]
  BY <1>1, <1>3, WantedInDirs DEF TasksTyped, Passive
<1>7. ASSUME NEW d \in Wanted, d # m PROVE SavedInv(d)' /\ MovingInv(d)'
  BY <1>1, <1>2, <1>3, <1>4, <1>5, <1>6, <1>7, SnapshotRests
<1>8. MovingInv(m)'
  BY <1>2, <1>3, <1>6 DEF MovingInv
<1>9. SavedInv(m)'
  <2>1. CASE UNCHANGED <<snap, savedFor, unsaid>>
    BY <1>1, <1>3, <2>1 DEF SavedInv
  <2>2. CASE apply[m].said = "same" /\ snap' = [snap EXCEPT ![m] = apply[m].new]
             /\ savedFor' = savedFor /\ unsaid' = unsaid
    <3>1. snap'[m] = snap[m]
      BY <1>1, <2>2 DEF MovingInv, TasksTyped
    <3> QED BY <1>1, <1>3, <2>2, <3>1 DEF SavedInv
  <2>3. CASE apply[m].said = "no" /\ unsaid' = unsaid \cup {m}
    BY <2>3 DEF SavedInv
  <2>4. CASE apply[m].said = "yes" /\ snap' = [snap EXCEPT ![m] = apply[m].new]
             /\ savedFor' = [savedFor EXCEPT ![m] = initial]
    <3>1. snap'[m] = disk[m] /\ savedFor'[m] = initial /\ known[initial][m] = disk[m]
      BY <1>1, <2>4 DEF MovingInv, TasksTyped
    <3>2. disk[m] \in Nat
      BY <1>1, VersionsAreNumbers DEF TasksTyped
    <3> QED BY <1>2, <1>3, <3>1, <3>2 DEF SavedInv
  <2>5. apply[m].said \in {"yes", "no", "same"}
    BY <1>1 DEF TasksTyped
  <2> QED BY <2>1, <2>2, <2>3, <2>4, <2>5 DEF ApplySaves
<1> QED BY <1>4, <1>7, <1>8, <1>9

LEMMA SnapshotStep ==
    RegistryInv /\ TasksInv /\ SnapshotInv /\ [GroupsNext \/ LastSession]_groupVars => SnapshotInv'
<1> SUFFICES ASSUME RegistryInv, TasksInv, SnapshotInv, [GroupsNext \/ LastSession]_groupVars
             PROVE  SnapshotInv'
  OBVIOUS
<1>0. StartInv'
  BY StartStep DEF SnapshotInv
<1> SUFFICES KnownInv' /\ \A d \in Wanted : SavedInv(d)' /\ MovingInv(d)'
  BY <1>0 DEF SnapshotInv
<1>1. \A d \in Wanted : initial \in Initials \/ apply[d].pc = "none"
  BY WantedInDirs DEF SnapshotInv, StartInv, TasksInv, DiffInv
<1>2. ASSUME UNCHANGED <<initial, results, known, disk, snap, savedFor, unsaid>>,
             \A d \in Wanted : apply'[d] = apply[d] \/ apply'[d].pc # "sent"
      PROVE  KnownInv' /\ \A d \in Wanted : SavedInv(d)' /\ MovingInv(d)'
  <2>1. KnownMoves
    BY <1>2 DEF KnownMoves
  <2> QED BY <1>1, <1>2, <2>1, KnownStays, SnapshotRests DEF SnapshotInv, TasksInv
<1>3. CASE JdtlsStarts
  <2>1. UNCHANGED <<results, apply, known, disk, snap, savedFor, unsaid>> /\ start = "off"
    BY <1>3 DEF JdtlsStarts, diffVars, diskVars
  <2>2. \A d \in Wanted : apply[d].pc = "none"
    BY <2>1, WantedInDirs DEF SnapshotInv, StartInv, TasksInv, DiffInv
  <2>3. KnownInv'
    BY <2>1 DEF SnapshotInv, KnownInv
  <2> QED BY <2>1, <2>2, <2>3 DEF SnapshotInv, SavedInv, MovingInv
<1>4. CASE NewSession
  <2>1. /\ results' = [d \in Dirs |-> None] /\ apply' = [d \in Dirs |-> Passive]
        /\ UNCHANGED <<known, snap, savedFor, unsaid>>
    BY <1>4 DEF NewSession, Forgotten
  <2>2. \A d \in Dirs : disk[d] \in Nat /\ (disk'[d] = disk[d] \/ disk'[d] = disk[d] + 1)
    BY <1>4, VersionsAreNumbers DEF NewSession, TasksInv, TasksTyped
  <2>3. KnownInv'
    <3> SUFFICES ASSUME NEW i \in Initials, NEW d \in Dirs, known[i][d] \in Nat
                 PROVE  known[i][d] <= disk'[d]
      BY <2>1 DEF KnownInv
    <3>1. known[i][d] <= disk[d]
      BY DEF SnapshotInv, KnownInv
    <3> QED BY <2>2, <3>1
  <2>4. ASSUME NEW d \in Wanted PROVE SavedInv(d)' /\ MovingInv(d)'
    BY <2>1, WantedInDirs DEF SnapshotInv, SavedInv, MovingInv, Passive
  <2> QED BY <2>3, <2>4
<1>5. ASSUME NEW r \in Requests,
             \/ \E m \in Wanted : Request(r, m)
             \/ AddModuleEnds(r) \/ Answered(r) \/ NotAnswered(r) \/ WaitEnds(r)
      PROVE  KnownInv' /\ \A d \in Wanted : SavedInv(d)' /\ MovingInv(d)'
  BY <1>2, <1>5 DEF Request, AddModuleEnds, Answered, NotAnswered, WaitEnds, clientVars, diffVars,
                    diskVars
<1>6. CASE ExpandFullEnds \/ JdtlsExits \/ WriteFails \/ LastSession \/ UNCHANGED groupVars
  BY <1>2, <1>6 DEF ExpandFullEnds, JdtlsExits, WriteFails, LastSession, groupVars, clientVars, diffVars, diskVars
<1>7. ASSUME NEW m \in Wanted, OnJdtlsDiagnostics(m)
      PROVE  KnownInv' /\ \A d \in Wanted : SavedInv(d)' /\ MovingInv(d)'
  <2>1. UNCHANGED <<initial, results, known, disk, snap, savedFor, unsaid>>
    BY <1>7 DEF OnJdtlsDiagnostics, clientVars, diskVars
  <2>2. apply' = apply \/ ApplyAt(m, "fired")
    BY <1>7 DEF OnJdtlsDiagnostics
  <2>3. \A d \in Wanted : apply'[d] = apply[d] \/ apply'[d].pc # "sent"
    BY <2>2, WantedInDirs DEF ApplyAt, TasksInv, TasksTyped
  <2> QED BY <1>2, <2>1, <2>3
<1>8. ASSUME NEW m \in Wanted, ImportModule(m)
      PROVE  KnownInv' /\ \A d \in Wanted : SavedInv(d)' /\ MovingInv(d)'
  <2>1. /\ UNCHANGED <<initial, results, apply, disk, snap, savedFor, unsaid>>
        /\ known' = [known EXCEPT ![initial][m] = IF @ = None THEN disk[m] ELSE @]
    BY <1>8 DEF ImportModule, clientVars, diffVars
  <2>2. KnownMoves
    <3> SUFFICES ASSUME NEW i \in Initials, NEW d \in Dirs
                 PROVE  known'[i][d] = known[i][d] \/ known'[i][d] = disk[d]
      BY DEF KnownMoves
    <3>1. known[i] \in [Dirs -> Stamps] /\ known \in [Initials -> [Dirs -> Stamps]] /\ m \in Dirs
      BY WantedInDirs DEF TasksInv, TasksTyped
    <3>2. known'[i] = IF i = initial
                      THEN [known[i] EXCEPT ![m] = IF known[i][m] = None THEN disk[m] ELSE known[i][m]]
                      ELSE known[i]
      BY <2>1, <3>1
    <3> QED BY <3>1, <3>2
  <2> QED BY <1>1, <2>1, <2>2, KnownStays, SnapshotRests DEF SnapshotInv, TasksInv
<1>9. ASSUME NEW m \in Wanted, DiffEnds(m)
      PROVE  KnownInv' /\ \A d \in Wanted : SavedInv(d)' /\ MovingInv(d)'
  <2>1. UNCHANGED <<initial, apply, known, disk, snap, savedFor, unsaid>>
    BY <1>9 DEF DiffEnds, clientVars, diskVars
  <2>2. results' = results \/ results' = [results EXCEPT ![m] = [old |-> snap[m], new |-> disk[m]]]
    BY <1>9 DEF DiffEnds
  <2>3. \A d \in Wanted : \/ results'[d] = results[d]
                          \/ results'[d].new = disk[d] /\ results'[d].old = snap[d]
    BY <2>2, WantedInDirs DEF TasksInv, TasksTyped
  <2>4. KnownInv' /\ \A d \in Wanted : SavedInv(d)'
    BY <2>1 DEF SnapshotInv, KnownInv, SavedInv
  <2>5. ASSUME NEW d \in Wanted PROVE MovingInv(d)'
    BY <2>1, <2>3 DEF SnapshotInv, MovingInv
  <2> QED BY <2>4, <2>5
<1>10. ASSUME NEW m \in Wanted, ApplyRuns(m) \/ ApplyAwaitEnds(m)
       PROVE  KnownInv' /\ \A d \in Wanted : SavedInv(d)' /\ MovingInv(d)'
  <2>1. initial' = initial /\ disk' = disk
    BY <1>10 DEF ApplyRuns, ApplyAwaitEnds
  <2>2. CASE results[m] # None /\ Notify(m)
    BY <2>1, <2>2, NotifyKeepsSnapshot
  <2>3. CASE /\ UNCHANGED <<results, known, snap, savedFor, unsaid>>
             /\ \E pc \in {"await", "none"} : ApplyAt(m, pc)
    <3>1. PICK pc \in {"await", "none"} : apply' = [apply EXCEPT ![m].pc = pc]
      BY <2>3 DEF ApplyAt
    <3>2. \A d \in Wanted : apply'[d] = apply[d] \/ apply'[d].pc # "sent"
      BY <3>1, WantedInDirs DEF TasksInv, TasksTyped
    <3> QED BY <1>2, <2>1, <2>3, <3>2
  <2> QED BY <1>10, <2>2, <2>3 DEF ApplyRuns, ApplyAwaitEnds
<1>11. ASSUME NEW m \in Wanted, ApplySaves(m)
       PROVE  KnownInv' /\ \A d \in Wanted : SavedInv(d)' /\ MovingInv(d)'
  BY <1>11, SavingKeepsSnapshot
<1> QED BY <1>3, <1>4, <1>5, <1>6, <1>7, <1>8, <1>9, <1>10, <1>11 DEF GroupsNext

\* Wherever the server is killed, and however many sessions follow, a stored snapshot
\* is not ahead of the jdtls data it was saved for (ModuleSnapshot.save comes last).
THEOREM SnapshotsAreNotAhead == GroupsSpec => []SnapshotNotAhead
<1>1. SnapshotInv => SnapshotNotAhead BY DEF SnapshotInv, SavedInv, SnapshotNotAhead
<1>2. GroupsSpec => []SnapshotInv
  BY RegistryInit, RegistryStep, DiffInit, DiffStep, SnapshotInit, SnapshotStep, PTL DEF GroupsSpec
<1> QED BY <1>1, <1>2, PTL

----------------------------------------------------------------------------
(* The workspace folders.  A group that is announced removes what it        *)
(* covers, so that a folder is only ever below an earlier one; everything   *)
(* that is told was marked as added before, and is on record but for the    *)
(* first group while expand_full_workspace is suspended, and for a first    *)
(* module that is not under the client's root.                              *)

LEMMA AncestorsCompare ==
    ASSUME NEW m \in Dirs, NEW a \in Ancestors[m], NEW b \in Ancestors[m]
    PROVE  Under(a, b) \/ Under(b, a)
<1>1. {a, b} \in SUBSET Ancestors[m] /\ {a, b} # {}
  OBVIOUS
<1>2. PICK d \in {a, b} : \A e \in {a, b} : Under(d, e)
  BY <1>1, ExtremesExist
<1> QED BY <1>2

\* A group is under the client's root, and over the module when that one is.
LEMMA GroupRootPlaced ==
    ASSUME NEW m \in Dirs
    PROVE  /\ Under(GroupRoot(m), ClientRoot)
           /\ Under(m, ClientRoot) => Under(m, GroupRoot(m))
<1> DEFINE boundary == RepoBoundary(m)
           bound == IF Under(ClientRoot, boundary) THEN ClientRoot ELSE boundary
           groups == {a \in Ancestors[m] \ {m} : a \in Aggregators /\ Under(a, bound) /\ a # bound}
<1>1. Under(ClientRoot, ClientRoot) /\ Under(m, m)
  BY RootInDirs, AncestorsTyped DEF Under
<1>2. CASE ~Under(m, ClientRoot) \/ m = ClientRoot
  <2>1. GroupRoot(m) = ClientRoot
    BY <1>2 DEF GroupRoot
  <2> QED BY <1>1, <2>1
<1>3. CASE Under(m, ClientRoot) /\ m # ClientRoot
  <2>1. GroupRoot(m) = IF groups = {} THEN m ELSE Deepest(groups)
    BY <1>3 DEF GroupRoot
  <2>2. CASE groups = {}
    BY <1>1, <1>3, <2>1, <2>2
  <2>3. CASE groups # {}
    <3>1. Deepest(groups) \in groups
      <4>1. groups \in SUBSET Ancestors[m]
        OBVIOUS
      <4> HIDE DEF groups
      <4> QED BY <2>3, <4>1, ExtremesExist DEF Deepest
    <3>2. PICK g \in Ancestors[m] : GroupRoot(m) = g /\ Under(g, bound)
      <4> HIDE DEF bound
      <4> QED BY <2>1, <2>3, <3>1
    <3>3. g \in Dirs
      BY <3>2, AncestorsTyped
    <3>4. boundary \in Ancestors[m]
      <4>1. CASE Ancestors[m] \cap Git # {}
        <5>1. (Ancestors[m] \cap Git) \in SUBSET Ancestors[m]
          OBVIOUS
        <5>2. Deepest(Ancestors[m] \cap Git) \in Ancestors[m] \cap Git
          BY <4>1, <5>1, ExtremesExist DEF Deepest
        <5> QED BY <4>1, <5>2 DEF RepoBoundary
      <4>2. CASE Ancestors[m] \cap Git = {}
        <5>1. Ancestors[m] \in SUBSET Ancestors[m] /\ Ancestors[m] # {}
          BY AncestorsTyped
        <5>2. Topmost(Ancestors[m]) \in Ancestors[m]
          BY <5>1, ExtremesExist DEF Topmost
        <5> QED BY <4>2, <5>2 DEF RepoBoundary
      <4> QED BY <4>1, <4>2
    <3>5. Under(bound, ClientRoot)
      <4>1. CASE Under(ClientRoot, boundary)
        BY <1>1, <4>1
      <4>2. CASE ~Under(ClientRoot, boundary)
        <5>1. ClientRoot \in Ancestors[m]
          BY <1>3 DEF Under
        <5> HIDE DEF boundary
        <5>2. Under(boundary, ClientRoot)
          BY <3>4, <4>2, <5>1, AncestorsCompare
        <5> QED BY <4>2, <5>2
      <4> QED BY <4>1, <4>2
    <3>6. Under(g, ClientRoot)
      <4> HIDE DEF bound
      <4> QED BY <3>2, <3>3, <3>5, UnderTransitive
    <3> QED BY <3>2, <3>6 DEF Under
  <2> QED BY <2>2, <2>3
<1> QED BY <1>2, <1>3

\* Where a folder that jdtls has can come from.
OnRecord(d) ==
    d \in expanded \/ d = GroupRoot(initial) \/ (d = initial /\ ~Under(initial, ClientRoot))
Covers(d) == \E i \in DOMAIN told : Under(d, told[i])
FoldersInv ==
    /\ told \in Seq(Dirs) /\ expanded \subseteq Dirs
    /\ FoldersAreApart
    /\ start # "off" => initial \in Initials
    /\ available =>
           /\ start \in {"drain", "done"}
           /\ start = "done" => GroupRoot(initial) \in expanded
           /\ \A i \in DOMAIN told : WasAdded(told[i]) /\ OnRecord(told[i])
           /\ \A d \in expanded \cup {initial, GroupRoot(initial)} : Covers(d)

LEMMA AnnounceKeepsFolders ==
    ASSUME FoldersInv, RegistryTyped, available, NEW m \in Dirs, GroupRoot(m) \notin expanded,
           MarkAdded({m, GroupRoot(m)}), Announce(GroupRoot(m)),
           expanded' = expanded \cup {GroupRoot(m)}, crossed' = (crossed \/ start = "drain"),
           UNCHANGED <<available, initial, start>>
    PROVE  FoldersInv'
<1> DEFINE g == GroupRoot(m)
           kept == Without(told, Covered(g))
           l == Len(kept)
           n == Len(told)
<1>1. g \in Dirs /\ Under(g, g) /\ told \in Seq(Dirs)
  BY GroupRootTyped, AncestorsTyped DEF FoldersInv, Under
<1>2. kept \in Seq(Dirs) /\ Leaves(kept, told, n, Covered(g))
  BY <1>1, WithoutProperties
<1>3. /\ told' \in Seq(Dirs) /\ DOMAIN told' = 1 .. l + 1 /\ told'[l + 1] = g /\ l \in Nat
      /\ \A i \in 1 .. l : told'[i] = kept[i]
      /\ \A i \in 1 .. l + 1 : i \in 1 .. l \/ i = l + 1
      /\ \A i \in 1 .. l : i \in 1 .. l + 1
      /\ l + 1 \in 1 .. l + 1
      /\ DOMAIN told = 1 .. n /\ n \in Nat
  <2>1. told' = Append(kept, g)
    BY DEF Announce
  <2> HIDE DEF kept, g
  <2> QED BY <1>1, <1>2, <2>1
<1> HIDE DEF kept, l, n
<1>4. ASSUME NEW i \in 1 .. l
      PROVE  \E p \in 1 .. n : told[p] = told'[i] /\ ~(Under(told[p], g) /\ told[p] # g)
  <2>1. PICK p \in 1 .. n : told[p] = kept[i] /\ told[p] \notin Covered(g)
    BY <1>2 DEF Leaves, l
  <2>2. WasAdded(told[p]) /\ told[p] \in Dirs
    BY <1>1, <1>3 DEF FoldersInv
  <2> QED BY <1>3, <2>1, <2>2 DEF Covered
<1>5. ASSUME NEW i \in 1 .. l, NEW j \in 1 .. l, i < j
      PROVE  \E p, q \in 1 .. n : p < q /\ told[p] = told'[i] /\ told[q] = told'[j]
  BY <1>2, <1>3, <1>5 DEF Leaves, l
<1>6. initial' = initial /\ GroupRoot(initial)' = GroupRoot(initial)
  OBVIOUS
<1>7. ASSUME NEW p \in 1 .. n, told[p] = g
      PROVE  g = GroupRoot(initial) /\ start = "drain"
  <2>1. OnRecord(g)
    BY <1>3, <1>7 DEF FoldersInv
  <2>2. Under(g, ClientRoot)
    BY GroupRootPlaced
  <2>3. g = GroupRoot(initial)
    BY <2>1, <2>2 DEF OnRecord
  <2> QED BY <2>3 DEF FoldersInv
<1>8. FoldersAreApart'
  <2> SUFFICES ASSUME NEW i \in 1 .. l + 1, NEW j \in 1 .. l + 1, i < j, Under(told'[i], told'[j])
               PROVE  told'[i] = told'[j] /\ told'[i] = GroupRoot(initial) /\ crossed'
    BY <1>3, <1>6 DEF FoldersAreApart, Under
  <2>1. i \in 1 .. l
    BY <1>3
  <2>2. CASE j \in 1 .. l
    <3>1. PICK p \in 1 .. n, q \in 1 .. n : p < q /\ told[p] = told'[i] /\ told[q] = told'[j]
      BY <1>5, <2>1, <2>2
    <3> QED BY <1>3, <3>1 DEF FoldersInv, FoldersAreApart
  <2>3. CASE j = l + 1
    <3>1. PICK p \in 1 .. n : told[p] = told'[i] /\ ~(Under(told[p], g) /\ told[p] # g)
      BY <1>4, <2>1
    <3>2. told[p] = g
      BY <1>3, <2>3, <3>1
    <3> QED BY <1>3, <1>7, <2>3, <3>1, <3>2
  <2> QED BY <1>3, <2>2, <2>3
<1>9. ASSUME NEW i \in 1 .. l + 1 PROVE WasAdded(told[i])' /\ OnRecord(told[i])'
  <2>1. CASE i = l + 1
    <3>1. WasAdded(g)'
      BY <1>1, AddingStates
    <3> QED BY <1>3, <2>1, <3>1 DEF OnRecord, WasAdded
  <2>2. CASE i \in 1 .. l
    <3>1. PICK p \in 1 .. n : told[p] = told'[i]
      BY <1>4, <2>2
    <3>2. WasAdded(told[p]) /\ OnRecord(told[p]) /\ told[p] \in Dirs
      BY <1>1, <1>3 DEF FoldersInv
    <3>3. \A d \in Dirs : WasAdded(d) => states'[d] # "unknown"
      BY AddingStates DEF WasAdded
    <3>4. WasAdded(told[i])'
      BY <3>1, <3>2, <3>3 DEF WasAdded
    <3> QED BY <1>6, <3>1, <3>2, <3>4 DEF OnRecord, Under
  <2> QED BY <1>3, <2>1, <2>2
<1>10. ASSUME NEW d \in expanded' \cup {initial, GroupRoot(initial)}
       PROVE  \E i \in 1 .. l + 1 : Under(d, told'[i])
  <2>1. CASE d = g
    BY <1>1, <1>3, <2>1
  <2>2. CASE d # g
    <3>0. d \in Dirs
      BY WantedInDirs, GroupRootTyped, <1>1, <2>2 DEF FoldersInv
    <3>1. PICK p \in 1 .. n : Under(d, told[p])
      BY <1>3, <2>2 DEF FoldersInv, Covers
    <3>2. CASE told[p] \in Covered(g)
      <4>1. Under(d, g)
        BY <3>0, <3>1, <3>2, UnderTransitive DEF Covered
      <4> QED BY <1>3, <4>1
    <3>3. CASE told[p] \notin Covered(g)
      <4>1. PICK i \in 1 .. l : kept[i] = told[p]
        BY <1>2, <3>3 DEF Leaves, l
      <4> QED BY <1>3, <3>1, <4>1
    <3> QED BY <3>2, <3>3
  <2> QED BY <2>1, <2>2
<1> QED BY <1>1, <1>3, <1>6, <1>8, <1>9, <1>10 DEF FoldersInv, Covers, Under

LEMMA FoldersRest ==
    ASSUME FoldersInv, UNCHANGED <<told, initial, expanded, start, crossed>>, available' => available,
           \A d \in Dirs : WasAdded(d) => states'[d] # "unknown"
    PROVE  FoldersInv'
<1>1. FoldersAreApart'
  BY DEF FoldersInv, FoldersAreApart, Under
<1>2. ASSUME available', NEW i \in DOMAIN told PROVE WasAdded(told[i])' /\ OnRecord(told[i])'
  <2>1. WasAdded(told[i]) /\ OnRecord(told[i]) /\ told[i] \in Dirs
    BY <1>2 DEF FoldersInv
  <2> QED BY <2>1 DEF WasAdded, OnRecord, Under
<1>3. ASSUME available', NEW d \in expanded \cup {initial, GroupRoot(initial)} PROVE Covers(d)'
  BY <1>3 DEF FoldersInv, Covers, Under
<1> QED BY <1>1, <1>2, <1>3 DEF FoldersInv

LEMMA StartsApart ==
    ASSUME FoldersInv, LimitInv, RegistryTyped, JdtlsStarts
    PROVE  FoldersInv'
<1>1. PICK m \in Initials :
        /\ initial' = m /\ MarkAdded({m, GroupRoot(m)})
        /\ \/ /\ GroupRoot(m) = m
              /\ told' = <<m>> /\ available' = TRUE
              /\ start' = "done" /\ expanded' = {m}
           \/ /\ GroupRoot(m) # m
              /\ \/ /\ available' = TRUE
                    /\ told' = IF Under(m, GroupRoot(m)) THEN <<GroupRoot(m)>>
                               ELSE <<m, GroupRoot(m)>>
                 \/ told' = <<m>> /\ available' = FALSE
              /\ start' = "drain" /\ UNCHANGED expanded
  BY DEF JdtlsStarts
<1> DEFINE g == GroupRoot(m)
<1>2. /\ m \in Dirs /\ g \in Dirs /\ Under(m, m) /\ Under(g, g)
      /\ Under(m, ClientRoot) => Under(m, g)
  BY WantedInDirs, GroupRootTyped, GroupRootPlaced, AncestorsTyped DEF Under
<1>3. states'[m] # "unknown" /\ states'[g] # "unknown"
  BY <1>1, <1>2, AddingStates DEF WasAdded
<1>4. expanded = {}
  BY DEF LimitInv, JdtlsStarts
<1>5. initial' = m /\ GroupRoot(initial)' = g
  BY <1>1
<1> HIDE DEF g
<1>6. ASSUME NEW d \in Dirs, told' = <<d>> PROVE FoldersAreApart'
  BY <1>6 DEF FoldersAreApart
<1>7. CASE g = m /\ told' = <<m>> /\ available' /\ start' = "done" /\ expanded' = {m}
  BY <1>2, <1>3, <1>5, <1>6, <1>7 DEF FoldersInv, OnRecord, Covers, WasAdded, Under
<1>8. CASE told' = <<m>> /\ available' = FALSE /\ start' = "drain" /\ UNCHANGED expanded
  BY <1>2, <1>4, <1>5, <1>6, <1>8 DEF FoldersInv
<1>9. ASSUME available', start' = "drain", expanded' = {},
             Under(m, g), told' = <<g>>
      PROVE  FoldersInv'
  BY <1>2, <1>3, <1>5, <1>6, <1>9 DEF FoldersInv, OnRecord, Covers, WasAdded, Under
<1>10. ASSUME available', start' = "drain", expanded' = {},
             ~Under(m, g), told' = <<m, g>>
      PROVE  FoldersInv'
  <2>1. told' \in Seq(Dirs) /\ DOMAIN told' = {1, 2} /\ told'[1] = m /\ told'[2] = g
    BY <1>2, <1>10
  <2>2. FoldersAreApart'
    BY <1>10, <2>1 DEF FoldersAreApart, Under
  <2> QED BY <1>2, <1>3, <1>5, <1>10, <2>1, <2>2 DEF FoldersInv, OnRecord, Covers, WasAdded, Under
<1>11. \/ g = m /\ told' = <<m>> /\ available' = TRUE /\ start' = "done" /\ expanded' = {m}
       \/ told' = <<m>> /\ available' = FALSE /\ start' = "drain" /\ UNCHANGED expanded
       \/ /\ available' = TRUE /\ start' = "drain" /\ UNCHANGED expanded
          /\ told' = IF Under(m, g) THEN <<g>> ELSE <<m, g>>
  BY <1>1 DEF g
<1>12. CASE /\ available' = TRUE /\ start' = "drain" /\ UNCHANGED expanded
            /\ told' = IF Under(m, g) THEN <<g>> ELSE <<m, g>>
  BY <1>4, <1>9, <1>10, <1>12
<1> QED BY <1>7, <1>8, <1>11, <1>12

LEMMA FoldersInit == GroupsInit => FoldersInv
<1> SUFFICES ASSUME GroupsInit PROVE FoldersInv OBVIOUS
<1>1. told = <<>> /\ told \in Seq(Dirs) /\ expanded = {} /\ start = "off" /\ ~available
  BY DEF GroupsInit
<1> QED BY <1>1 DEF FoldersInv, FoldersAreApart

\* A module that was added stays so for the session.
LEMMA AddedStays ==
    ASSUME RegistryInv, [GroupsNext \/ LastSession]_groupVars, NEW d \in Dirs, WasAdded(d)
    PROVE  states'[d] # "unknown" \/ NewSession
<1>1. RegistryTyped
  BY DEF RegistryInv
<1>2. ASSUME NEW ms, MarkAdded(ms) PROVE states'[d] # "unknown"
  BY <1>1, <1>2, AddingStates DEF WasAdded
<1>3. ASSUME NEW m \in Dirs, MarkReady(m) PROVE states'[d] # "unknown"
  BY <1>1, <1>3 DEF MarkReady, WasAdded, RegistryTyped
<1>4. ASSUME UNCHANGED states PROVE states'[d] # "unknown"
  BY <1>4 DEF WasAdded
<1>5. CASE JdtlsStarts
  BY <1>2, <1>5 DEF JdtlsStarts
<1>6. ASSUME NEW r \in Requests, NEW m \in Wanted, Request(r, m) PROVE states'[d] # "unknown"
  BY <1>2, <1>4, <1>6 DEF Request, AddModule, registryVars
<1>7. ASSUME NEW r \in Requests, Answered(r) PROVE states'[d] # "unknown"
  <2>1. CASE UNCHANGED states
    BY <1>4, <2>1
  <2>2. CASE MarkReady(req[r].mod)
    <3>1. req[r].mod \in Dirs
      BY <1>7, WantedInDirs DEF Answered, RegistryInv, RequestsTyped
    <3> QED BY <1>3, <2>2, <3>1
  <2> QED BY <1>7, <2>1, <2>2 DEF Answered, registryVars
<1>8. ASSUME NEW r \in Requests, AddModuleEnds(r) \/ NotAnswered(r) \/ WaitEnds(r)
      PROVE  states'[d] # "unknown"
  BY <1>4, <1>8 DEF AddModuleEnds, NotAnswered, WaitEnds, registryVars
<1>9. ASSUME NEW m \in Wanted, OnJdtlsDiagnostics(m) PROVE states'[d] # "unknown"
  BY <1>3, <1>9, WantedInDirs DEF OnJdtlsDiagnostics
<1>10. ASSUME NEW m \in Wanted,
              \/ ImportModule(m) \/ DiffEnds(m) \/ ApplyRuns(m) \/ ApplyAwaitEnds(m)
              \/ ApplySaves(m)
       PROVE  states'[d] # "unknown"
  BY <1>4, <1>10 DEF ImportModule, DiffEnds, ApplyRuns, ApplyAwaitEnds, ApplySaves, registryVars
<1>11. CASE ExpandFullEnds \/ JdtlsExits \/ WriteFails \/ LastSession \/ UNCHANGED groupVars
  BY <1>4, <1>11 DEF ExpandFullEnds, JdtlsExits, WriteFails, LastSession, groupVars, registryVars
<1> QED BY <1>5, <1>6, <1>7, <1>8, <1>9, <1>10, <1>11 DEF GroupsNext

LEMMA FoldersStep ==
    RegistryInv /\ LimitInv /\ FoldersInv /\ [GroupsNext \/ LastSession]_groupVars => FoldersInv'
<1> SUFFICES ASSUME RegistryInv, LimitInv, FoldersInv, [GroupsNext \/ LastSession]_groupVars
             PROVE  FoldersInv'
  OBVIOUS
<1>0. RegistryTyped
  BY DEF RegistryInv
<1>1. CASE JdtlsStarts
  BY <1>0, <1>1, StartsApart
<1>2. CASE NewSession
  <2>1. told' = <<>> /\ <<>> \in Seq(Dirs) /\ expanded' = {} /\ start' = "off" /\ available' = FALSE
    BY <1>2 DEF NewSession, Forgotten
  <2> QED BY <2>1 DEF FoldersInv, FoldersAreApart
<1>3. ASSUME ~NewSession, UNCHANGED <<told, initial, expanded, start, crossed>>,
             available' => available
      PROVE  FoldersInv'
  BY <1>3, AddedStays, FoldersRest
<1>4. CASE ExpandFullEnds
  <2>1. /\ expanded' = expanded \cup {GroupRoot(initial)} /\ start = "drain" /\ start' = "done"
        /\ UNCHANGED <<available, initial, told, crossed, states>>
    BY <1>4 DEF ExpandFullEnds, registryVars
  <2>2. GroupRoot(initial) \in Dirs
    BY <2>1, GroupRootTyped, WantedInDirs DEF FoldersInv
  <2>3. FoldersAreApart'
    BY <2>1 DEF FoldersInv, FoldersAreApart, Under
  <2>4. ASSUME available', NEW i \in DOMAIN told PROVE WasAdded(told[i])' /\ OnRecord(told[i])'
    BY <2>1, <2>4 DEF FoldersInv, WasAdded, OnRecord, Under
  <2>5. ASSUME available', NEW d \in expanded' \cup {initial, GroupRoot(initial)} PROVE Covers(d)'
    BY <2>1, <2>5 DEF FoldersInv, Covers, Under
  <2> QED BY <2>1, <2>2, <2>3, <2>4, <2>5 DEF FoldersInv
<1>5. ASSUME NEW r \in Requests, NEW m \in Wanted, Request(r, m) PROVE FoldersInv'
  <2>1. available /\ UNCHANGED <<initial, start>> /\ m \in Dirs
    BY <1>5, WantedInDirs DEF Request
  <2>2. CASE MayExpand(m) /\ AddModule(m)
    <3>1. /\ GroupRoot(m) \notin expanded /\ MarkAdded({m, GroupRoot(m)})
          /\ expanded' = expanded \cup {GroupRoot(m)} /\ crossed' = (crossed \/ start = "drain")
      BY <2>2 DEF MayExpand, AddModule
    <3>2. CASE Announce(GroupRoot(m)) /\ UNCHANGED available
      BY <1>0, <2>1, <3>1, <3>2, AnnounceKeepsFolders
    <3>3. CASE available' = FALSE /\ UNCHANGED told
      <4>1. GroupRoot(m) \in Dirs
        BY <2>1, GroupRootTyped
      <4>2. FoldersAreApart'
        BY <2>1, <3>1, <3>3 DEF FoldersInv, FoldersAreApart, Under
      <4> QED BY <2>1, <3>1, <3>3, <4>1, <4>2 DEF FoldersInv
    <3> QED BY <2>2, <3>2, <3>3 DEF AddModule, Sends
  <2>3. CASE UNCHANGED <<available, expanded, told, crossed, registryVars>>
    <3>1. \A d \in Dirs : WasAdded(d) => states'[d] # "unknown"
      BY <2>3 DEF registryVars, WasAdded
    <3> QED BY <2>1, <2>3, <3>1, FoldersRest
  <2> QED BY <1>5, <2>2, <2>3 DEF Request
<1>6. ASSUME ~NewSession, NEW r \in Requests,
             AddModuleEnds(r) \/ Answered(r) \/ NotAnswered(r) \/ WaitEnds(r)
      PROVE  FoldersInv'
  BY <1>3, <1>6 DEF AddModuleEnds, Answered, NotAnswered, WaitEnds, clientVars
<1>7. ASSUME ~NewSession, NEW m \in Wanted,
             ImportModule(m) \/ OnJdtlsDiagnostics(m) \/ DiffEnds(m) \/ ApplySaves(m)
      PROVE  FoldersInv'
  BY <1>3, <1>7 DEF ImportModule, OnJdtlsDiagnostics, DiffEnds, ApplySaves, clientVars
<1>8. ASSUME ~NewSession, NEW m \in Wanted, ApplyRuns(m) \/ ApplyAwaitEnds(m) PROVE FoldersInv'
  <2>1. UNCHANGED <<told, initial, expanded, start, crossed>>
    BY <1>8 DEF ApplyRuns, ApplyAwaitEnds
  <2>2. available' => available
    BY <1>8 DEF ApplyRuns, ApplyAwaitEnds, Notify, Says
  <2> QED BY <1>3, <1>8, <2>1, <2>2
<1>9. ASSUME ~NewSession, JdtlsExits \/ WriteFails \/ LastSession \/ UNCHANGED groupVars PROVE FoldersInv'
  BY <1>3, <1>9 DEF JdtlsExits, WriteFails, LastSession, groupVars, clientVars
<1> QED BY <1>1, <1>2, <1>4, <1>5, <1>6, <1>7, <1>8, <1>9 DEF GroupsNext

LEMMA FoldersHold == GroupsSpec => []FoldersInv
<1> QED BY RegistryInit, RegistryStep, LimitInit, LimitStep, FoldersInit, FoldersStep, PTL DEF GroupsSpec

\* Whatever the tree of modules, no folder that jdtls is told about covers a later one or
\* is told twice, but for the first group when a request crossed expand_full_workspace's
\* await (expand_full_workspace, add_module_if_new).
THEOREM FoldersStayApart == GroupsSpec => []FoldersAreApart
<1>1. FoldersInv => FoldersAreApart BY DEF FoldersInv
<1> QED BY <1>1, FoldersHold, PTL

\* While jdtls is there it has a folder over every group on record and over the first
\* opened module, whatever add_module_if_new removed since.
THEOREM GroupsStayCovered == GroupsSpec => []GroupsAreCovered
<1>1. FoldersInv => GroupsAreCovered BY DEF FoldersInv, Covers, GroupsAreCovered
<1> QED BY <1>1, FoldersHold, PTL

----------------------------------------------------------------------------
(* What is imported.  A folder that is removed is under the group that is   *)
(* announced in its place.                                                  *)

LEMMA AnnounceKeepsCover ==
    ASSUME told \in Seq(Dirs), NEW g \in Dirs, Announce(g), NEW d \in Dirs, Covers(d)
    PROVE  Covers(d)'
<1> DEFINE kept == Without(told, Covered(g))
           l == Len(kept)
           n == Len(told)
<1>1. kept \in Seq(Dirs) /\ Leaves(kept, told, n, Covered(g))
  BY WithoutProperties
<1>2. /\ told' \in Seq(Dirs) /\ DOMAIN told' = 1 .. l + 1 /\ told'[l + 1] = g /\ l \in Nat
      /\ \A i \in 1 .. l : told'[i] = kept[i] /\ i \in 1 .. l + 1
      /\ l + 1 \in 1 .. l + 1 /\ DOMAIN told = 1 .. n
  <2>1. told' = Append(kept, g)
    BY DEF Announce
  <2> HIDE DEF kept
  <2> QED BY <1>1, <2>1
<1> HIDE DEF kept, l, n
<1>3. PICK p \in 1 .. n : Under(d, told[p])
  BY <1>2 DEF Covers
<1>4. CASE told[p] \in Covered(g)
  <2>1. Under(d, g)
    BY <1>3, <1>4, UnderTransitive DEF Covered
  <2> QED BY <1>2, <2>1 DEF Covers, Under
<1>5. CASE told[p] \notin Covered(g)
  <2>1. PICK i \in 1 .. l : kept[i] = told[p]
    BY <1>1, <1>5 DEF Leaves, l
  <2> QED BY <1>2, <1>3, <2>1 DEF Covers, Under
<1> QED BY <1>4, <1>5

ImportedInv ==
    /\ start = "off" => imported = {} /\ ~alive
    /\ imported \subseteq Wanted /\ \A m \in imported : Covers(m)

LEMMA ImportedInit == GroupsInit => ImportedInv
BY DEF GroupsInit, ImportedInv

LEMMA ImportedStep ==
    FoldersInv /\ ImportedInv /\ [GroupsNext \/ LastSession]_groupVars => ImportedInv'
<1> SUFFICES ASSUME FoldersInv, ImportedInv, [GroupsNext \/ LastSession]_groupVars
             PROVE  ImportedInv'
  OBVIOUS
<1>1. CASE JdtlsStarts
  BY <1>1 DEF JdtlsStarts, importVars, ImportedInv
<1>2. CASE NewSession
  BY <1>2 DEF NewSession, Forgotten, ImportedInv
<1>3. ASSUME UNCHANGED <<told, imported>>, start' = start \/ start' # "off", alive' => alive
      PROVE  ImportedInv'
  BY <1>3 DEF ImportedInv, Covers, Under
<1>4. CASE ExpandFullEnds \/ JdtlsExits \/ WriteFails \/ LastSession \/ UNCHANGED groupVars
  BY <1>3, <1>4 DEF ExpandFullEnds, JdtlsExits, WriteFails, LastSession, groupVars, clientVars, importVars
<1>5. ASSUME NEW r \in Requests, NEW m \in Wanted, Request(r, m) PROVE ImportedInv'
  <2>1. UNCHANGED <<start, alive, imported>> /\ GroupRoot(m) \in Dirs
    BY <1>5, GroupRootTyped, WantedInDirs DEF Request, importVars
  <2>2. CASE told' = told
    BY <1>3, <2>1, <2>2
  <2>3. CASE Announce(GroupRoot(m))
    <3>1. \A d \in imported : Covers(d)'
      BY <2>1, <2>3, AnnounceKeepsCover, WantedInDirs DEF FoldersInv, ImportedInv
    <3> QED BY <2>1, <3>1 DEF ImportedInv
  <2> QED BY <1>5, <2>2, <2>3 DEF Request, AddModule, Sends
<1>6. ASSUME NEW r \in Requests, AddModuleEnds(r) \/ Answered(r) \/ NotAnswered(r) \/ WaitEnds(r)
      PROVE  ImportedInv'
  BY <1>3, <1>6 DEF AddModuleEnds, Answered, NotAnswered, WaitEnds, clientVars, importVars
<1>7. ASSUME NEW m \in Wanted, ImportModule(m) PROVE ImportedInv'
  <2>1. alive /\ Covers(m) /\ imported' = imported \cup {m} /\ UNCHANGED <<told, start, alive>>
    BY <1>7 DEF ImportModule, Covers, clientVars
  <2> QED BY <2>1 DEF ImportedInv, Covers, Under
<1>8. ASSUME NEW m \in Wanted,
             \/ OnJdtlsDiagnostics(m) \/ DiffEnds(m) \/ ApplyRuns(m) \/ ApplyAwaitEnds(m)
             \/ ApplySaves(m)
      PROVE  ImportedInv'
  BY <1>3, <1>8 DEF OnJdtlsDiagnostics, DiffEnds, ApplyRuns, ApplyAwaitEnds, ApplySaves, clientVars,
                    importVars
<1> QED BY <1>1, <1>2, <1>4, <1>5, <1>6, <1>7, <1>8 DEF GroupsNext

LEMMA ImportedHolds == GroupsSpec => []ImportedInv
<1> QED BY RegistryInit, RegistryStep, LimitInit, LimitStep, FoldersInit, FoldersStep, ImportedInit,
           ImportedStep, PTL DEF GroupsSpec

\* Only a full method's answer before the import makes a module READY that jdtls has not
\* imported from a folder it still has: no single-file answer (_LIGHTWEIGHT_METHODS), no
\* publish without a project (code 16), and no folder's removal does.
THEOREM ReadyModulesAreImported == GroupsSpec => []ReadyIsImported
<1>1. RegistryInv /\ ImportedInv => ReadyIsImported
  BY DEF RegistryInv, ReadyIsSeen, Seen, ImportedInv, Covers, ReadyIsImported
<1> QED BY <1>1, RegistryHolds, ImportedHolds, PTL

----------------------------------------------------------------------------
(* The types.                                                              *)

RestTyped ==
    /\ available \in BOOLEAN /\ crossed \in BOOLEAN /\ start \in {"off", "drain", "done"}
    /\ pending \subseteq running /\ running \subseteq Wanted
    /\ alive \in BOOLEAN /\ imported \subseteq Wanted /\ early \subseteq Wanted
    /\ unannounced \subseteq Wanted /\ unsaid \subseteq Wanted

LEMMA RestInit == GroupsInit => RestTyped
BY DEF GroupsInit, RestTyped

LEMMA RestStep ==
    RegistryInv /\ TasksTyped /\ RestTyped /\ [GroupsNext \/ LastSession]_groupVars => RestTyped'
<1> SUFFICES ASSUME RegistryInv, TasksTyped, RestTyped, [GroupsNext \/ LastSession]_groupVars
             PROVE  RestTyped'
  OBVIOUS
<1> DEFINE Client == /\ available' \in BOOLEAN /\ alive' \in BOOLEAN /\ crossed' \in BOOLEAN
                     /\ start' \in {"off", "drain", "done"}
           Tasks == pending' \subseteq running' /\ running' \subseteq Wanted
           Sets == /\ imported' \subseteq Wanted /\ early' \subseteq Wanted
                   /\ unannounced' \subseteq Wanted /\ unsaid' \subseteq Wanted
<1> SUFFICES Client /\ Tasks /\ Sets
  BY DEF RestTyped
<1>1. ASSUME UNCHANGED <<available, alive, crossed, start>> PROVE Client
  BY <1>1 DEF RestTyped
<1>2. ASSUME UNCHANGED <<pending, running>> PROVE Tasks
  BY <1>2 DEF RestTyped
<1>3. ASSUME UNCHANGED <<imported, early, unannounced, unsaid>> PROVE Sets
  BY <1>3 DEF RestTyped
<1>4. CASE JdtlsStarts
  <2>1. Client
    BY <1>4 DEF JdtlsStarts, RestTyped
  <2> QED BY <1>2, <1>3, <1>4, <2>1 DEF JdtlsStarts, diffVars, importVars, diskVars
<1>5. CASE NewSession
  BY <1>5 DEF NewSession, Forgotten, RestTyped
<1>6. ASSUME NEW r \in Requests, NEW m \in Wanted, Request(r, m) PROVE Client /\ Tasks /\ Sets
  <2>1. UNCHANGED <<pending, running, imported, early, unannounced, unsaid, start, alive>>
    BY <1>6 DEF Request, diffVars, importVars, diskVars
  <2>2. available' = available \/ available' = FALSE
    BY <1>6 DEF Request, AddModule, Sends
  <2>3. crossed' = crossed \/ crossed' = (crossed \/ start = "drain")
    BY <1>6 DEF Request, AddModule
  <2>4. Client
    BY <2>1, <2>2, <2>3 DEF RestTyped
  <2> QED BY <1>2, <1>3, <2>1, <2>4
<1>7. ASSUME NEW r \in Requests, AddModuleEnds(r) PROVE Client /\ Tasks /\ Sets
  <2>1. req[r].mod \in Wanted
    BY <1>7 DEF AddModuleEnds, RegistryInv, RequestsTyped
  <2>2. Tasks
    BY <1>7, <2>1 DEF AddModuleEnds, RestTyped
  <2> QED BY <1>1, <1>3, <1>7, <2>2 DEF AddModuleEnds, clientVars, importVars, diskVars
<1>8. ASSUME NEW r \in Requests, Answered(r) PROVE Client /\ Tasks /\ Sets
  <2>1. req[r].mod \in Wanted
    BY <1>8 DEF Answered, RegistryInv, RequestsTyped
  <2>2. Sets
    BY <1>8, <2>1 DEF Answered, RestTyped, diskVars
  <2> QED BY <1>1, <1>2, <1>8, <2>2 DEF Answered, clientVars, diffVars
<1>9. ASSUME NEW r \in Requests, NotAnswered(r) \/ WaitEnds(r) PROVE Client /\ Tasks /\ Sets
  BY <1>1, <1>2, <1>3, <1>9 DEF NotAnswered, WaitEnds, clientVars, diffVars, importVars, diskVars
<1>10. ASSUME NEW m \in Wanted, ImportModule(m) PROVE Client /\ Tasks /\ Sets
  <2>1. Sets
    BY <1>10 DEF ImportModule, RestTyped
  <2> QED BY <1>1, <1>2, <1>10, <2>1 DEF ImportModule, clientVars, diffVars
<1>11. ASSUME NEW m \in Wanted, OnJdtlsDiagnostics(m) PROVE Client /\ Tasks /\ Sets
  BY <1>1, <1>2, <1>3, <1>11 DEF OnJdtlsDiagnostics, clientVars, importVars, diskVars
<1>12. ASSUME NEW m \in Wanted, DiffEnds(m) PROVE Client /\ Tasks /\ Sets
  <2>1. Tasks
    BY <1>12 DEF DiffEnds, RestTyped
  <2> QED BY <1>1, <1>3, <1>12, <2>1 DEF DiffEnds, clientVars, importVars, diskVars
<1>13. ASSUME NEW m \in Wanted, Notify(m) PROVE unsaid' = unsaid /\ (available' = available \/ available' = FALSE)
  BY <1>13 DEF Notify, Says
<1>14. ASSUME NEW m \in Wanted, ApplyRuns(m) \/ ApplyAwaitEnds(m) PROVE Client /\ Tasks /\ Sets
  <2>1. available' = available \/ available' = FALSE
    BY <1>13, <1>14 DEF ApplyRuns, ApplyAwaitEnds
  <2>2. UNCHANGED <<crossed, start, alive, running, imported, early>> /\ pending' \subseteq pending
    BY <1>14 DEF ApplyRuns, ApplyAwaitEnds, importVars
  <2>3. unsaid' = unsaid /\ (unannounced' = unannounced \/ unannounced' = unannounced \cup {m})
    BY <1>13, <1>14 DEF ApplyRuns, ApplyAwaitEnds
  <2> QED BY <2>1, <2>2, <2>3 DEF RestTyped
<1>15. ASSUME NEW m \in Wanted, ApplySaves(m) PROVE Client /\ Tasks /\ Sets
  <2>1. UNCHANGED <<available, alive, crossed, start, pending, running, imported, early, unannounced>>
    BY <1>15 DEF ApplySaves, clientVars, importVars
  <2>2. \/ unsaid' = unsaid
        \/ unsaid' = CASE apply[m].said = "yes" -> unsaid \ {m}
                       [] apply[m].said = "no" -> unsaid \cup {m}
                       [] apply[m].said = "same" -> unsaid
    BY <1>15 DEF ApplySaves
  <2>3. apply[m].said \in {"yes", "no", "same"}
    BY WantedInDirs DEF TasksTyped
  <2>4. unsaid' \subseteq unsaid \cup {m}
    BY <2>2, <2>3
  <2> QED BY <2>1, <2>4 DEF RestTyped
<1>16. CASE ExpandFullEnds \/ JdtlsExits \/ WriteFails \/ LastSession \/ UNCHANGED groupVars
  <2>1. Client
    BY <1>16 DEF ExpandFullEnds, JdtlsExits, WriteFails, LastSession, groupVars, clientVars, RestTyped
  <2> QED BY <1>2, <1>3, <1>16, <2>1
        DEF ExpandFullEnds, JdtlsExits, WriteFails, LastSession, groupVars, diffVars, importVars, diskVars
<1> QED BY <1>4, <1>5, <1>6, <1>7, <1>8, <1>9, <1>10, <1>11, <1>12, <1>14, <1>15, <1>16 DEF GroupsNext

\* Every variable keeps its type: only requested modules are imported and diffed, and no
\* version is beyond the session (the tasks and the tables of the proxy).
THEOREM GroupsTypeCorrect == GroupsSpec => []GroupsTypeOK
<1>1. RegistryInv /\ TasksInv /\ FoldersInv /\ RestTyped => GroupsTypeOK
  BY DEF RegistryInv, RegistryTyped, RequestsTyped, Places, TasksInv, TasksTyped, Stamps, FoldersInv,
         RestTyped, GroupsTypeOK
<1>2. TasksInv => TasksTyped
  BY DEF TasksInv
<1> QED BY <1>1, <1>2, RestInit, RestStep, RegistryHolds, TasksHold, FoldersHold, PTL DEF GroupsSpec

=============================================================================
