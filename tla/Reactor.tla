------------------------------- MODULE Reactor -------------------------------
\* The Maven reactor index (reactor.py): a bounded breadth-first walk from the root pom
\* through <modules>, the map from coordinates to module directories it leaves, and the
\* dependency edges read from it. The poms are chosen in the initial state.
EXTENDS Naturals, Sequences, FiniteSets, SequencesExt, Filters

CONSTANTS
    NoGA,              \* a pom without usable coordinates, or without a parent
    Placeholder,       \* a <module> entry with ${..}
    PomFiles,          \* the pom files of the checkout
    RootPom,
    DirOf,             \* pom file -> its resolved directory
    Outside,           \* the directories that are not under the root
    Symlinks,          \* the pom files that are symbolic links
    Checkouts,         \* the pom contents to explore: functions from PomFiles
    MaxPoms,           \* MAX_POMS
    MaxParentDepth     \* MAX_PARENT_DEPTH

ASSUME ReactorAssumption ==
    /\ RootPom \in PomFiles /\ MaxPoms \in Nat /\ MaxParentDepth \in Nat
    /\ DOMAIN DirOf = PomFiles /\ Placeholder \notin PomFiles /\ IsFiniteSet(PomFiles)
\* A path that is no usable pom is one that is not valid. What a pom lists is finite.
ASSUME CheckoutsTyped ==
    \A c \in Checkouts : \A p \in PomFiles :
        /\ c[p].valid \in BOOLEAN /\ c[p].modules \in Seq(PomFiles \cup {Placeholder})
        /\ c[p].deps \in Seq(ToSet(c[p].deps))

MainScopes == {"compile", "provided", "runtime", "system"}

VARIABLES
    poms,       \* pom file -> [valid, ga, modules, parent, deps]
    queue,      \* pom files still to visit
    seen,       \* directories visited
    read,       \* poms_read
    found,      \* coordinates -> directories declaring them (the pairs)
    aggregators,\* coordinates of poms with modules
    declared,   \* directory -> [parent, deps], for those whose pom was parsed
    fanIn,      \* coordinates -> number of directories that need them to compile
    truncated,
    located,    \* index.poms: the coordinates one directory declares, with it (pairs)
    modules,    \* index.modules: those that no pom with modules has
    ambiguous,
    done        \* the index is complete: _resolve_found has run
indexVars == <<queue, seen, read, found, aggregators, declared, fanIn, truncated,
               located, modules, ambiguous, done>>
resolvedVars == <<located, modules, ambiguous, done>>
reactorVars == <<poms, indexVars>>

GAs == {poms[p].ga : p \in PomFiles} \cup {poms[p].parent : p \in PomFiles}
         \cup UNION {{d.ga : d \in ToSet(poms[p].deps)} : p \in PomFiles}
Count(ga) == IF ga \in DOMAIN fanIn THEN fanIn[ga] ELSE 0

ReactorStarts(checkouts) ==
    /\ poms \in checkouts
    /\ queue = <<RootPom>>
    /\ seen = {} /\ read = 0 /\ found = {} /\ aggregators = {}
    /\ declared = << >> /\ fanIn = << >>
    /\ truncated = FALSE /\ done = FALSE
    /\ located = {} /\ modules = {} /\ ambiguous = {}
ReactorInit == ReactorStarts(Checkouts)

\* The pom count or the time budget is used up: either may stop the walk at any pom.
StopEarly ==
    /\ ~done /\ ~truncated /\ queue # <<>>
    /\ truncated' = TRUE
    /\ UNCHANGED <<poms, queue, seen, read, found, aggregators, declared, fanIn, resolvedVars>>

\* _contained_dir: a symlink and what resolves outside the root are left out; a directory
\* is visited once, under whatever file name it comes first.
Admitted(p) == p \notin Symlinks /\ DirOf[p] \notin Outside /\ DirOf[p] \notin seen
Walking == ~done /\ ~truncated /\ queue # <<>> /\ read < MaxPoms
SkipPom ==
    /\ Walking /\ ~Admitted(Head(queue))
    /\ queue' = Tail(queue)
    /\ UNCHANGED <<poms, seen, read, found, aggregators, declared, fanIn, truncated, resolvedVars>>

\* Main-scope dependencies count once per directory, however often they are listed.
Needed(pom) == {d.ga : d \in {x \in ToSet(pom.deps) : x.scope \in MainScopes}}
ModuleEntries(pom) == Without(pom.modules, {Placeholder})
ReadPom ==
    /\ Walking /\ Admitted(Head(queue))
    /\ LET p == Head(queue)
           pom == poms[p]
           dir == DirOf[p]
       IN  /\ seen' = seen \cup {dir}
           /\ read' = read + 1
           /\ IF pom.valid
              THEN /\ found' = found \cup (IF pom.ga = NoGA THEN {} ELSE {<<pom.ga, dir>>})
                   /\ aggregators' = aggregators \cup
                          (IF pom.ga = NoGA \/ pom.modules = <<>> THEN {} ELSE {pom.ga})
                   /\ declared' = [d \in DOMAIN declared \cup {dir} |->
                          IF d = dir THEN [parent |-> pom.parent, deps |-> pom.deps] ELSE declared[d]]
                   /\ fanIn' = [g \in DOMAIN fanIn \cup Needed(pom) |->
                          Count(g) + (IF g \in Needed(pom) THEN 1 ELSE 0)]
                   /\ queue' = Tail(queue) \o ModuleEntries(pom)
              ELSE /\ queue' = Tail(queue)
                   /\ UNCHANGED <<found, aggregators, declared, fanIn>>
    /\ UNCHANGED <<poms, truncated, resolvedVars>>

DirsOf(ga) == {x[2] : x \in {y \in found : y[1] = ga}}
\* Mutant: any directory that declares it will do.
AnyDirectory(ga) == DirsOf(ga) # {}
Unique(ga) == Cardinality(DirsOf(ga)) = 1
ResolveFound ==
    /\ ~done /\ (truncated \/ queue = <<>>)
    /\ done' = TRUE
    /\ located' = {x \in found : Unique(x[1])}
    /\ modules' = {x \in located' : x[1] \notin aggregators}
    /\ ambiguous' = {x[1] : x \in found} \ ({x[1] : x \in located'} \cup aggregators)
    /\ UNCHANGED <<poms, queue, seen, read, found, aggregators, declared, fanIn, truncated>>

ReactorNext == StopEarly \/ SkipPom \/ ReadPom \/ ResolveFound
ReactorSpec == ReactorInit /\ [][ReactorNext]_reactorVars /\ WF_reactorVars(ReactorNext)

----------------------------------------------------------------------------
\* What the index answers.
IsModule(ga) == \E x \in modules : x[1] = ga
IsHub(ga, threshold) == Count(ga) >= threshold

\* ReactorIndex.edges: the directory and its in-repo parents, nearest first, up to the
\* depth bound or a directory met before; each coordinate and kind of jar once.
\* Mutant: parents are looked for among the importable modules.
ImportableParent(dir) ==
    IF dir \notin DOMAIN declared THEN {} ELSE {x[2] : x \in {y \in modules : y[1] = declared[dir].parent}}
InRepoParent(dir) ==
    IF dir \notin DOMAIN declared THEN {} ELSE {x[2] : x \in {y \in located : y[1] = declared[dir].parent}}
OneUp(below) ==
    LET parent == InRepoParent(Last(below)) IN
    IF parent \subseteq ToSet(below) THEN below ELSE Append(below, CHOOSE x \in parent : TRUE)
Chain(dir) ==
    LET up[n \in 0 .. MaxParentDepth] == IF n = 0 THEN <<dir>> ELSE OneUp(up[n - 1])
    IN  up[MaxParentDepth]
DepsOf(dir) == IF dir \in DOMAIN declared THEN declared[dir].deps ELSE <<>>
Listed(chain) == FoldLeft(LAMBDA deps, dir : deps \o DepsOf(dir), <<>>, chain)
InScope(dep, test) == dep.scope \in MainScopes \/ (test /\ dep.scope = "test")
SameDep(a, b) == a.ga = b.ga /\ a.testJar = b.testJar
AddEdge(edges, d, test) ==
    IF InScope(d, test) /\ IsModule(d.ga) /\ \A i \in DOMAIN edges : ~SameDep(edges[i], d)
    THEN Append(edges, d) ELSE edges
Picked(deps, test) == FoldLeft(LAMBDA edges, d : AddEdge(edges, d, test), <<>>, deps)
Edges(dir, test) == Picked(Listed(Chain(dir)), test)

----------------------------------------------------------------------------
\* The poms reachable through <modules> inside the root, whatever the order of the walk.
Readable(p) == p \notin Symlinks /\ DirOf[p] \notin Outside
ModulesOf(c, ps) == UNION {ToSet(ModuleEntries(c[p])) : p \in {q \in ps : c[q].valid}}
ReachableIn(c) ==
    LET r[n \in 0 .. Cardinality(PomFiles)] ==
            IF n = 0 THEN {p \in {RootPom} : Readable(p)}
            ELSE r[n - 1] \cup {p \in ModulesOf(c, r[n - 1]) : Readable(p)}
    IN  r[Cardinality(PomFiles)]
Reachable == ReachableIn(poms)
Declaring(ga) == {p \in Reachable : poms[p].valid /\ poms[p].ga = ga}
\* Two pom files of one directory: only the one met first is read, so the walk's order decides.
OnePomPerDirectory == \A p, q \in Reachable : DirOf[p] = DirOf[q] => p = q

\* A coordinate resolves to a directory only if a reachable pom of that directory declares
\* it and has no modules (also when the walk was cut short); and when it was not, exactly
\* the coordinates that one directory declares and no aggregator has are resolved.
IndexIsExact == done =>
    /\ \A x \in modules : \E p \in Declaring(x[1]) : DirOf[p] = x[2] /\ poms[p].modules = <<>>
    /\ ~truncated /\ OnePomPerDirectory =>
           \A ga \in GAs \ {NoGA} :
              IsModule(ga) <=> /\ Cardinality(Declaring(ga)) = 1
                               /\ \A p \in Declaring(ga) : poms[p].modules = <<>>

\* The edges of a directory are the importable dependencies it or an in-repo ancestor
\* declares in scope, no further up than the bound, none twice; a cycle of parents ends.
Above(dirs) == {e \in DOMAIN declared :
                    \E d \in dirs \cap DOMAIN declared : DirsOf(declared[d].parent) = {e}}
ParentsOf(dir) ==
    LET a[n \in 0 .. MaxParentDepth] == IF n = 0 THEN {dir} ELSE a[n - 1] \cup Above(a[n - 1])
    IN  a[MaxParentDepth]
Keys(deps) == {<<d.ga, d.testJar>> : d \in deps}
EdgesAreExact == done =>
    \A dir \in DOMAIN declared, test \in BOOLEAN :
        LET edges == Edges(dir, test)
            all == UNION {ToSet(declared[d].deps) : d \in ParentsOf(dir)}
        IN  /\ Keys(ToSet(edges)) = Keys({d \in all : InScope(d, test) /\ IsModule(d.ga)})
            /\ Cardinality(Keys(ToSet(edges))) = Len(edges)
=============================================================================
