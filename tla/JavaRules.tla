------------------------------ MODULE JavaRules ------------------------------
\* The analyzers: which rule is reported where in a method. A report is a rule, the place
\* of a statement and the number of a subterm of the statement's own expression (0: the
\* statement itself); the class's annotations have the place <<>>.
EXTENDS JavaText

CONSTANTS Off    \* the rules the configuration turns off

\* severity_from_config: a rule set to "off" has no severity and is not checked.
Enabled(rule) == rule \notin Off

AllPlaces(t) == Places(t.body)
At(t, p) == StmtAt(t.body, p)
\* Every subterm of every statement, with its place and number.
Sites(t) == UNION {LET terms == Subterms(At(t, p).e) IN
                   {[at |-> p, nth |-> i, e |-> terms[i]] : i \in DOMAIN terms} : p \in AllPlaces(t)}
Report(rule, sites) == {[rule |-> rule, at |-> x.at, nth |-> x.nth] : x \in sites}
Whole(ps) == {[at |-> p, nth |-> 0] : p \in ps}

\* A variable initialised from an unmodifiable factory, and a mutating call on it: both
\* are looked up by name, in the whole method.
MutationMethods == {"add", "addAll", "remove", "removeAll", "set", "put", "putAll", "clear",
                    "sort", "replaceAll", "retainAll"}
FrozenQualifiers == {"List", "Set", "Map", "ImmutableList", "ImmutableSet", "ImmutableMap",
                     "ImmutableSortedSet", "ImmutableSortedMap", "ImmutableMultiset"}
CollectionsMethods == {"unmodifiableList", "unmodifiableSet", "unmodifiableMap", "unmodifiableSortedSet",
                       "unmodifiableSortedMap", "emptyList", "emptySet", "emptyMap", "singletonList",
                       "singleton", "singletonMap"}
FrozenFactory(o, m) == \/ o \in FrozenQualifiers /\ m \in {"of", "copyOf"}
                       \/ o = "Collections" /\ m \in CollectionsMethods
IsFrozenInit(e) == e.k = "call" /\ e.obj.k = "id" /\ FrozenFactory(e.obj.v, e.name)
FrozenVars(t) == {At(t, p).v : p \in {q \in AllPlaces(t) : At(t, q).k = "decl" /\ IsFrozenInit(At(t, q).e)}}
CheckFrozenMutation(t, sites) ==
    LET vars == FrozenVars(t) IN
    {x \in sites : x.e.k = "call" /\ x.e.name \in MutationMethods /\ x.e.obj.k = "id" /\ x.e.obj.v \in vars}

\* `if (x != null) { return ..x..; }`; an if inside the else of an if on the same variable
\* is left to that one.
InnerOfChain(t, p, x) ==
    /\ Len(p) > 2 /\ p[Len(p) - 1] = 2
    /\ LET outer == At(t, Up(p)) IN
       outer.k = "if" /\ outer.parts[2].braces /\ NullCheckVar(outer.e) = x
CheckNullCheck(t) == Whole({p \in AllPlaces(t) :
    LET s == At(t, p)
        x == NullCheckVar(s.e)
    IN  /\ s.k = "if" /\ x # ""
        /\ BlockReturns(s.parts[1])
        /\ x \in Identifiers(s.parts[1].body[1].e)
        /\ ~InnerOfChain(t, p, x)})

\* Option.of(..)...map(x -> x.get(key)).filter(..): map keeps a null that the next call meets.
Followers == {"filter", "map", "flatMap", "forEach", "peek", "exists", "forAll"}
RECURSIVE RootedInOption(_)
RootedInOption(e) == e.k = "call" /\ (\/ e.obj = Id("Option") /\ e.name \in {"of", "ofOptional"}
                                      \/ RootedInOption(e.obj))
\* Integer arguments are indices.
NullableBody(e) == e.k = "call" /\ e.name = "get" /\ e.obj.k # "no" /\ \E i \in DOMAIN e.args : e.args[i].k # "lit"
IsNullableMap(e) ==
    /\ e.k = "call" /\ e.name \in Followers
    /\ LET m == e.obj IN
       /\ m.k = "call" /\ m.name = "map"
       /\ RootedInOption(m.obj)
       /\ Len(m.args) = 1 /\ m.args[1].k = "lambda" /\ NullableBody(m.args[1].e)
CheckOptionMapNullable(sites) == {x \in sites : IsNullableMap(x.e)}

\* A method that mixes statements with an effect (a log call, a throw) and others is
\* reported at the first that has one.
Receivers == {"System", "logger", "log", "LOG"}
EffectMethods == {"println", "print", "info", "warn", "error", "debug", "save", "send", "update"}
IsSideEffect(e) ==
    e.k = "call" /\ (\/ e.obj.k = "field" /\ e.obj.obj.k = "id" /\ e.obj.obj.v \in Receivers
                     \/ e.name \in EffectMethods /\ e.obj.k = "id" /\ e.obj.v \in Receivers
                     \/ e.name \in EffectMethods /\ e.obj.k = "no")
CheckImpureMethod(t, sites) ==
    LET impure == {x.at[1] : x \in {y \in sites : IsSideEffect(y.e) \/ At(t, y.at).k = "throw"}} IN
    IF Len(t.body) < 2 \/ impure = {} \/ impure = DOMAIN t.body THEN {}
    ELSE Whole({<<CHOOSE i \in impure : \A j \in impure : i <= j>>})

\* @Bean methods may throw and catch.
InBeanMethod(t) == t.bean
CheckThrow(t) == Whole({p \in AllPlaces(t) : At(t, p).k = "throw" /\ ~InBeanMethod(t)})
CheckCatchRethrow(t) == Whole({p \in AllPlaces(t) : ~InBeanMethod(t) /\ At(t, p).k = "try" /\
    LET handler == At(t, p).parts[2].body IN Len(handler) = 1 /\ handler[1].k = "throw"})
\* _matches_try_catch_monadic_shape: one catch of one type, no finally, no resources; the
\* body is a return, the handler expression statements and a return.
TryShape(s) ==
    LET handler == s.parts[2].body IN
    /\ s.k = "try" /\ s.shape = "one"
    /\ Returns(s.parts[1].body)
    /\ handler # <<>> /\ Returns(<<Last(handler)>>)
    /\ \A i \in 1 .. Len(handler) - 1 : handler[i].k = "do"
CheckTryCatch(t) == Whole({p \in AllPlaces(t) : ~InBeanMethod(t) /\ At(t, p).k = "try" /\ TryShape(At(t, p))})

CheckMutableDto(t) == {[at |-> <<>>, nth |-> a] : a \in {i \in 1 .. 2 : <<"Data", "Setter">>[i] \in t.annotations}}
CheckLoops(t) == Whole({p \in AllPlaces(t) : At(t, p).k = "loop"})
\* The first isDefined-like call of the condition decides; get() may be anywhere in the body.
CheckMethods == {"isDefined", "isEmpty", "isPresent", "isNone"}
FirstCheck(c) == SelectSeq(Calls(c), LAMBDA x : x.name \in CheckMethods /\ x.obj.k # "no")
CheckOptionUnwrap(t) == Whole({p \in AllPlaces(t) :
    LET s == At(t, p)
        checks == FirstCheck(s.e)
    IN  /\ s.k = "if" /\ checks # <<>>
        /\ \E q \in Places(s.parts[1].body) :
              \E e \in ToSet(Subterms(StmtAt(s.parts[1].body, q).e)) :
                 e.k = "call" /\ e.name = "get" /\ e.obj = Head(checks).obj})
CheckMutableVariables(sites) == {x \in sites : x.e.k = "assign"}

\* null as an argument (once per call), as the result, as an initial value.
NullArgs(e) == e.k = "call" /\ \E i \in DOMAIN e.args : e.args[i] = NullLit
CheckNullArgs(sites) == {x \in sites : NullArgs(x.e)}
CheckNullOf(t, sites, kind) == {x \in sites : x.nth = 1 /\ x.e = NullLit /\ At(t, x.at).k = kind}

\* Every analyzer.
AllReports(t) ==
    LET sites == Sites(t) IN
    Report("frozen-mutation", CheckFrozenMutation(t, sites))
        \cup Report("null-check-to-monadic", CheckNullCheck(t))
        \cup Report("option-map-nullable", CheckOptionMapNullable(sites))
        \cup Report("impure-method", CheckImpureMethod(t, sites))
        \cup Report("throw-statement", CheckThrow(t))
        \cup Report("catch-rethrow", CheckCatchRethrow(t))
        \cup Report("try-catch-to-monadic", CheckTryCatch(t))
        \cup Report("mutable-dto", CheckMutableDto(t))
        \cup Report("imperative-loop", CheckLoops(t))
        \cup Report("imperative-option-unwrap", CheckOptionUnwrap(t))
        \cup Report("mutable-variable", CheckMutableVariables(sites))
        \cup Report("null-literal-arg", CheckNullArgs(sites))
        \cup Report("null-return", CheckNullOf(t, sites, "return"))
        \cup Report("null-assignment", CheckNullOf(t, sites, "decl"))

\* @SuppressWarnings of an enclosing declaration: one rule, or the tool as a whole.
IsSuppressed(t, d) == t.suppressed \cap {d.rule, "java-functional-lsp"} # {}
\* _analyze_document.
Diagnostics(t) == {d \in AllReports(t) : Enabled(d.rule) /\ ~IsSuppressed(t, d)}
=============================================================================
