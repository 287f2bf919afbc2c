------------------------------ MODULE MCFixes ------------------------------
\* The texts, the user's edits and the environments that the quick fixes are explored on.
EXTENDS QuickFixes

V == Id("v")
IsSet == Bin("!=", V, NullLit)
Find == Call(NoExpr, "find", <<>>)
Load == Call(NoExpr, "load", <<>>)
NameOf(e) == Call(e, "name", <<>>)
LogOf(e) == Call(Id("log"), "warn", <<e>>)
Plainly(b) == Text({}, FALSE, {}, b)

\* null checks: every shape of the check, the returned expression, the else and the next statement
NullChecks ==
    {Plainly(<<If(c, <<Block(<<Return(e)>>)>> \o o)>> \o n) :
        c \in {IsSet, Bin("!=", NullLit, V), Bin("==", V, NullLit)},
        e \in {V, NameOf(V), FieldOf(V, "v"), Call(V, "get", <<Id("w")>>), Id("w"),
               Bin("+", Str(V), V), Bin("+", V, Id("it"))},
        o \in {<<>>} \cup {<<Block(<<Return(x)>>)>> : x \in {NullLit, Lit, FieldOf(Id("w"), "f"), Load}}
                     \cup {<<Bare(Return(Id("w")))>>},
        n \in {<<>>, <<Return(NullLit)>>, <<Return(Load)>>}}
ChainLevel(e, more) == Block(<<Do(Assign("v", e)), If(IsSet, <<Block(<<Return(V)>>)>> \o more)>>)
Chains ==
    {Plainly(<<Decl("T", "v", Find), If(IsSet, <<Block(<<Return(V)>>), ChainLevel(e, more)>>)>> \o n) :
        e \in {Load, NameOf(V)},
        more \in {<<>>, <<ChainLevel(NameOf(Id("w")), <<>>)>>, <<Block(<<Return(Lit)>>)>>},
        n \in {<<>>} \cup {<<Return(x)>> : x \in {NullLit, Lit, NameOf(V), FieldOf(Id("w"), "f"), Load}}}
Tries ==
    {Text({}, bean, {}, <<Try(sh, ty, "e", <<Return(e)>>, prior \o <<Return(d)>>)>>) :
        bean \in BOOLEAN, sh \in {"one", "finally"}, ty \in {"E", "Exception"},
        e \in {NameOf(V)},
        prior \in {<<>>, <<Do(LogOf(Id("e")))>>, <<Do(Load)>>, <<Do(LogOf(Lit)), Do(LogOf(Lit))>>},
        d \in {Lit, NullLit, Id("w"), FieldOf(Id("w"), "f"), Load, Call(NoExpr, "handle", <<Id("e")>>)}}
Rethrows == {Plainly(<<Try("one", "E", "e", <<Return(Load)>>, <<Throw(Id("e"))>>)>>)}
Check(m) == Call(Id("opt"), m, <<>>)
Unwraps ==
    {Plainly(<<If(c, <<Block(<<Return(e)>>)>> \o o)>>) :
        c \in {Check("isDefined"), Check("isEmpty"), Bin("&&", Check("isDefined"), IsSet)},
        e \in {Check("get"), NameOf(Check("get")), Load, Bin("+", Str(Check("get")), Check("get")),
               Bin("+", Check("get"), Id("it"))},
        o \in {<<>>} \cup {<<Block(<<Return(x)>>)>> : x \in {NullLit, Lit, FieldOf(Id("w"), "f"), Load}}}
Optionals ==
    LET maybe(m) == Call(Id("maybe"), m, <<>>)
    IN  {Plainly(<<If(maybe("isPresent"), <<Block(<<Return(maybe("get"))>>), Block(<<Return(Lit)>>)>>)>>)}
Mutated(m) == Call(Id("xs"), m, <<Id("w")>>)
Frozen ==
    {Plainly(<<Decl("List", "xs", i)>> \o u \o <<Return(Id("xs"))>>) :
        i \in {Call(Id("List"), "of", <<V>>), Call(Id("Collections"), "emptyList", <<>>), Load},
        u \in {<<Do(Mutated(m))>> : m \in {"add", "put", "set", "size"}}
              \cup {<<Do(Mutated("add")), Do(Mutated("remove"))>>, <<Return(Mutated("add"))>>,
                    <<Do(LogOf(V)), If(IsSet, <<Block(<<Do(Mutated("add"))>>)>>)>>}}
\* Other factories, other declared types, and a name that is declared twice.
OfV(o) == Call(Id(o), "of", <<V>>)
Factories ==
    {Plainly(<<Decl(x[1], "xs", x[2]), If(Bin("!=", Id("w"), NullLit), <<Block(<<Do(Mutated("add"))>>)>>), Return(Id("xs"))>>) :
        x \in {<<"List", Call(Id("List"), "copyOf", <<Id("ys")>>)>>,
               <<"List", Call(Id("Collections"), "unmodifiableList", <<Id("ys")>>)>>,
               <<"List", Call(Id("Collections"), "singletonList", <<V>>)>>,
               <<"ImmutableList", OfV("ImmutableList")>>,
               <<"Set", OfV("Set")>>, <<"var", OfV("Set")>>, <<"ImmutableSet", OfV("ImmutableSet")>>,
               <<"Map", Call(Id("Map"), "of", <<V, Id("w")>>)>>}}
Twice ==
    {Plainly(<<If(IsSet, <<Block(<<Decl("List", "xs", i), u>>)>>),
               Decl("List", "xs", OfV("List")), Do(Mutated("remove")), Return(Id("xs"))>>) :
        i \in {OfV("List"), Load}, u \in {Do(Mutated("add")), Return(Id("xs"))}}
Dtos == {Text(as, FALSE, sup, <<Return(NullLit)>>) :
            as \in SUBSET {"Data", "Setter", "ConfigurationProperties"}, sup \in {{}, {"mutable-dto"}, {"java-functional-lsp"}}}
Nested ==
    LET check == <<If(IsSet, <<Block(<<Return(NameOf(V))>>)>>), Return(NullLit)>>
        unwrap == If(Check("isDefined"), <<Block(<<Return(Check("get"))>>), Block(<<Return(V)>>)>>)
    IN  {Plainly(<<Try("one", "E", "e", check, <<Return(Lit)>>)>>),
         Plainly(<<If(IsSet, <<Block(<<unwrap>>), Block(<<Return(Lit)>>)>>)>>),
         Plainly(<<Loop(Load, Block(check)), Do(LogOf(NullLit))>> \o check),
         Plainly(<<Do(Call(Call(Call(Id("Option"), "of", <<V>>), "map",
                    <<Lambda("m", Call(Id("m"), "get", <<Str(NoExpr)>>))>>), "filter", <<Id("w")>>)), Decl("T", "u", NullLit)>>)}
SourceTexts == NullChecks \cup Chains \cup Tries \cup Rethrows \cup Unwraps \cup Optionals \cup Frozen
                   \cup Factories \cup Twice \cup Dtos \cup Nested

\* The user inserts a line in front, deletes one, types over the first statement,
\* is in the middle of a line, or wraps the method in an if or a try.
UserEdits(t) ==
    {[t EXCEPT !.body = b] : b \in
        {<<Do(LogOf(Lit))>> \o t.body, <<Do(NameOf(V))>> \o Tail(t.body), Tail(t.body) \o <<Return(NullLit)>>,
         <<Do(Error)>> \o t.body,
         <<If(IsSet, <<Block(t.body), Block(<<Return(Lit)>>)>>)>>,
         <<Try("one", "E", "e", t.body, <<Return(Lit)>>)>>}}

Names(t) == UNION {Identifiers(At(t, p).e) : p \in AllPlaces(t)}
Declared(t) == {At(t, p).v : p \in {q \in AllPlaces(t) : At(t, q).k = "decl"}}
VarValues(x) ==
    CASE x = "opt" -> {Nothing, Some(Obj("o"))}
      [] x = "maybe" -> {Optional(FALSE), Optional(TRUE)}
      [] x = "ys" -> {Nil, JavaList(<<Obj("y")>>)}
      [] x = "it" -> {Obj("it")}
      [] OTHER -> {Nil, Obj(x)}
CallEnvironments(t) ==
    LET vars == (Names(t) \cap {"v", "w", "opt", "maybe", "ys", "it"}) \ Declared(t)
        calls == Names(t) \cap {"find", "load", "name", "get", "handle"}
        values == UNION {VarValues(x) : x \in vars}
    IN  {[vars |-> a, calls |-> c] :
            a \in {f \in [vars -> values] : \A x \in vars : f[x] \in VarValues(x)},
            c \in [calls -> {Val(Nil), Val(Obj("r")), Raise("E"), Raise("F")}]}
SmallText == Plainly(<<Return(NullLit)>>)
=============================================================================
