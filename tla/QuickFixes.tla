----------------------------- MODULE QuickFixes -----------------------------
\* The quick fixes (fixes.py) and the loop they are used in: the server publishes the
\* diagnostics of a text, the user edits on, the client asks for code actions with the
\* diagnostics it still shows, and the chosen edit is applied to the text of that moment.
EXTENDS JavaRules

CONSTANTS
    Texts,          \* the texts a session may start from
    Edits(_),       \* the texts one edit of the user may make of a text
    Environments(_),\* what the variables and the unknown calls of a text may be
    MaxEdits,       \* bound on the user's edits
    MaxFixes        \* bound on the fixes applied

VARIABLES
    text,     \* the document
    shown,    \* the diagnostics last published for it
    edits,    \* edits made by the user
    fixed     \* fixes applied
fixVars == <<text, shown, edits, fixed>>

----------------------------------------------------------------------------
\* A fix yields a set of texts: empty when it bails out, else the edited text.

\* ensure_import (autoImportVavr, autoImportLombok at their default).
Import(t, name) == [t EXCEPT !.imports = @ \cup {name}]

\* _is_eager: such a default is passed to getOrElse as a value, any other as a supplier.
IsEager(e) == e.k \in {"lit", "str", "id", "field"}
Default(e) == IF IsEager(e) THEN e ELSE Lambda("", e)
GetOrElse(o, e) == Call(o, "getOrElse", <<Default(e)>>)
OptionOf(e) == Call(Id("Option"), "of", <<e>>)

\* The node a range falls on: the statement at its place, or, when that is gone, the
\* innermost block or statement around it; then the nearest ancestor of the kind wanted.
RECURSIVE Enclosing(_, _, _)
Enclosing(t, p, kind) ==
    IF p = <<>> THEN <<>>
    ELSE IF p \in AllPlaces(t) /\ At(t, p).k = kind THEN p
    ELSE Enclosing(t, IF Len(p) = 1 THEN <<>> ELSE Up(p), kind)
IfAt(t, d) == Enclosing(t, d.at, "if")
TryAt(t, d) == Enclosing(t, d.at, "try")

\* _find_method_invocation: the call itself, else the first call below the node.
CallsUnder(t, p) == {x \in Sites(t) : x.e.k = "call" /\ IsPrefix(p, x.at)}
FindInvocation(t, d) ==
    LET calls == CallsUnder(t, IF d.at \in AllPlaces(t) THEN d.at ELSE <<>>)
        itself == {x \in calls : x.at = d.at /\ x.nth = d.nth}
    IN  IF itself # {} THEN itself
        ELSE {x \in calls : \A y \in calls : x = y \/ Before(Append(x.at, x.nth), Append(y.at, y.nth))}

\* frozen-mutation: rewrite the first declaration of that name in the file to Vavr, and
\* the call, when it is a statement of its own, to an assignment. The receiver is not
\* looked at again: it may be anything the place now holds.
Persist(m) ==
    CASE m = "addAll" -> "appendAll" [] m = "remove" -> "remove" [] m = "sort" -> "sorted"
      [] m = "set" -> "update" [] OTHER -> "append"
\* The collection is chosen by the declared type alone.
VavrType(type) ==
    CASE type \in {"Map", "SortedMap", "ImmutableMap", "ImmutableSortedMap"} -> "io.vavr.collection.Map"
      [] type \in {"Set", "SortedSet", "ImmutableSet", "ImmutableSortedSet", "ImmutableMultiset"} ->
             "io.vavr.collection.Set"
      [] OTHER -> "io.vavr.collection.List"
VavrDecl(s) ==
    [s EXCEPT !.type = VavrType(@),
              !.e = Call(Id(VavrType(s.type)), "of", IF s.e.k = "call" THEN s.e.args ELSE <<>>)]
\* Mutant: the declaration is not found.
NoDecl(t, x) == {}
Decls(t, x) == {p \in AllPlaces(t) : At(t, p).k = "decl" /\ At(t, p).v = x}
\* _find_frozen_decl_info: the first declaration of the name in the file, whichever one the
\* call is about.
FirstDecl(t, x) == {p \in Decls(t, x) : \A q \in Decls(t, x) : p = q \/ Before(p, q)}
FixFrozenMutation(t, d) ==
    UNION {LET call == site.e
               x == IF call.obj.k = "id" THEN call.obj.v ELSE ""
               decl == FirstDecl(t, x)
               collection == VavrType(IF decl = {} THEN "List" ELSE At(t, CHOOSE p \in decl : TRUE).type)
               inits == {p \in decl : At(t, p).e # NoExpr}
               whole == site.nth = 1 /\ At(t, site.at).k = "do"
               update == Do(Assign(x, [call EXCEPT !.name = Persist(@)]))
               called == IF whole THEN [t EXCEPT !.body = Splice(@, site.at, 1, <<update>>)] ELSE t
               rewritten == [called EXCEPT !.body =
                   FoldSet(LAMBDA p, b : Splice(b, p, 1, <<VavrDecl(StmtAt(b, p))>>), @, inits)]
           IN  IF call.obj.k = "no" \/ (collection \in t.imports /\ ~whole /\ inits = {}) THEN {}
               ELSE {Import(rewritten, collection)}
           : site \in FindInvocation(t, d)}

\* null-return: the range is replaced, whatever it holds by now.
FixNullReturn(t, d) ==
    LET new(b) == {Import([t EXCEPT !.body = b], "Option")} IN
    IF d.at \notin AllPlaces(t) THEN new(Append(t.body, Do(Error)))
    ELSE new(Splice(t.body, d.at, 1,
             <<IF At(t, d.at) = Return(NullLit) THEN Return(Call(Id("Option"), "none", <<>>))
               ELSE [At(t, d.at) EXCEPT !.e = Error]>>))

\* _is_identity_return.
IsIdentity(br, x) == BlockReturns(br) /\ br.body[1].e = Id(x)

\* _collect_chained_fallbacks: else { x = e; if (x != null) { return x; } [else ..] }; the
\* fallbacks in order, or <<NoExpr>> when a level does not match.
NoChain == <<NoExpr>>
RECURSIVE Fallbacks(_, _)
Fallbacks(br, x) ==
    IF /\ br.braces /\ Len(br.body) = 2
       /\ br.body[1].k = "do" /\ br.body[1].e.k = "assign" /\ br.body[1].e.v = x
       /\ br.body[2].k = "if" /\ NullCheckVar(br.body[2].e) = x
       /\ IsIdentity(br.body[2].parts[1], x)
    THEN LET inner == br.body[2].parts
             more == IF Len(inner) = 1 THEN <<>> ELSE Fallbacks(inner[2], x)
         IN  IF more = NoChain THEN NoChain ELSE <<br.body[1].e.e>> \o more
    ELSE NoChain

\* _try_chained_null_rewrite: the declaration, the chain and the final return become
\* Option.of(first).orElse(() -> Option.of(next))..getOrElse(default).
ChainRewrite(t, p, x) ==
    LET b == BlockAt(t.body, p)
        i == Last(p)
        s == b[i]
        falls == Fallbacks(s.parts[2], x)
        chain == FoldLeft(LAMBDA o, e : Call(o, "orElse", <<Lambda("", OptionOf(e))>>), OptionOf(b[i - 1].e), falls)
    IN  IF /\ i > 1 /\ b[i - 1].k = "decl" /\ b[i - 1].v = x /\ b[i - 1].e # NoExpr
           /\ falls # NoChain /\ Len(falls) <= 10   \* _MAX_CHAIN_DEPTH
           /\ i < Len(b) /\ b[i + 1].k = "return" /\ b[i + 1].e \notin {NoExpr, NullLit}
        THEN {[t EXCEPT !.body = Splice(@, [p EXCEPT ![Len(p)] = i - 1], 3, <<Return(GetOrElse(chain, b[i + 1].e))>>)]}
        ELSE {}

\* _build_monadic_rewrite: return Option.of(x)[.map(it -> e)][.getOrElse(default)].
MonadicRewrite(t, p, x) ==
    LET b == BlockAt(t.body, p)
        s == b[Last(p)]
        e == s.parts[1].body[1].e
        base == IF e = Id(x) THEN OptionOf(e) ELSE Call(OptionOf(Id(x)), "map", <<Lambda("it", Rename(e, x, "it"))>>)
        rewritten(n, r) == {[t EXCEPT !.body = Splice(@, p, n, <<Return(r)>>)]}
        \* an else that is a bare return, or a block of one
        other == IF Len(s.parts) = 2 THEN s.parts[2].body ELSE <<>>
    IN  CASE ~BlockReturns(s.parts[1]) -> {}
          [] Len(s.parts) = 1 ->
                IF Last(p) < Len(b) /\ b[Last(p) + 1] = Return(NullLit) THEN rewritten(2, base) ELSE {}
          [] Returns(other) -> rewritten(1, IF other[1].e = NullLit THEN base ELSE GetOrElse(base, other[1].e))
          [] OTHER -> IF e = Id(x) THEN ChainRewrite(t, p, x) ELSE {}
FixNullCheck(t, d) ==
    LET p == IfAt(t, d)
        x == NullCheckVar(At(t, p).e)
    IN  IF p = <<>> \/ x = "" THEN {} ELSE {Import(new, "Option") : new \in MonadicRewrite(t, p, x)}

\* _validate_and_extract_try_catch_parts repeats the analyzer's check of the shape.
ValidTry(s) == ~HasError(<<s>>) /\ TryShape(s)

\* try-catch-to-monadic, in the three patterns of the handler: a default, a log call and
\* a default, a value computed from the exception.
FixTryCatch(t, d) ==
    LET p == TryAt(t, d)
        s == At(t, p)
        prior == Front(s.parts[2].body)
        result == Last(s.parts[2].body).e
        usesExc == s.v \in Identifiers(result)
        logs == Calls(prior[1].e)
        tryOf == Call(Id("Try"), "of", <<Lambda("", s.parts[1].body[1].e)>>)
        chain == IF prior = <<>> THEN tryOf ELSE Call(tryOf, "onFailure", <<Lambda(s.v, prior[1].e)>>)
        new == IF usesExc
               THEN Call(Call(chain, "recover", <<Id(s.type), Lambda(s.v, result)>>), "get", <<>>)
               ELSE GetOrElse(chain, result)
    IN  IF p = <<>> \/ ~ValidTry(s) THEN {}
        ELSE IF Len(prior) > 1 THEN {}
        ELSE IF Len(prior) = 1 /\ (usesExc \/ logs = <<>> \/ ~IsSideEffect(Head(logs))) THEN {}
        ELSE {Import([t EXCEPT !.body = Splice(@, p, 1, <<Return(new)>>)], "Try")}

\* imperative-option-unwrap: if (.. x.isDefined() ..) return ..x.get()..; else return d;
FixOptionUnwrap(t, d) ==
    LET p == IfAt(t, d)
        s == At(t, p)
        checks == SelectSeq(Calls(s.e), LAMBDA c : c.name \in {"isDefined", "isPresent"} /\ c.obj.k # "no")
        x == Head(checks).obj
        e == s.parts[1].body[1].e
        body == RewriteGet(e, x, "it")
        new == GetOrElse(Call(x, "map", <<Lambda("it", body)>>), s.parts[2].body[1].e)
    IN  IF p = <<>> \/ HasError(<<s>>) \/ checks = <<>> THEN {}
        ELSE IF ~Returns(s.parts[1].body) \/ body = e THEN {}
        ELSE IF Len(s.parts) = 1 \/ ~Returns(s.parts[2].body) THEN {}
        ELSE {[t EXCEPT !.body = Splice(@, p, 1, <<Return(new)>>)]}

\* mutable-dto: @Data becomes @Value, never next to an annotation that contradicts it.
Conflicting == {"NoArgsConstructor", "AllArgsConstructor", "RequiredArgsConstructor", "ConfigurationProperties"}
FixMutableDto(t, d) ==
    IF d.nth = 1 /\ "Data" \in t.annotations /\ t.annotations \cap Conflicting = {}
    THEN {Import([t EXCEPT !.annotations = (@ \ {"Data"}) \cup {"Value"}], "lombok.Value")}
    ELSE {}

FixRegistry == {"frozen-mutation", "null-check-to-monadic", "null-return", "try-catch-to-monadic",
                "imperative-option-unwrap", "mutable-dto"}
Fix(t, d) ==
    CASE d.rule = "frozen-mutation" -> FixFrozenMutation(t, d)
      [] d.rule = "null-check-to-monadic" -> FixNullCheck(t, d)
      [] d.rule = "null-return" -> FixNullReturn(t, d)
      [] d.rule = "try-catch-to-monadic" -> FixTryCatch(t, d)
      [] d.rule = "imperative-option-unwrap" -> FixOptionUnwrap(t, d)
      [] d.rule = "mutable-dto" -> FixMutableDto(t, d)
      [] OTHER -> {}

----------------------------------------------------------------------------
FixInit == text \in Texts /\ shown = {} /\ edits = 0 /\ fixed = 0

\* The analysis after an open, a save or the debounce of a change.
PublishDiagnostics ==
    /\ shown' = Diagnostics(text)
    /\ UNCHANGED <<text, edits, fixed>>
\* The user types; the diagnostics on the screen are those of an earlier text.
Edit ==
    /\ edits < MaxEdits
    /\ text' \in Edits(text)
    /\ edits' = edits + 1
    /\ UNCHANGED <<shown, fixed>>
\* on_code_action for the diagnostics the client sends, and the edit it applies. The
\* edit carries no version, so the client cannot refuse it.
ApplyFix ==
    /\ fixed < MaxFixes
    /\ \E d \in shown : text' \in Fix(text, d)
    /\ fixed' = fixed + 1
    /\ UNCHANGED <<shown, edits>>
FixNext == PublishDiagnostics \/ Edit \/ ApplyFix
FixSpec == FixInit /\ [][FixNext]_fixVars

----------------------------------------------------------------------------
\* What is known not to be kept, case by case (see the README).
\* A field access counts as a simple default: it is evaluated, and may throw, when the
\* default is not needed.
EagerThrows(e, env) == e.k = "field" /\ Eval(e, env).k = "raise"
\* Try.getOrElse also swallows what the catch would have let through.
TryKnown(s, env) ==
    LET r == Eval(s.parts[1].body[1].e, env)
        result == Last(s.parts[2].body).e
    IN  \/ r.k = "raise" /\ s.type \notin {r.x, "Exception"} /\ s.v \notin Identifiers(result)
        \/ EagerThrows(result, env)
\* A member with the variable's name, and the name in a string, are renamed with it; the
\* lambda's parameter hides a field called `it`; a fallback or the default of a chain still
\* names the variable that the rewrite removes.
Strings(e) == {y \in ToSet(Subterms(e)) : y.k = "str"}
HidesIt(e) == "it" \in Identifiers(e)
MembersOf(e) == {x.name : x \in {y \in ToSet(Subterms(e)) : y.k \in {"field", "call"}}}
NullCheckKnown(t, p, env) ==
    LET s == At(t, p)
        x == NullCheckVar(s.e)
        result == s.parts[1].body[1].e
        next == BlockAt(t.body, p)[Last(p) + 1].e
    IN  \/ x \in MembersOf(result) \/ HidesIt(result)
        \/ \E y \in Strings(result) : x \in Identifiers(y.e)
        \/ /\ Len(s.parts) = 2
           /\ IF Returns(s.parts[2].body) THEN EagerThrows(s.parts[2].body[1].e, env)
              ELSE \/ EagerThrows(next, env)
                   \/ x \in UNION {Identifiers(e) : e \in ToSet(Fallbacks(s.parts[2], x)) \cup {next}}
\* The unwrap fix keeps the check and drops the rest of the condition; what isPresent is
\* asked of is an Optional, which has no getOrElse; strings and `it` as above.
UnwrapKnown(s, env) ==
    LET result == s.parts[1].body[1].e
        opt == s.e.obj
    IN  \/ s.e.k # "call"
        \/ s.e.name = "isPresent"
        \/ HidesIt(result) \/ \E y \in Strings(result) : RewriteGet(y, opt, "it") # y
        \/ EagerThrows(s.parts[2].body[1].e, env)
\* The frozen fix is complete for a list declared once, with its elements, none of them
\* null, as arguments, and changed once, by a statement of its own.
Repeated(t, x) == Cardinality(Decls(t, x)) > 1
FrozenKnown(t, d, env) ==
    LET call == Subterms(At(t, d.at).e)[d.nth]
        uses == {y \in Sites(t) : y.e.k = "call" /\ y.e.obj = call.obj}
    IN  \/ Repeated(t, call.obj.v) \/ Cardinality(uses) > 1
        \/ At(t, d.at).k # "do"
        \/ \E p \in Decls(t, call.obj.v) :
               LET s == At(t, p)
               IN  \/ VavrType(s.type) # "io.vavr.collection.List" \/ s.e.obj.v \in {"Set", "Map"}
                   \/ FromCollection(s.e.name)
                   \/ s.e.name = "of" /\ \E v \in ToSet(s.e.args) : Eval(v, env) = Val(Nil)
Known(t, d, env) ==
    CASE d.rule = "try-catch-to-monadic" -> TryKnown(At(t, TryAt(t, d)), env)
      [] d.rule = "null-check-to-monadic" -> NullCheckKnown(t, IfAt(t, d), env)
      [] d.rule = "imperative-option-unwrap" -> UnwrapKnown(At(t, IfAt(t, d)), env)
      [] d.rule = "frozen-mutation" -> FrozenKnown(t, d, env)
      [] OTHER -> FALSE

\* A fix that is offered does not change what the method computes, in any environment:
\* not its result, not its exception, up to a null or a value becoming an Option; a
\* mutation that threw no longer throws. The fixes that look at the text again promise it
\* for a diagnostic of any age, the other two for one of this text.
LooksAgain == {"null-check-to-monadic", "try-catch-to-monadic", "imperative-option-unwrap"}
Kept(old, new) == \/ new = old
                  \/ old = Raise("Unsupported") /\ new \notin {Raise("Unsupported"), Stuck}

\* Applying the fixes the server offers comes to an end: each one leaves less to do, in
\* fixable reports and branching statements, even though a fix can uncover a new report.
\* Exempt is a mutation of a name declared more than once: the first declaration is
\* rewritten, whichever was meant, and the report may stay and be offered again for ever.
Work(t) == Cardinality({d \in Diagnostics(t) : d.rule \in FixRegistry})
             + Cardinality({p \in AllPlaces(t) : At(t, p).k \in {"if", "try"}})
RewritesAnother(t, d) ==
    d.rule = "frozen-mutation" /\ Repeated(t, Subterms(At(t, d.at).e)[d.nth].obj.v)
FixesConverge ==
    LET fresh == Diagnostics(text)
        work == Work(text)
    IN  \A d \in shown : \A new \in Fix(text, d) :
            d \in fresh /\ ~RewritesAnother(text, d) => Work(new) < work
=============================================================================
