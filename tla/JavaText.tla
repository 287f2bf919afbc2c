------------------------------ MODULE JavaText ------------------------------
\* A Java method as the analyzers and the quick fixes see it (a tree-sitter tree with
\* comments, layout and spelling left out), the helpers of analyzers/base.py that read
\* it, and what such a method computes: the part of Java and of Vavr the rewrites use.
EXTENDS Naturals, Sequences, FiniteSets, SequencesExt

----------------------------------------------------------------------------
\* Expressions. NoExpr is a missing one: a bare return, a call without a receiver.
NoExpr == [k |-> "no"]
NullLit == [k |-> "null"]
Error == [k |-> "error"]      \* a stretch the parser could not make sense of
Lit == [k |-> "lit"]          \* an integer
Str(e) == [k |-> "str", e |-> e]   \* a string in which the text of e occurs, if any
Id(x) == [k |-> "id", v |-> x]
FieldOf(o, f) == [k |-> "field", obj |-> o, name |-> f]
Call(o, m, as) == [k |-> "call", obj |-> o, name |-> m, args |-> as]
Lambda(p, b) == [k |-> "lambda", v |-> p, e |-> b]
Bin(o, a, b) == [k |-> "bin", op |-> o, l |-> a, r |-> b]
Assign(x, b) == [k |-> "assign", v |-> x, e |-> b]

\* Statements: e is the statement's own expression, parts its nested blocks (then, else;
\* body, catch), each with or without braces.
Block(ss) == [braces |-> TRUE, body |-> ss]
Bare(s) == [braces |-> FALSE, body |-> <<s>>]
Return(x) == [k |-> "return", e |-> x, parts |-> <<>>]
Do(x) == [k |-> "do", e |-> x, parts |-> <<>>]
Throw(x) == [k |-> "throw", e |-> x, parts |-> <<>>]
Decl(t, x, i) == [k |-> "decl", e |-> i, parts |-> <<>>, type |-> t, v |-> x]
If(c, ps) == [k |-> "if", e |-> c, parts |-> ps]
Loop(c, b) == [k |-> "loop", e |-> c, parts |-> <<b>>]
\* shape: one catch, or several, a union type, a finally clause, resources.
Try(sh, t, x, b, c) ==
    [k |-> "try", e |-> NoExpr, parts |-> <<Block(b), Block(c)>>, shape |-> sh, type |-> t, v |-> x]

\* A source text: one method and the class around it. Sup are the rules a
\* @SuppressWarnings of the method or its class names.
Text(as, bean, sup, b) == [annotations |-> as, bean |-> bean, suppressed |-> sup, imports |-> {}, body |-> b]

----------------------------------------------------------------------------
\* find_nodes: the descendants of an expression, in document order.
Children(e) ==
    CASE e.k = "field" -> <<e.obj>>
      [] e.k = "call" -> (IF e.obj.k = "no" THEN <<>> ELSE <<e.obj>>) \o e.args
      [] e.k \in {"lambda", "assign"} -> <<e.e>>
      [] e.k = "bin" -> <<e.l, e.r>>
      [] OTHER -> <<>>
RECURSIVE Subterms(_)
Subterms(e) == <<e>> \o FlattenSeq([i \in DOMAIN Children(e) |-> Subterms(Children(e)[i])])
Calls(e) == SelectSeq(Subterms(e), LAMBDA x : x.k = "call")

\* references_var: every identifier counts, the names of members too.
Identifiers(e) == LET ts == ToSet(Subterms(e)) IN
    {x.v : x \in {y \in ts : y.k \in {"id", "lambda", "assign"}}}
        \cup {x.name : x \in {y \in ts : y.k \in {"field", "call"}}}

\* A place in a method: the index of a statement, then part and index inside it.
RECURSIVE Places(_)
Places(b) == UNION {{<<i>>} \cup
    UNION {{<<i, q>> \o p : p \in Places(b[i].parts[q].body)} : q \in DOMAIN b[i].parts} : i \in DOMAIN b}
RECURSIVE BlockAt(_, _)
BlockAt(b, p) == IF Len(p) = 1 THEN b ELSE BlockAt(b[p[1]].parts[p[2]].body, SubSeq(p, 3, Len(p)))
StmtAt(b, p) == BlockAt(b, p)[Last(p)]
Up(p) == SubSeq(p, 1, Len(p) - 2)
\* p comes before q in the document (a statement before what is nested in it).
Before(p, q) == \E i \in 1 .. Len(q) :
    /\ i <= Len(p) + 1 /\ SubSeq(p, 1, i - 1) = SubSeq(q, 1, i - 1)
    /\ i > Len(p) \/ p[i] < q[i]

\* has_error_or_missing.
HasError(b) == \E p \in Places(b) : Error \in ToSet(Subterms(StmtAt(b, p).e))

\* A text edit: n statements from place p on become the statements ss.
RECURSIVE Splice(_, _, _, _)
Splice(b, p, n, ss) ==
    IF Len(p) = 1 THEN SubSeq(b, 1, p[1] - 1) \o ss \o SubSeq(b, p[1] + n, Len(b))
    ELSE [b EXCEPT ![p[1]].parts[p[2]].body = Splice(@, SubSeq(p, 3, Len(p)), n, ss)]

\* A branch that is exactly `return e;`: with braces (named_children), or either way
\* (single_return_stmt), which is what the unwrap rule and fix use.
Returns(ss) == Len(ss) = 1 /\ ss[1].k = "return" /\ ss[1].e # NoExpr
BlockReturns(br) == br.braces /\ Returns(br.body)

\* extract_null_check_var: x in `x != null` or `null != x`, "" for another condition.
NullCheckVar(c) ==
    IF c.k = "bin" /\ c.op = "!=" /\ c.r.k = "null" /\ c.l.k = "id" THEN c.l.v
    ELSE IF c.k = "bin" /\ c.op = "!=" /\ c.l.k = "null" /\ c.r.k = "id" THEN c.r.v ELSE ""

\* Textual replacement of the word x (`\bx\b`): identifiers, member names and what is
\* inside strings alike.
Word(n, x, y) == IF n = x THEN y ELSE n
RECURSIVE Rename(_, _, _)
Rename(e, x, y) ==
    CASE e.k = "id" -> [e EXCEPT !.v = Word(@, x, y)]
      [] e.k = "field" -> [e EXCEPT !.obj = Rename(@, x, y), !.name = Word(@, x, y)]
      [] e.k = "call" -> [e EXCEPT !.obj = Rename(@, x, y), !.name = Word(@, x, y),
                                   !.args = [i \in DOMAIN @ |-> Rename(@[i], x, y)]]
      [] e.k = "str" -> [e EXCEPT !.e = Rename(@, x, y)]
      [] e.k \in {"lambda", "assign"} -> [e EXCEPT !.v = Word(@, x, y), !.e = Rename(@, x, y)]
      [] e.k = "bin" -> [e EXCEPT !.l = Rename(@, x, y), !.r = Rename(@, x, y)]
      [] OTHER -> e

\* rewrite_var_get_call: every `x.get()` becomes y, inside strings too.
RECURSIVE RewriteGet(_, _, _)
RewriteGet(e, x, y) ==
    IF e = Call(x, "get", <<>>) THEN Id(y)
    ELSE CASE e.k = "field" -> [e EXCEPT !.obj = RewriteGet(@, x, y)]
           [] e.k = "call" -> [e EXCEPT !.obj = RewriteGet(@, x, y),
                                        !.args = [i \in DOMAIN @ |-> RewriteGet(@[i], x, y)]]
           [] e.k \in {"lambda", "assign", "str"} -> [e EXCEPT !.e = RewriteGet(@, x, y)]
           [] e.k = "bin" -> [e EXCEPT !.l = RewriteGet(@, x, y), !.r = RewriteGet(@, x, y)]
           [] OTHER -> e

----------------------------------------------------------------------------
\* What a method computes. A result is a value or an exception; "Stuck" is the result of
\* code that does not compile.
Nil == [k |-> "nil"]
Obj(n) == [k |-> "obj", n |-> n]
Bool(b) == [k |-> "bool", b |-> b]
Some(v) == [k |-> "some", of |-> v]
Nothing == [k |-> "nothing"]
Success(v) == [k |-> "success", of |-> v]
Failure(x) == [k |-> "failure", x |-> x]
\* A collection, a "List", "Set" or "Map": one of java.util's frozen ones (frozen), or Vavr's.
Collection(frozen, kind, vs) == [k |-> "list", frozen |-> frozen, kind |-> kind, of |-> vs]
JavaList(vs) == Collection(TRUE, "List", vs)
VavrList(vs) == Collection(FALSE, "List", vs)
\* java.util.Optional.
Optional(present) == [k |-> "optional", present |-> present]
Val(v) == [k |-> "val", v |-> v]
Raise(x) == [k |-> "raise", x |-> x]
Stuck == Raise("Stuck")
AndThen(r, F(_)) == IF r.k = "val" THEN F(r.v) ELSE r

\* Names that denote no variable; env.vars binds the variables, env.calls says what a
\* call of unknown code returns or throws.
JavaFactories == {"List", "Set", "Map", "ImmutableList", "ImmutableSet", "Collections"}
VavrFactories == {"io.vavr.collection." \o c : c \in {"List", "Set", "Map"}}
Static == {"Option", "Try", "log"} \cup JavaFactories \cup VavrFactories
Bind(env, x, v) == [env EXCEPT !.vars = [y \in DOMAIN @ \cup {x} |-> IF y = x THEN v ELSE @[y]]]
Opaque(env, m) == IF m \in DOMAIN env.calls THEN env.calls[m] ELSE Stuck

RECURSIVE Eval(_, _), EvalAll(_, _)
EvalAll(es, env) ==
    IF es = <<>> THEN Val(<<>>)
    ELSE AndThen(Eval(Head(es), env), LAMBDA v :
             AndThen(EvalAll(Tail(es), env), LAMBDA vs : Val(<<v>> \o vs)))
Body(f, env, v) == Eval(f.e, Bind(env, f.v, v))
\* getOrElse takes a value, evaluated before the call, or a supplier.
OrElse(e, env) == IF e.k = "lambda" THEN Eval(e.e, env) ELSE Eval(e, env)
\* copyOf and the unmodifiable views hold what their argument holds; of takes no null.
FromCollection(m) == m \in {"copyOf", "unmodifiableList"}
Kind(o) == CASE o = "Map" -> "Map" [] o \in {"Set", "ImmutableSet"} -> "Set" [] OTHER -> "List"
JavaCollection(o, m, vs) ==
    CASE (IF FromCollection(m) THEN vs[1] = Nil ELSE m = "of" /\ Nil \in ToSet(vs)) -> Raise("NullPointer")
      [] FromCollection(m) -> Val(JavaList(vs[1].of))
      [] OTHER -> Val(Collection(TRUE, Kind(o), vs))
\* Vavr's Set and Map are interfaces without a factory of.
VavrCollection(o, vs) == IF o = "io.vavr.collection.List" THEN Val(VavrList(vs)) ELSE Stuck
EvalStatic(e, env) ==
    CASE e.obj.v = "Option" /\ e.name = "of" -> AndThen(Eval(e.args[1], env), LAMBDA v : Val(IF v = Nil THEN Nothing ELSE Some(v)))
      [] e.obj.v = "Option" /\ e.name = "none" -> Val(Nothing)
      [] e.obj.v = "Try" -> LET r == Eval(e.args[1].e, env) IN
             IF r = Stuck THEN Stuck ELSE Val(IF r.k = "val" THEN Success(r.v) ELSE Failure(r.x))
      [] e.obj.v \in JavaFactories -> AndThen(EvalAll(e.args, env), LAMBDA vs : JavaCollection(e.obj.v, e.name, vs))
      [] e.obj.v \in VavrFactories -> AndThen(EvalAll(e.args, env), LAMBDA vs : VavrCollection(e.obj.v, vs))
      [] e.obj.v = "log" -> AndThen(EvalAll(e.args, env), LAMBDA vs : Val(Nil))
EvalOption(e, o, env) ==
    CASE e.name = "isDefined" -> Val(Bool(o # Nothing))
      [] e.name = "isEmpty" -> Val(Bool(o = Nothing))
      [] e.name = "get" -> IF o = Nothing THEN Raise("NoSuchElement") ELSE Val(o.of)
      [] e.name = "map" -> IF o = Nothing THEN Val(o)
                           ELSE AndThen(Body(e.args[1], env, o.of), LAMBDA v : Val(Some(v)))
      [] e.name = "orElse" -> IF o = Nothing THEN Eval(e.args[1].e, env) ELSE Val(o)
      [] e.name = "getOrElse" ->
             LET d == OrElse(e.args[1], env) IN
             IF o = Nothing \/ (e.args[1].k # "lambda" /\ d.k = "raise") THEN d ELSE Val(o.of)
      [] OTHER -> Stuck
\* java.util.Optional has no getOrElse.
EvalOptional(e, o) ==
    CASE e.name = "isPresent" -> Val(Bool(o.present))
      [] e.name = "get" -> IF o.present THEN Val(Obj("inside")) ELSE Raise("NoSuchElement")
      [] e.name = "map" -> Val(o)
      [] OTHER -> Stuck
EvalTry(e, t, env) ==
    CASE e.name = "onFailure" ->
             IF t.k = "failure" THEN AndThen(Body(e.args[1], env, Obj(t.x)), LAMBDA v : Val(t)) ELSE Val(t)
      [] e.name = "recover" -> IF t.k = "failure" /\ e.args[1].v \in {t.x, "Exception"}
                               THEN LET r == Body(e.args[2], env, Obj(t.x)) IN
                                    IF r.k = "val" THEN Val(Success(r.v)) ELSE Val(Failure(r.x))
                               ELSE Val(t)
      [] e.name = "get" -> IF t.k = "failure" THEN Raise(t.x) ELSE Val(t.of)
      [] e.name = "getOrElse" ->
             LET d == OrElse(e.args[1], env) IN
             IF t.k = "failure" \/ (e.args[1].k # "lambda" /\ d.k = "raise") THEN d ELSE Val(t.of)
      [] OTHER -> Stuck
\* java.util's frozen collections reject every mutation; Vavr's have the persistent
\* methods only.
EvalList(e, l, vs) ==
    CASE e.name = "size" -> Val(Obj("size"))
      [] l.frozen -> Raise("Unsupported")
      [] e.name = "append" -> Val(VavrList(l.of \o vs))
      [] e.name = "remove" -> Val(VavrList(RemoveFirst(l.of, vs[1])))
      [] e.name \in {"appendAll", "sorted", "update"} -> Val(l)
      [] OTHER -> Stuck

Eval(e, env) ==
    CASE e.k = "null" -> Val(Nil)
      [] e.k = "lit" -> Val(Obj("lit"))
      [] e.k = "str" -> Val([k |-> "string", text |-> e.e])
      [] e.k = "id" -> IF e.v \in DOMAIN env.vars THEN Val(env.vars[e.v]) ELSE Stuck
      [] e.k = "field" -> AndThen(Eval(e.obj, env), LAMBDA v :
             IF v = Nil THEN Raise("NullPointer") ELSE Val(Obj(e.name)))
      [] e.k = "bin" -> AndThen(Eval(e.l, env), LAMBDA a :
             IF e.op = "&&" /\ a = Bool(FALSE) THEN Val(a)
             ELSE AndThen(Eval(e.r, env), LAMBDA b :
                 Val(CASE e.op = "!=" -> Bool(a # b) [] e.op = "==" -> Bool(a = b) [] e.op = "&&" -> b
                       [] e.op = "+" -> [k |-> "sum", l |-> a, r |-> b])))
      [] e.k = "call" /\ e.obj.k = "no" -> AndThen(EvalAll(e.args, env), LAMBDA vs : Opaque(env, e.name))
      [] e.k = "call" /\ e.obj.k = "id" /\ e.obj.v \in Static -> EvalStatic(e, env)
      [] e.k = "call" -> AndThen(Eval(e.obj, env), LAMBDA o :
             CASE o.k \in {"some", "nothing"} -> EvalOption(e, o, env)
               [] o.k \in {"success", "failure"} -> EvalTry(e, o, env)
               [] o.k = "optional" -> EvalOptional(e, o)
               [] OTHER -> AndThen(EvalAll(e.args, env), LAMBDA vs :
                      CASE o.k = "list" -> EvalList(e, o, vs)
                        [] o = Nil -> Raise("NullPointer")
                        [] OTHER -> Opaque(env, e.name)))
      [] OTHER -> Stuck

\* Statements: a result, or the environment after a statement that falls through.
RECURSIVE Run(_, _)
Falls(env) == [k |-> "falls", env |-> env]
Step(s, env) ==
    CASE s.k = "return" -> IF s.e = NoExpr THEN Val(Nil) ELSE Eval(s.e, env)
      [] s.k = "throw" -> Raise("E")
      [] s.k = "loop" -> Falls(env)
      [] s.k = "try" -> LET r == Run(s.parts[1].body, env) IN
             IF r.k = "raise" /\ r # Stuck /\ s.type \in {r.x, "Exception"}
             THEN Run(s.parts[2].body, Bind(env, s.v, Obj(r.x))) ELSE r
      [] OTHER ->
             LET x == IF s.e.k = "assign" THEN s.e.e ELSE s.e
                 r == Eval(x, env)
             IN  IF r.k = "raise" THEN r
                 ELSE CASE s.k = "decl" -> Falls(Bind(env, s.v, r.v))
                        [] s.k = "if" -> IF r.v = Bool(TRUE) THEN Run(s.parts[1].body, env)
                                         ELSE IF Len(s.parts) = 2 THEN Run(s.parts[2].body, env) ELSE Falls(env)
                        [] s.e.k = "assign" -> Falls(Bind(env, s.e.v, r.v))
                        [] OTHER -> Falls(env)
Run(b, env) ==
    IF b = <<>> THEN Falls(env)
    ELSE LET r == Step(Head(b), env) IN IF r.k = "falls" THEN Run(Tail(b), r.env) ELSE r

\* The fixes turn a nullable result into an Option, and a list into Vavr's, on purpose: only
\* what is inside counts, the elements of a list included.
RECURSIVE Plain(_)
Plain(v) ==
    CASE v.k = "some" -> Plain(v.of) [] v = Nothing -> Nil [] v.k = "list" -> [v EXCEPT !.frozen = FALSE] [] OTHER -> v
Outcome(r) == IF r.k = "val" THEN Val(Plain(r.v)) ELSE IF r.k = "falls" THEN Val(Nil) ELSE r
=============================================================================
