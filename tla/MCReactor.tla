------------------------------ MODULE MCReactor ------------------------------
\* The checkouts that the reactor index is built from.
EXTENDS Reactor
\* root/pom.xml, a/pom.xml, b/pom.xml, b/alt.xml, out/pom.xml above the root, link/pom.xml
CONSTANTS R, A, B, B2, O, L
DirOfPom == [p \in {R, A, B, B2, O, L} |->
    CASE p = R -> "root" [] p = A -> "a" [] p \in {B, B2} -> "b" [] p = O -> "out" [] p = L -> "link"]
Dep(g, s, t) == [ga |-> g, scope |-> s, testJar |-> t]
Pom(v, g, ms, par, ds) == [valid |-> v, ga |-> g, modules |-> ms, parent |-> par, deps |-> ds]
CheckoutSet ==
    {[p \in {R, A, B, B2, O, L} |->
        CASE p = R -> Pom(TRUE, "g0", rm, rp, <<Dep("g2", "compile", FALSE)>>)
          [] p = A -> Pom(TRUE, "g1", am, ap, ad)
          [] p = B -> Pom(bv, bg, <<>>, bp, <<Dep("g1", "runtime", FALSE), Dep("g1", "compile", FALSE)>>)
          [] p = B2 -> Pom(TRUE, "g2", <<L>>, "g0", <<>>)
          [] OTHER -> Pom(TRUE, "g1", <<>>, "g0", <<>>)] :
        rm \in {<<A, B>>, <<A, O, L>>, <<B2, B, A>>, <<A, Placeholder, R, B>>}, rp \in {NoGA, "g1"},
        am \in {<<>>, <<B>>, <<R, B2>>, <<Placeholder>>}, ap \in {NoGA, "g0", "g1"},
        ad \in {<<>>, <<Dep("g2", "test", FALSE), Dep("g2", "test", TRUE)>>, <<Dep("g2", "compile", TRUE), Dep("g3", "provided", FALSE)>>},
        bv \in BOOLEAN, bg \in {NoGA, "g1", "g2"}, bp \in {"g0", "g1"}}
SmallCheckout == CHOOSE c \in CheckoutSet : TRUE
=============================================================================
