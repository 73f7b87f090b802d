----------------------------- MODULE MCPlanning -----------------------------
(* What bake and build work out before anything is built: the expressions of *)
(* bake files, the targets to build, and the nodes that build them.  They    *)
(* are done one after the other and share no state, so a behaviour is one of *)
(* either while the others rest.                                             *)
EXTENDS Bake

VARIABLES part,    \* the component that runs
          deps, safe, matrix, order, pass, left, st,
          list, wanted, driverless, stage, asking, resume, nodes, reported, jobs, cache, calls

-----------------------------------------------------------------------------
\* Bake files with three targets and up to three groups.
Base == {Blank, [Blank EXCEPT !.network = <<"host">>, !.outputs = <<<<"base", "registry">>, <<"base", "image", "push">>>>],
         [Blank EXCEPT !.contexts = [dep |-> <<"target", "b">>], !.outputs = <<<<"base", "docker">>>>]}
A == {[Blank EXCEPT !.inherits = <<"base">>], [Blank EXCEPT !.inherits = <<"base", "b">>],
      [Blank EXCEPT !.contexts = [dep |-> <<"target", "b">>], !.platforms = <<{"amd64", "arm64"}>>,
                    !.outputs = <<<<"a", "image">>>>],
      [Blank EXCEPT !.contexts = [dep |-> <<"target", "b">>, other |-> <<"target", "base">>], !.filter = {"s0"}]}
B == {[Blank EXCEPT !.ents = {"insecure"}], [Blank EXCEPT !.inherits = <<"base">>, !.network = <<"none">>],
      [Blank EXCEPT !.contexts = [dep |-> <<"target", "a">>]], [Blank EXCEPT !.inherits = <<"a">>],
      [Blank EXCEPT !.platforms = <<{"amd64"}>>, !.contexts = [dep |-> <<"target", "base">>]],
      [Blank EXCEPT !.platforms = <<{"amd64", "riscv64"}>>]}
More == {<<>>, <<[name |-> "a", def |-> [Blank EXCEPT !.contexts = [dep |-> <<>>], !.outputs = <<<<"a", "local">>>>]]>>,
         <<[name |-> "b", def |-> [Blank EXCEPT !.contexts = [dep |-> <<"target", "zz">>]]]>>}

MCDefinitions ==
    {<<[name |-> "base", def |-> x], [name |-> "a", def |-> y], [name |-> "b", def |-> z]>> \o w :
        x \in Base, y \in A, z \in B, w \in More}
MCGroupLists ==
    {<<>>, <<[name |-> "default", targets |-> <<"g", "b">>], [name |-> "g", targets |-> <<>>]>>,
     <<[name |-> "default", targets |-> <<"a", "b">>]>>, <<[name |-> "a", targets |-> <<"a", "b">>]>>,
     <<[name |-> "default", targets |-> <<"g", "g">>], [name |-> "g", targets |-> <<"a", "h">>],
       [name |-> "h", targets |-> <<"b">>]>>,
     <<[name |-> "default", targets |-> <<"g", "b">>], [name |-> "g", targets |-> <<"base", "h">>],
       [name |-> "h", targets |-> <<"g">>]>>}
MCRequests == {<<"default">>, <<"a">>, <<"b", "a">>}
Set(p, k, v) == [pattern |-> p, key |-> k, val |-> v]
MCOverrideLists ==
    {<<>>, <<Set("*", "platform", "arm64")>>, <<Set("a", "push", "false"), Set("base", "network", "none")>>,
     <<Set("*", "push", "true"), Set("*", "load", "true")>>, <<Set("a", "output", "docker"), Set("*", "push", "true")>>,
     <<Set("a", "push", "false"), Set("a", "load", "true"), Set("b", "push", "false")>>,
     <<Set("b", "no-cache-filter", "s1"), Set("b", "push", "true")>>,
     <<Set("none", "push", "true")>>, <<Set("a", "entitlements", "insecure"), Set("base", "platform", "amd64")>>}

\* Expressions: two variables, a global attribute, a function and two blocks,
\* with one choice for each.
Val(n) == <<"v", n>>
Fun(n) == <<"f", n>>
Attr(b, f) == <<"b", b, f>>
Considered ==
    (Val("v1") :> {<<>>, <<Val("v2")>>, <<Fun("f"), Val("u")>>}) @@ (Val("v2") :> {<<>>, <<Val("v1")>>, <<Val("u")>>})
    @@ (Val("g") :> {<<Val("v1")>>, <<Attr("t", "a")>>, <<Val("item")>>})
    @@ (Fun("f") :> {<<>>, <<Val("v2")>>, <<Fun("f")>>, <<Attr("t", "a")>>})
    @@ (Attr("t", "a") :> {<<>>, <<Val("item"), Val("g")>>, <<Attr("s", "a")>>})
    @@ (Attr("t", "c") :> {<<Attr("t", "a")>>, <<Val("g")>>})
    @@ (Attr("s", "a") :> {<<Fun("f")>>, <<Attr("t", "c")>>, <<Val("item")>>}) @@ (Attr("s", "c") :> {<<>>})
    @@ (Attr("t", "matrix") :> {<<Val("v1")>>})
MCExprs == LET Extend(ds, x) == {(x :> e) @@ d : e \in Considered[x], d \in ds}
           IN  FoldLeft(Extend, {[x \in {} |-> <<>>]},
                        <<Val("v1"), Val("v2"), Val("g"), Fun("f"), Attr("t", "a"), Attr("t", "c"), Attr("s", "a"),
                          Attr("s", "c"), Attr("t", "matrix")>>)

\* Two nodes, and two targets that ask for up to two platforms.
MCNodeLists == {<<<<"amd64">>, <<"arm64">>>>, <<<<"armv8">>, <<"armv7">>>>, <<<<>>, <<"arm64", "amd64">>>>,
                <<<<"riscv64">>, <<"riscv64">>>>}
MCPlatforms == {<<>>, <<"amd64">>, <<"armv7", "amd64">>, <<"riscv64">>, <<"armv6", "armv7">>}
MCReports == {<<>>, <<"arm64">>, <<"amd64", "armv7">>}

H == INSTANCE HclParser WITH Vars <- {"v1", "v2"}, Attrs <- {"g"}, Funcs <- {"f"}, Blocks <- <<"t", "s">>, Exprs <- MCExprs
R == INSTANCE NodeResolver WITH
        Targets <- {"t1", "t2"}, NodeLists <- MCNodeLists, Requests <- MCPlatforms, Reports <- MCReports

-----------------------------------------------------------------------------
ofParser == <<deps, safe, matrix, order, pass, left, st>>
ofResolver == <<list, wanted, driverless, stage, asking, resume, nodes, reported, jobs, cache, calls>>
all == <<part, vars, ofParser, ofResolver>>

None == "none"
parserRests ==
    /\ deps = None /\ safe = None /\ matrix = None /\ order = None /\ pass = None /\ left = None /\ st = None
resolverRests ==
    /\ list = None /\ wanted = None /\ driverless = None /\ stage = None /\ asking = None /\ resume = None
    /\ nodes = None /\ reported = None /\ jobs = None /\ cache = None /\ calls = None
bakeRests ==
    /\ files = None /\ names = None /\ phase = None /\ c = None /\ o = None /\ next = None /\ m = None
    /\ groups = None /\ todo = None /\ mem = None

MCInit ==
    \/ part = "bake" /\ Init /\ parserRests /\ resolverRests
    \/ part = "parser" /\ bakeRests /\ H!Init /\ resolverRests
    \/ part = "resolver" /\ bakeRests /\ parserRests /\ R!Init

MCNext ==
    \/ part = "bake" /\ UNCHANGED <<part, ofParser, ofResolver>> /\ Next
    \/ part = "parser" /\ UNCHANGED <<part, vars, ofResolver>> /\ H!Next
    \/ part = "resolver" /\ UNCHANGED <<part, vars, ofParser>> /\ R!Next

MCSpec == MCInit /\ [][MCNext]_all

\* Parse succeeds only when nothing depends on itself, and reports a missing
\* value or a cycle only for a cause.
ErrorsExact == part = "parser" => H!ErrorsExact

\* Unless there are errors every expression is evaluated once, and all of them
\* when Parse succeeds.
EvaluatedOnce == part = "parser" => H!EvaluatedOnce

\* Every platform of a target is built once, by the node closest to it, in
\* whatever order the targets are resolved.
PlacedOnClosest == part = "resolver" => R!PlacedOnClosest

\* No node is booted, or asked for its capabilities, twice.
AskedOnce == part = "resolver" => R!AskedOnce
=============================================================================
