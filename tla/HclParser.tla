------------------------------ MODULE HclParser ------------------------------
(***************************************************************************)
(* The evaluation of bake files (bake/hclparser/hclparser.go).  Nothing is *)
(* evaluated before what it refers to: loadDeps resolves the functions,    *)
(* values and attributes of blocks that an expression names, which load    *)
(* what they name, and so on.  What is under way is remembered, to find    *)
(* cycles, and what is done is kept.                                       *)
(*                                                                         *)
(* An expression is the sequence of its references: <<"f", function>>,     *)
(* <<"v", variable or global attribute>> or <<"b", block, attribute>>.  A  *)
(* block with a matrix is evaluated once in each of its contexts, where    *)
(* the variable `item' is defined; `st' holds the maps of the parser.      *)
(***************************************************************************)
EXTENDS Naturals, Sequences, FiniteSets, SequencesExt, Reachability

CONSTANTS
    Vars, Attrs,   \* variables and global attributes
    Funcs,
    Blocks,        \* the blocks in their order
    Exprs          \* for every thing with an expression, the expressions considered

Fields == {"a", "c"}

VARIABLES
    deps,     \* the expressions of values, of functions and of the fields of blocks
    safe,     \* values whose expression is guarded by try or can
    matrix,   \* blocks that have a matrix
    order,    \* the order in which the map of attributes of a block is visited
    pass,     \* "vars", "funcs", "names", "blocks", "attrs" or "done"
    left,     \* what is left of the pass
    st        \* the parser

vars == <<deps, safe, matrix, order, pass, left, st>>
input == <<deps, safe, matrix, order>>

Contexts(b) == IF b \in matrix THEN <<"m1", "m2">> ELSE <<"root">>
Local(ctx) == IF ctx = "root" THEN {} ELSE {"item"}

\* evals counts evaluations; err is "", "cycle", "undefined" (which loadDeps may
\* forgive), "missing" (an evaluation without the value of a reference); diags
\* holds the errors that the loop over the blocks collects.
Empty == [values |-> [n \in {} |-> ""], funcs |-> {}, progressV |-> {}, progressF |-> {}, progressB |-> {},
          doneB |-> {}, evals |-> [x \in {} |-> 0], err |-> "", diags |-> {}]

Count(s, x) == [s EXCEPT !.evals = (x :> IF x \in DOMAIN @ THEN @[x] + 1 ELSE 1) @@ @]

\* Expr.Value and decodeBody: whether the value of a reference is at hand.
Available(s, ctx, r) ==
    CASE r[1] = "f" -> r[2] \in s.funcs
      [] r[1] = "v" -> r[2] \in DOMAIN s.values \cup Local(ctx)
      [] OTHER -> \A i \in DOMAIN Contexts(r[2]) : <<r[2], Contexts(r[2])[i], r[3]>> \in s.doneB

Evaluate(s, ctx, x, expr, guarded) ==
    IF ~guarded /\ \E i \in DOMAIN expr : ~Available(s, ctx, expr[i]) THEN [s EXCEPT !.err = "missing"]
    ELSE Count(s, x)

\* A variable is evaluated in the context of the file, whoever refers to it.
ContextOf(ctx, name) == IF name \in Attrs THEN ctx ELSE "root"

\* The fields that resolveBlock decodes: what is wanted or, without a target,
\* what is not done at that time.
decodesAll(s, b, ctx, target) == \* mutant: also what has been done meanwhile
    IF target = <<>> THEN Fields ELSE target[1] \cap Fields
Body(s, b, ctx, target) ==
    (IF target = <<>> THEN Fields ELSE target[1] \cap Fields) \ {f \in Fields : <<b, ctx, f>> \in s.doneB}

doneAtEntry(s, b, ctx, fs) == \* mutant: what is under way counts as done
    [s EXCEPT !.progressB = @ \cup {<<b, ctx, f>> : f \in fs}, !.doneB = @ \cup {<<b, ctx, f>> : f \in fs}]
Enter(s, b, ctx, fs) == [s EXCEPT !.progressB = @ \cup {<<b, ctx, f>> : f \in fs}]

\* What comes next, unless there was an error.
Then(s, F(_)) == IF s.err # "" THEN s ELSE F(s)

RECURSIVE loadDeps(_, _, _, _), resolveFunction(_, _, _), resolveValue(_, _, _), resolveBlock(_, _, _)

\* The functions of an expression come before its other references.  Blocks are
\* known once their names are; before that, the word target is a name like any
\* other.  allowMissing: an undefined reference is left to the evaluation.
loadDeps(s, ctx, expr, allowMissing) ==
    LET Forgive(next) == IF next.err # "undefined" THEN next
                         ELSE [next EXCEPT !.err = IF allowMissing THEN "" ELSE "missing"]
        Load(acc, r) ==
            Then(acc, LAMBDA a : Forgive(
                CASE r[1] = "f" -> resolveFunction(a, ctx, r[2])
                  [] r[1] = "v" \/ pass \in {"vars", "funcs"} ->
                        resolveValue(a, ctx, IF r[1] = "v" THEN r[2] ELSE "target")
                  [] pass = "names" -> a
                  [] OTHER -> resolveBlock(a, r[2], <<{r[3]}>>)))
    IN  FoldLeft(Load, s, expr)

resolveFunction(s, ctx, name) ==
    IF name \in s.funcs THEN s
    ELSE IF name \notin Funcs THEN [s EXCEPT !.err = "undefined"]
    ELSE IF <<ctx, name>> \in s.progressF THEN [s EXCEPT !.err = "cycle"]
    ELSE Then(loadDeps([s EXCEPT !.progressF = @ \cup {<<ctx, name>>}], "root", deps[<<"f", name>>], FALSE),
              LAMBDA loaded : Count([loaded EXCEPT !.funcs = @ \cup {name}], <<"f", name>>))

resolveValue(s, ctx, name) ==
    LET under == [s EXCEPT !.progressV = @ \cup {<<ctx, name>>}]
        at == ContextOf(ctx, name)
        expr == deps[<<"v", name>>]
        Eval(loaded) == Evaluate(loaded, at, <<"v", name>>, expr, name \in safe)
        Keep(done) == [done EXCEPT !.values = (name :> at) @@ @]
    IN  IF name \in DOMAIN s.values \cup Local(ctx) THEN s
        ELSE IF <<ctx, name>> \in s.progressV THEN [s EXCEPT !.err = "cycle"]
        ELSE IF name \notin Vars \cup Attrs THEN [under EXCEPT !.err = "undefined"]
        ELSE Then(Then(loadDeps(under, at, expr, TRUE), Eval), Keep)

\* The target is <<>> or <<set of fields>>.  With nothing left to do in a
\* context the function returns, whatever the contexts after it.
resolveBlock(s, b, target) ==
    LET InContext(acc, ctx) ==
            LET wanted == Body(acc.s, b, ctx, target)
                marked == {<<b, ctx, f>> : f \in wanted}
                entered == IF target = <<>> THEN acc.s ELSE Enter(acc.s, b, ctx, wanted)
                Load(x, f) == Then(x, LAMBDA y : loadDeps(y, ctx, deps[<<"b", b, f>>], TRUE))
                Eval(x, f) == Then(x, LAMBDA y : Evaluate(y, ctx, <<"b", b, ctx, f>>, deps[<<"b", b, f>>], FALSE))
                Decode(loaded) ==
                    LET now == IF target = <<>> THEN Body(loaded, b, ctx, target) ELSE wanted
                    IN  FoldLeft(Eval, loaded, SelectSeq(order, LAMBDA f : f \in now))
                Mark(decoded) == [decoded EXCEPT !.doneB = @ \cup marked]
            IN  IF acc.stop \/ acc.s.err # "" THEN acc
                ELSE IF target # <<>> /\ wanted = {} THEN [acc EXCEPT !.stop = TRUE]
                ELSE IF target # <<>> /\ marked \cap acc.s.progressB # {} THEN [acc EXCEPT !.s.err = "cycle"]
                ELSE [acc EXCEPT !.s = Then(Then(FoldLeft(Load, entered, SelectSeq(order, LAMBDA f : f \in wanted)),
                                                 Decode), Mark)]
    IN  FoldLeft(InContext, [s |-> s, stop |-> FALSE], Contexts(b)).s

-----------------------------------------------------------------------------
Init ==
    /\ deps \in Exprs /\ safe \in {{}, Vars} /\ matrix \in {{}, {Blocks[1]}}
    /\ order \in {<<"a", "c">>, <<"c", "a">>}
    /\ pass = "vars" /\ left = Vars /\ st = Empty

\* The loops over the maps of variables, functions and global attributes.
ResolveVar(v) ==
    /\ pass = "vars" /\ v \in left /\ st.err = ""
    /\ st' = resolveValue(st, "root", v) /\ left' = left \ {v}
    /\ UNCHANGED <<input, pass>>

ResolveFunc(f) ==
    /\ pass = "funcs" /\ f \in left /\ st.err = ""
    /\ st' = resolveFunction(st, "root", f) /\ left' = left \ {f}
    /\ UNCHANGED <<input, pass>>

\* The names of the blocks, for which a matrix is evaluated.
GetEvalContexts(s, b) ==
    LET expr == deps[<<"b", b, "matrix">>]
        Eval(loaded) == Evaluate(loaded, "root", <<"b", b, "matrix">>, expr, FALSE)
    IN  IF b \notin matrix \/ s.err # "" THEN s ELSE Then(loadDeps(s, "root", expr, TRUE), Eval)

ResolveNames ==
    /\ pass = "names" /\ st.err = ""
    /\ st' = FoldLeft(GetEvalContexts, st, Blocks)
    /\ pass' = "blocks"
    /\ UNCHANGED <<input, left>>

\* The errors of a block are collected, and the blocks after it resolved.
ResolveBlocks ==
    /\ pass = "blocks" /\ st.err = ""
    /\ LET Diagnose(r) == [r EXCEPT !.err = "", !.diags = @ \cup ({r.err} \ {""})]
           Collect(s, b) == Diagnose(resolveBlock(s, b, <<>>))
           Report(all) == [all EXCEPT !.err = IF all.diags = {} THEN "" ELSE "diags"]
       IN  st' = Report(FoldLeft(Collect, st, Blocks))
    /\ pass' = "attrs" /\ left' = Attrs
    /\ UNCHANGED input

ResolveAttr(a) ==
    /\ pass = "attrs" /\ a \in left /\ st.err = ""
    /\ st' = resolveValue(st, "root", a) /\ left' = left \ {a}
    /\ UNCHANGED <<input, pass>>

NextPhase ==
    /\ left = {} /\ st.err = ""
    /\ \/ pass = "vars" /\ pass' = "funcs" /\ left' = Funcs
       \/ pass = "funcs" /\ pass' = "names" /\ left' = {}
       \/ pass = "attrs" /\ pass' = "done" /\ left' = {}
    /\ UNCHANGED <<input, st>>

Next ==
    \/ \E v \in Vars : ResolveVar(v)
    \/ \E f \in Funcs : ResolveFunc(f)
    \/ \E a \in Attrs : ResolveAttr(a)
    \/ ResolveNames \/ ResolveBlocks \/ NextPhase

Spec == Init /\ [][Next]_vars

-----------------------------------------------------------------------------
\* The references, with a block taken as one in all its contexts; expressions
\* that name something that is not defined, as blocks are for a function.
RefersTo == [x \in {y \in DOMAIN deps : y[1] = "b" /\ y[3] = "matrix" => y[2] \in matrix} |-> ToSet(deps[x])]
Dangling == {x \in DOMAIN RefersTo : \E r \in RefersTo[x] :
                IF r[1] = "v" THEN r[2] \notin Vars \cup Attrs ELSE r[1] = "b" /\ x[1] = "f"}

\* Parse succeeds only when nothing depends on itself, and fails only for a
\* cause, in whatever order the maps are visited.  A value is missing when an
\* expression is evaluated only if the file names something undefined; a cycle
\* is reported only if there is one, or if something undefined is resolved
\* twice: the first attempt counts as under way for ever.
ErrorsExact ==
    LET cyclic == \E x \in DOMAIN RefersTo : Cyclic(x, RefersTo)
        reports == st.diags \cup {st.err}
    IN  /\ pass = "done" => ~cyclic
        /\ "missing" \in reports => Dangling # {}
        /\ "cycle" \in reports => Dangling # {} \/ cyclic

\* Unless there are errors every expression is evaluated once, and all of them
\* when Parse succeeds, although a field may be resolved while its whole block is.
EvaluatedOnce ==
    /\ st.err = "" => \A x \in DOMAIN st.evals : st.evals[x] = 1
    /\ pass = "done" =>
           DOMAIN st.evals = {<<"v", n>> : n \in Vars \cup Attrs} \cup {<<"f", n>> : n \in Funcs}
                             \cup {<<"b", b, "matrix">> : b \in matrix}
                             \cup UNION {{<<"b", b, ctx, f>> : ctx \in ToSet(Contexts(b)), f \in Fields} : b \in ToSet(Blocks)}
=============================================================================
