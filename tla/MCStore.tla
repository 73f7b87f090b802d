------------------------------ MODULE MCStore ------------------------------
(* Small instances of Store: which create calls are made. *)
EXTENDS Store, TLC

(* Processes are interchangeable.                                           *)
Processes == Permutations(Proc)

nm(b, i, u) == [base |-> b, idx |-> i, upper |-> u]

upd(node, ep, set, pl, app, cfg) ==
    [node |-> node, endpoint |-> ep, set |-> set, platforms |-> pl,
     append |-> app, flags |-> "default", config |-> cfg]

create(name, u, use) ==
    [name |-> name, driver |-> "docker-container", update |-> u, use |-> use]

a == nm("a", NoIdx, FALSE)
b == nm("b", NoIdx, FALSE)
A == nm("a", NoIdx, TRUE)
SmallNames == {a, b}
OneName == {a}
UpperName == {A}

(* One node: the builders are created with one node, used and removed.      *)
OneNodeArgs ==
    {create(n, upd(NoName, "ep1", FALSE, {}, FALSE, "nil"), u) :
        n \in BuilderName, u \in BOOLEAN}

(* Nodes: the builder is created, a node is appended that may be at the     *)
(* same endpoint, and the first node takes over an endpoint and a platform. *)
NodeArgs ==
    {create(a, upd(NoName, "ep1", TRUE, {}, FALSE, "nil"), FALSE)}
    \cup {create(a, upd(NoName, ep, TRUE, Platform, TRUE, "nil"), FALSE) :
            ep \in Endpoint}
    \cup {create(a, upd(nm("a", 0, FALSE), "ep2", TRUE, Platform, FALSE, "nil"), FALSE)}

(* Upper case: builder A is created and a second node is appended to it.    *)
UpperArgs ==
    {create(A, upd(NoName, ep, TRUE, {}, app, "nil"), FALSE) :
        ep \in Endpoint, app \in BOOLEAN}

(* Config: builder a is created without, then changed with a config file.   *)
ConfigArgs ==
    {create(a, upd(NoName, "ep1", TRUE, {}, FALSE, c), FALSE) :
        c \in {"nil", "toml"}}
    \cup {create(a, upd(nm("a", 0, FALSE), "ep1", FALSE, {}, FALSE, "toml"), FALSE)}
=============================================================================
