----------------------------- MODULE NodeGroup -----------------------------
(***************************************************************************)
(* The node group of a builder (store/nodegroup.go) and the names it is    *)
(* stored under (store/util.go), as operators on records.                  *)
(*                                                                         *)
(* A name is a record [base, idx, upper]: base is the spelling without its *)
(* case and without a trailing index, idx the trailing index (NoIdx when   *)
(* there is none), upper whether some letter is upper case.  "Foo0" is     *)
(* [base |-> "foo", idx |-> 0, upper |-> TRUE].                            *)
(***************************************************************************)
EXTENDS Integers, Sequences, FiniteSets

CONSTANTS Base,         \* the spellings of names, without their case
          Endpoint,     \* docker endpoints a node may be at
          Platform,     \* normalised platforms
          Driver,       \* driver names
          Setting       \* contents of a daemon config file, and of daemon flags

NoIdx == -1

Name == [base : Base, idx : Nat \cup {NoIdx}, upper : BOOLEAN]

(* The empty string: the option was not given.  It is not a valid name. *)
NoName == [base |-> "", idx |-> NoIdx, upper |-> FALSE]

ASSUME BaseAssumption == "" \notin Base

(* ValidateName accepts a name and returns it in lower case. *)
ValidName(nm) == nm.base # ""
Lower(nm) == [base |-> nm.base, idx |-> nm.idx, upper |-> FALSE]

(* A Go map or slice that may be nil, or allocated and empty, or hold a     *)
(* setting; "blank" is a files map whose contents are all empty.            *)
Slot == {"nil", "empty", "blank"} \cup Setting

Node == [name : Name, endpoint : Endpoint, platforms : SUBSET Platform,
         flags : Slot, files : Slot]

Group == [name : Name, driver : Driver, nodes : Seq(Node)]

withNodes(g, ns) == [g EXCEPT !.nodes = ns]
withPlatforms(n, ps) == [n EXCEPT !.platforms = ps]

NamesOf(g) == {g.nodes[i].name : i \in DOMAIN g.nodes}

-----------------------------------------------------------------------------
(* findNode: the index of the first node with this very name, 0 for none.   *)
findNode(g, nm) ==
    IF \E i \in DOMAIN g.nodes : g.nodes[i].name = nm
    THEN CHOOSE i \in DOMAIN g.nodes :
            /\ g.nodes[i].name = nm
            /\ \A j \in 1..(i - 1) : g.nodes[j].name # nm
    ELSE 0

(* nextNodeName: the builder's name with the first index no node is called. *)
nextNodeName(g) ==
    LET indexed(i) == [g.name EXCEPT !.idx = i]
        free(i)    == findNode(g, indexed(i)) = 0
    IN  indexed(CHOOSE i \in 0..Len(g.nodes) : free(i) /\ \A j \in 0..(i - 1) : ~free(j))

(* validateDuplicates: at most one node is at ep; the platforms of node idx *)
(* are taken away from every other node.                                    *)
uniqueEndpoint(g, ep) ==
    \A i, j \in DOMAIN g.nodes :
        g.nodes[i].endpoint = ep /\ g.nodes[j].endpoint = ep => i = j

keepPlatforms(g, idx) == g      \* mutant: the platforms are not filtered

filterPlatforms(g, idx) ==
    withNodes(g, [i \in DOMAIN g.nodes |->
        IF i = idx THEN g.nodes[i]
        ELSE withPlatforms(g.nodes[i],
                           g.nodes[i].platforms \ g.nodes[idx].platforms)])

Err == {"none", "node not found", "last node", "duplicate endpoint", "panic"}
Ok(g) == [err |-> "none", group |-> g]
Fail(e, g) == [err |-> e, group |-> g]

validateDuplicates(g, ep, idx) ==
    IF uniqueEndpoint(g, ep) THEN Ok(filterPlatforms(g, idx))
                             ELSE Fail("duplicate endpoint", g)

-----------------------------------------------------------------------------
(* The arguments of Update: node name or NoName, endpoint and whether the   *)
(* user set it, platforms, append flag, flags and config file ("nil": none).*)
UpdateArg == [node : Name \cup {NoName}, endpoint : Endpoint, set : BOOLEAN,
              platforms : SUBSET Platform, append : BOOLEAN,
              flags : {"nil"} \cup Setting, config : {"nil"} \cup Setting]

changedNode(n, a) ==
    [n EXCEPT !.endpoint  = IF a.set THEN a.endpoint ELSE @,
              !.platforms = IF a.platforms # {} THEN a.platforms ELSE @,
              !.flags     = IF a.flags # "nil" THEN a.flags ELSE @,
              !.files     = IF a.config # "nil" THEN a.config ELSE @]

changeNode(g, a, i) ==
    IF a.config # "nil" /\ g.nodes[i].files = "nil"
    THEN Fail("panic", g)
    ELSE validateDuplicates(
            withNodes(g, [g.nodes EXCEPT ![i] = changedNode(g.nodes[i], a)]),
            a.endpoint, i)

appendNode(g, a) ==
    LET nm == IF a.node = NoName THEN nextNodeName(g) ELSE a.node
        n  == [name |-> Lower(nm), endpoint |-> a.endpoint,
               platforms |-> a.platforms, flags |-> a.flags,
               files |-> a.config]
    IN  validateDuplicates(withNodes(g, Append(g.nodes, n)),
                           a.endpoint, Len(g.nodes) + 1)

Update(g, a) ==
    LET i == findNode(g, a.node)
    IN  CASE i # 0 -> changeNode(g, a, i)
          [] i = 0 /\ ~a.append /\ g.nodes # <<>> -> Fail("node not found", g)
          [] OTHER -> appendNode(g, a)

(* Leave removes the named node, unless it is the last one.                 *)
withoutNode(s, i) == SubSeq(s, 1, i - 1) \o SubSeq(s, i + 1, Len(s))

Leave(g, nm) ==
    LET i == findNode(g, nm)
    IN  CASE i = 0 -> Fail("node not found", g)
          [] i # 0 /\ Len(g.nodes) = 1 -> Fail("last node", g)
          [] OTHER -> Ok(withNodes(g, withoutNode(g.nodes, i)))

(* Copy.  Go's copy writes min(len(dst), len(src)) elements and every       *)
(* destination here is an empty slice: platforms, flags and the contents of *)
(* the files are not copied; nil maps and slices become empty ones.         *)
copyNode(n) ==
    [n EXCEPT !.platforms = {}, !.flags = "empty",
              !.files = IF @ \in {"nil", "empty"} THEN "empty" ELSE "blank"]

Copy(g) == withNodes(g, [i \in DOMAIN g.nodes |-> copyNode(g.nodes[i])])

-----------------------------------------------------------------------------
(* What a saved group must satisfy for a build to be routed to one node.    *)
UniqueEndpoints(g) ==
    \A i, j \in DOMAIN g.nodes :
        g.nodes[i].endpoint = g.nodes[j].endpoint => i = j

DisjointPlatforms(g) ==
    \A i, j \in DOMAIN g.nodes :
        i # j => g.nodes[i].platforms \cap g.nodes[j].platforms = {}

WellFormed(g) == UniqueEndpoints(g) /\ DisjointPlatforms(g)

UniqueNames(g) ==
    \A i, j \in DOMAIN g.nodes : g.nodes[i].name = g.nodes[j].name => i = j

=============================================================================
