---------------------------- MODULE StoreProofs -----------------------------
(***************************************************************************)
(* What the operators of NodeGroup return and preserve, for every set of   *)
(* endpoints, platforms and names and for groups of any length.  With that,*)
(* create and leave keep the invariant of the store as well, so every state*)
(* has it: well-formed groups under their own names, writes covered by the *)
(* lock, refs with a builder, a default that agrees with the selection; and*)
(* no command overwrites a group it has not seen.                          *)
(***************************************************************************)
EXTENDS StoreWritesProofs, WellFoundedInduction

(* A set of naturals that is not empty has a least element.                 *)
LEMMA Least ==
    ASSUME NEW S, S \subseteq Nat, S # {}
    PROVE  \E i \in S : \A j \in S : i =< j
<1> DEFINE R == OpToRel(<, Nat)
<1>1. IsWellFoundedOn(R, Nat)
  BY NatLessThanWellFounded, Zenon
<1>2. \A x, y \in Nat : y < x => <<y, x>> \in R
  BY Zenon DEF OpToRel
<1> HIDE DEF R
<1>3. PICK x \in S : \A y \in S : ~(<<y, x>> \in R)
  BY <1>1, WFMin, Zenon
<1>4. \A y \in S : ~(y < x)
  BY <1>2, <1>3, Zenon
<1> QED BY <1>4

(* findNode returns 0 or the index of a node of that name.                  *)
LEMMA FindNode ==
    ASSUME NEW g \in Group, NEW nm
    PROVE  /\ findNode(g, nm) \in {0} \cup DOMAIN g.nodes
           /\ findNode(g, nm) # 0 => g.nodes[findNode(g, nm)].name = nm
           /\ findNode(g, nm) = 0 => \A i \in DOMAIN g.nodes : g.nodes[i].name # nm
<1> DEFINE S == {i \in DOMAIN g.nodes : g.nodes[i].name = nm}
<1>0. DOMAIN g.nodes = 1..Len(g.nodes) /\ Len(g.nodes) \in Nat
  BY DEF Group
<1>1. CASE S = {}
  BY <1>1, Zenon DEF findNode
<1>2. CASE S # {}
  <2>0. S \subseteq Nat
    BY <1>0
  <2>1. PICK i \in S : \A j \in S : i =< j
    <3> HIDE DEF S
    <3> QED BY <2>0, <1>2, Least, Zenon
  <2>2. \A j \in 1..(i - 1) : g.nodes[j].name # nm
    BY <1>0, <2>1
  <2> DEFINE first(k) == /\ g.nodes[k].name = nm
                         /\ \A j \in 1..(k - 1) : g.nodes[j].name # nm
  <2>3. findNode(g, nm) = CHOOSE k \in DOMAIN g.nodes : first(k)
    BY <2>1, Zenon DEF findNode
  <2>4. i \in DOMAIN g.nodes /\ first(i)
    BY <2>1, <2>2, Zenon
  <2>5. findNode(g, nm) \in DOMAIN g.nodes /\ first(findNode(g, nm))
    <3> HIDE DEF first
    <3> QED BY <2>3, <2>4, Zenon
  <2> QED BY <1>0, <2>5
<1> QED BY <1>1, <1>2, Zenon

(* n + 1 indices cannot be sent to n places without a clash.                *)
LEMMA Clash ==
    ASSUME NEW n \in Nat, NEW f \in [0..n -> 1..n]
    PROVE  \E x, y \in 0..n : x # y /\ f[x] = f[y]
<1> DEFINE OneToOne(g, m) == \A x, y \in 0..m : g[x] = g[y] => x = y
           Bad == {m \in Nat : \E g \in [0..m -> 1..m] : OneToOne(g, m)}
<1> SUFFICES ASSUME OneToOne(f, n) PROVE FALSE
  BY Zenon
<1>1. Bad \subseteq Nat /\ Bad # {}
  BY Zenon
<1>2. PICK m \in Bad : \A k \in Bad : m =< k
  <2> HIDE DEF Bad
  <2> QED BY <1>1, Least, Zenon
<1>3. PICK g \in [0..m -> 1..m] : OneToOne(g, m)
  BY Zenon
<1>4. m \in Nat /\ m # 0
  <2>1. g[0] \in 1..m
    OBVIOUS
  <2> QED BY <2>1
<1> HIDE DEF Bad
<1> DEFINE h == [x \in 0..(m - 1) |-> IF g[x] = m THEN g[m] ELSE g[x]]
<1>5. ASSUME NEW x \in 0..(m - 1)
      PROVE  x \in 0..m /\ g[x] \in 1..m /\ g[m] \in 1..m /\ g[x] # g[m]
  <2>1. x \in 0..m /\ m \in 0..m /\ x # m
    BY <1>4
  <2> QED BY <1>3, <2>1, Zenon
<1>6. ASSUME NEW x \in 0..(m - 1)
      PROVE  h[x] \in 1..(m - 1) /\ h[x] = IF g[x] = m THEN g[m] ELSE g[x]
  <2>1. h[x] = IF g[x] = m THEN g[m] ELSE g[x]
    BY Zenon
  <2>2. g[x] \in 1..m /\ g[m] \in 1..m /\ g[x] # g[m]
    BY <1>5, Zenon
  <2> HIDE DEF h, OneToOne
  <2>3. h[x] \in 1..m /\ h[x] # m
    BY <2>1, <2>2, Zenon
  <2>4. ASSUME NEW y \in 1..m, y # m PROVE y \in 1..(m - 1)
    BY <1>4, <2>4
  <2> QED BY <2>1, <2>3, <2>4, Zenon
<1>7. \A x, y \in 0..(m - 1) : h[x] = h[y] => x = y
  <2> SUFFICES ASSUME NEW x \in 0..(m - 1), NEW y \in 0..(m - 1), h[x] = h[y] PROVE x = y
    BY Zenon
  <2>1. /\ h[x] = IF g[x] = m THEN g[m] ELSE g[x]
        /\ h[y] = IF g[y] = m THEN g[m] ELSE g[y]
        /\ g[x] # g[m] /\ g[y] # g[m] /\ x \in 0..m /\ y \in 0..m
    BY <1>5, <1>6, Zenon
  <2>2. g[x] = g[y]
    <3> HIDE DEF h
    <3> QED BY <2>1, Zenon
  <2> QED BY <1>3, <2>1, <2>2, Zenon
<1>8. h \in [0..(m - 1) -> 1..(m - 1)]
  <2>1. h = [x \in 0..(m - 1) |-> h[x]]
    BY Zenon
  <2> HIDE DEF h
  <2> QED BY <1>6, <2>1, Zenon
<1>9. m - 1 \in Bad
  <2> HIDE DEF h
  <2>1. m - 1 \in Nat
    BY <1>4
  <2> QED BY <1>7, <1>8, <2>1, Zenon DEF Bad
<1> QED BY <1>2, <1>4, <1>9

(* nextNodeName finds an index: of Len + 1 indices one is not in use.       *)
LEMMA NextNodeName ==
    ASSUME NEW g \in Group
    PROVE  /\ nextNodeName(g) \in Name
           /\ \A i \in DOMAIN g.nodes : g.nodes[i].name # nextNodeName(g)
<1> DEFINE indexed(i) == [g.name EXCEPT !.idx = i]
           free(i)    == findNode(g, indexed(i)) = 0
           n == Len(g.nodes)
<1>1. n \in Nat /\ DOMAIN g.nodes = 1..n
  BY DEF Group
<1>2. \A i, j \in 0..n : indexed(i) = indexed(j) => i = j
  BY Zenon DEF Group, Name
<1>3. \E k \in 0..n : free(k)
  <2> SUFFICES ASSUME \A k \in 0..n : ~free(k) PROVE FALSE
    BY Zenon
  <2> DEFINE f == [k \in 0..n |-> findNode(g, indexed(k))]
  <2>1. f \in [0..n -> 1..n]
    BY <1>1, FindNode, Zenon
  <2>2. \A k \in 0..n : g.nodes[f[k]].name = indexed(k)
    BY FindNode, Zenon
  <2>3. \A x, y \in 0..n : f[x] = f[y] => x = y
    <3> SUFFICES ASSUME NEW x \in 0..n, NEW y \in 0..n, f[x] = f[y] PROVE x = y
      BY Zenon
    <3> HIDE DEF f, indexed, n
    <3>1. indexed(x) = indexed(y)
      BY <2>2, Zenon
    <3> QED BY <1>2, <3>1, Zenon
  <2>4. n \in Nat
    BY <1>1, Zenon
  <2> HIDE DEF f, n
  <2> QED BY <2>1, <2>3, <2>4, Clash, Zenon
<1>4. \E k \in 0..n : free(k) /\ \A j \in 0..(k - 1) : ~free(j)
  <2> DEFINE S == {i \in 0..n : free(i)}
  <2>1. S \subseteq Nat /\ S # {}
    BY <1>1, <1>3
  <2>2. PICK i \in S : \A j \in S : i =< j
    <3> HIDE DEF S
    <3> QED BY <2>1, Least, Zenon
  <2>3. \A j \in 0..(i - 1) : j \in 0..n /\ ~(i =< j)
    BY <1>1, <2>2
  <2>4. \A j \in 0..(i - 1) : ~free(j)
    BY <2>2, <2>3, Zenon
  <2> QED BY <2>2, <2>4, Zenon
<1> DEFINE c == CHOOSE k \in 0..n : free(k) /\ \A j \in 0..(k - 1) : ~free(j)
<1>5. c \in 0..n /\ free(c)
  <2> HIDE DEF free
  <2> QED BY <1>4, Zenon
<1>6. nextNodeName(g) = indexed(c)
  BY Zenon DEF nextNodeName
<1>7. indexed(c) \in Name
  <2>1. g.name \in Name /\ c \in Nat
    BY <1>1, <1>5 DEF Group
  <2> HIDE DEF c
  <2> QED BY <2>1, Zenon DEF Name
<1>8. \A i \in DOMAIN g.nodes : g.nodes[i].name # indexed(c)
  BY <1>5, FindNode, Zenon
<1> QED BY <1>6, <1>7, <1>8, Zenon

LEMMA GroupNodes ==
    ASSUME NEW g \in Group
    PROVE  /\ g.nodes \in Seq(Node) /\ Len(g.nodes) \in Nat
           /\ DOMAIN g.nodes = 1..Len(g.nodes)
           /\ \A j \in DOMAIN g.nodes : g.nodes[j] \in Node
           /\ \A j \in DOMAIN g.nodes : g.nodes[j].platforms \subseteq Platform
<1>1. g.nodes \in Seq(Node)
  BY Zenon DEF Group
<1>2. \A n \in Node : n.platforms \subseteq Platform
  BY Zenon DEF Node
<1> QED BY <1>1, <1>2

(* Replacing the nodes of a group, or the platforms of a node.              *)
LEMMA WithNodes ==
    ASSUME NEW g \in Group, NEW ns
    PROVE  /\ withNodes(g, ns) = [name |-> g.name, driver |-> g.driver, nodes |-> ns]
           /\ ns \in Seq(Node) => withNodes(g, ns) \in Group
BY DEF withNodes, Group

LEMMA WithPlatforms ==
    ASSUME NEW n \in Node, NEW ps
    PROVE  /\ withPlatforms(n, ps).endpoint = n.endpoint
           /\ withPlatforms(n, ps).name = n.name
           /\ withPlatforms(n, ps).platforms = ps
           /\ ps \subseteq Platform => withPlatforms(n, ps) \in Node
BY Zenon DEF withPlatforms, Node

(* filterPlatforms keeps the nodes and their endpoints, and takes the       *)
(* platforms of node i away from the others.                                *)
Filtered(g, i, h) ==
    /\ h \in Group /\ h.name = g.name
    /\ DOMAIN h.nodes = DOMAIN g.nodes
    /\ \A j \in DOMAIN g.nodes :
          /\ h.nodes[j].endpoint = g.nodes[j].endpoint
          /\ h.nodes[j].platforms =
                IF j = i THEN g.nodes[j].platforms
                ELSE g.nodes[j].platforms \ g.nodes[i].platforms

LEMMA FilterPlatforms ==
    ASSUME NEW g \in Group, NEW i \in DOMAIN g.nodes
    PROVE  Filtered(g, i, filterPlatforms(g, i))
<1>0. PICK h : h = filterPlatforms(g, i)
  BY Zenon
<1> DEFINE less(j) == withPlatforms(g.nodes[j],
                                    g.nodes[j].platforms \ g.nodes[i].platforms)
           ns == [j \in DOMAIN g.nodes |-> IF j = i THEN g.nodes[j] ELSE less(j)]
<1>1. /\ g.nodes \in Seq(Node) /\ \A j \in DOMAIN g.nodes : g.nodes[j] \in Node
      /\ \A j \in DOMAIN g.nodes : g.nodes[j].platforms \subseteq Platform
  BY GroupNodes, Zenon
<1>2. h = withNodes(g, ns)
  BY <1>0, Zenon DEF filterPlatforms
<1>3. \A j \in DOMAIN g.nodes :
         /\ less(j) \in Node /\ less(j).endpoint = g.nodes[j].endpoint
         /\ less(j).platforms = g.nodes[j].platforms \ g.nodes[i].platforms
  BY <1>1, WithPlatforms, Zenon
<1> HIDE DEF less
<1>4. ns \in Seq(Node) /\ DOMAIN ns = DOMAIN g.nodes
  BY <1>1, <1>3
<1>5. h \in Group /\ h.nodes = ns /\ h.name = g.name
  <2> HIDE DEF ns
  <2> QED BY <1>2, <1>4, WithNodes
<1> QED BY <1>0, <1>3, <1>4, <1>5, Zenon DEF Filtered

(* Two nodes of g other than node i do not clash.                           *)
OthersWellFormed(g, i) ==
    \A j, k \in DOMAIN g.nodes : j # k /\ j # i /\ k # i =>
        /\ g.nodes[j].endpoint # g.nodes[k].endpoint
        /\ g.nodes[j].platforms \cap g.nodes[k].platforms = {}

OwnEndpoint(g, i) ==
    \A j \in DOMAIN g.nodes : j # i => g.nodes[j].endpoint # g.nodes[i].endpoint

LEMMA ValidateDuplicatesType ==
    ASSUME NEW g \in Group, NEW i \in DOMAIN g.nodes, NEW ep
    PROVE  LET r == validateDuplicates(g, ep, i)
           IN  r.err \in Err /\ r.group \in Group /\ r.group.name = g.name
<1>1. /\ validateDuplicates(g, ep, i).group \in {g, filterPlatforms(g, i)}
      /\ validateDuplicates(g, ep, i).err \in Err
  BY Zenon DEF validateDuplicates, Ok, Fail, Err
<1> QED BY <1>1, FilterPlatforms DEF Filtered

(* validateDuplicates, called with the index and the endpoint of the node   *)
(* that was just added or changed, makes the group well formed if the other *)
(* nodes were.                                                              *)
LEMMA ValidateDuplicates ==
    ASSUME NEW g \in Group, NEW i \in DOMAIN g.nodes, NEW ep,
           OthersWellFormed(g, i),
           g.nodes[i].endpoint = ep \/ OwnEndpoint(g, i),
           NEW r, r = validateDuplicates(g, ep, i)
    PROVE  r.err = "none" => WellFormed(r.group)
<1>1. CASE ~uniqueEndpoint(g, ep)
  BY <1>1, Zenon DEF validateDuplicates, Fail
<1>2. CASE uniqueEndpoint(g, ep)
  <2>1. PICK h : h = filterPlatforms(g, i)
    BY Zenon
  <2>2. r.err = "none" /\ r.group = h
    BY <1>2, <2>1, Zenon DEF validateDuplicates, Ok
  <2>3. Filtered(g, i, h)
    BY <2>1, FilterPlatforms, Zenon
  <2>4. OwnEndpoint(g, i)
    BY <1>2, Zenon DEF uniqueEndpoint, OwnEndpoint
  <2>5. UniqueEndpoints(h)
    <3> SUFFICES ASSUME NEW j \in DOMAIN g.nodes, NEW k \in DOMAIN g.nodes, j # k
                 PROVE  g.nodes[j].endpoint # g.nodes[k].endpoint
      BY <2>3, Zenon DEF UniqueEndpoints, Filtered
    <3> QED BY <2>4, Zenon DEF OthersWellFormed, OwnEndpoint
  <2>6. DisjointPlatforms(h)
    <3> SUFFICES ASSUME NEW j \in DOMAIN g.nodes, NEW k \in DOMAIN g.nodes, j # k
                 PROVE  h.nodes[j].platforms \cap h.nodes[k].platforms = {}
      BY <2>3, Zenon DEF DisjointPlatforms, Filtered
    <3>1. CASE j = i \/ k = i
      BY <2>3, <3>1, Zenon DEF Filtered
    <3>2. CASE j # i /\ k # i
      <4>1. g.nodes[j].platforms \cap g.nodes[k].platforms = {}
        BY <3>2, Zenon DEF OthersWellFormed
      <4> QED BY <2>3, <3>2, <4>1, Zenon DEF Filtered
    <3> QED BY <3>1, <3>2, Zenon
  <2> QED BY <2>2, <2>3, <2>5, <2>6, Zenon DEF WellFormed, Filtered
<1> QED BY <1>1, <1>2, Zenon

(* The two forms of a result.                                               *)
LEMMA FailFields == \A e, g : Fail(e, g).err = e /\ Fail(e, g).group = g
BY Zenon DEF Fail

(* A node that is changed stays a node, at its endpoint or at the new one.  *)
LEMMA ChangedNode ==
    ASSUME NEW n \in Node, NEW a \in UpdateArg
    PROVE  /\ changedNode(n, a) \in Node
           /\ changedNode(n, a).endpoint = IF a.set THEN a.endpoint ELSE n.endpoint
BY Zenon DEF changedNode, Node, UpdateArg, Slot

(* Update keeps a well-formed group well formed, or fails; whatever it      *)
(* returns is a group under the same name.                                  *)
LEMMA UpdateWellFormed ==
    ASSUME NEW g \in Group, NEW a \in UpdateArg, NEW r, r = Update(g, a)
    PROVE  /\ r.err \in Err /\ r.group \in Group /\ r.group.name = g.name
           /\ r.err = "none" /\ WellFormed(g) => WellFormed(r.group)
<1> DEFINE i == findNode(g, a.node)
<1>1. i \in {0} \cup DOMAIN g.nodes
  BY FindNode, Zenon
<1>2. CASE i # 0
  <2>1. r = changeNode(g, a, i)
    BY <1>2, Zenon DEF Update
  <2>2. CASE a.config # "nil" /\ g.nodes[i].files = "nil"
    <3>1. r = Fail("panic", g)
      BY <2>1, <2>2, Zenon DEF changeNode
    <3>2. r.err = "panic" /\ r.group = g
      BY <3>1, FailFields, Zenon
    <3> QED BY <3>2, Zenon DEF Err
  <2>3. CASE ~(a.config # "nil" /\ g.nodes[i].files = "nil")
    <3> HIDE DEF i
    <3> DEFINE n  == changedNode(g.nodes[i], a)
               ns == [g.nodes EXCEPT ![i] = n]
    <3>1. i \in DOMAIN g.nodes /\ g.nodes[i] \in Node
      BY <1>1, <1>2, GroupNodes, Zenon
    <3>2. n \in Node /\ n.endpoint = IF a.set THEN a.endpoint ELSE g.nodes[i].endpoint
      BY <3>1, ChangedNode, Zenon
    <3>3. PICK h : h = withNodes(g, ns)
      BY Zenon
    <3>4. r = validateDuplicates(h, a.endpoint, i)
      BY <2>1, <2>3, <3>3, Zenon DEF changeNode
    <3> HIDE DEF n
    <3>5. /\ ns \in Seq(Node) /\ DOMAIN ns = DOMAIN g.nodes /\ ns[i] = n
          /\ \A j \in DOMAIN g.nodes : j # i => ns[j] = g.nodes[j]
      BY <3>1, <3>2, GroupNodes
    <3> HIDE DEF ns
    <3>6. h \in Group /\ h.name = g.name /\ h.nodes = ns
      BY <3>3, <3>5, WithNodes
    <3>7. ASSUME WellFormed(g)
          PROVE  OthersWellFormed(h, i) /\ (h.nodes[i].endpoint = a.endpoint \/ OwnEndpoint(h, i))
      BY <3>1, <3>2, <3>5, <3>6, <3>7
         DEF WellFormed, UniqueEndpoints, DisjointPlatforms, OthersWellFormed, OwnEndpoint
    <3>8. r.err \in Err /\ r.group \in Group /\ r.group.name = g.name
      BY <3>1, <3>4, <3>5, <3>6, ValidateDuplicatesType
    <3> QED BY <3>1, <3>4, <3>5, <3>6, <3>7, <3>8, ValidateDuplicates, Zenon
  <2> QED BY <2>2, <2>3, Zenon
<1>3. CASE i = 0 /\ ~a.append /\ g.nodes # <<>>
  <2>1. r.err = "node not found" /\ r.group = g
    BY <1>3, Zenon DEF Update, Fail
  <2> QED BY <2>1, Zenon DEF Err
<1>4. CASE i = 0 /\ ~(~a.append /\ g.nodes # <<>>)
  <2> DEFINE nm == IF a.node = NoName THEN nextNodeName(g) ELSE a.node
             n  == [name |-> Lower(nm), endpoint |-> a.endpoint,
                    platforms |-> a.platforms, flags |-> a.flags,
                    files |-> a.config]
             ns == Append(g.nodes, n)
             k  == Len(g.nodes) + 1
  <2>1. r = appendNode(g, a)
    BY <1>4, Zenon DEF Update
  <2>2. PICK h : h = withNodes(g, ns)
    BY Zenon
  <2>3. r = validateDuplicates(h, a.endpoint, k)
    BY <2>1, <2>2, Zenon DEF appendNode
  <2>4. nm \in Name
    BY NextNodeName, Zenon DEF UpdateArg
  <2>5. n \in Node /\ n.endpoint = a.endpoint
    <3> HIDE DEF nm
    <3>1. Lower(nm) \in Name
      BY <2>4, Zenon DEF Lower, Name
    <3> QED BY <3>1, Zenon DEF Node, UpdateArg, Slot
  <2> HIDE DEF n
  <2>6. /\ ns \in Seq(Node) /\ DOMAIN ns = 1..k /\ ns[k] = n
        /\ \A j \in 1..k : j # k => j \in DOMAIN g.nodes /\ ns[j] = g.nodes[j]
    BY <2>5, GroupNodes
  <2>7. k \in 1..k
    BY GroupNodes
  <2> HIDE DEF ns, k
  <2>8. h \in Group /\ h.name = g.name /\ h.nodes = ns
    BY <2>2, <2>6, WithNodes
  <2>9. ASSUME WellFormed(g)
        PROVE  OthersWellFormed(h, k) /\ h.nodes[k].endpoint = a.endpoint
    BY <2>5, <2>6, <2>8, <2>9
       DEF WellFormed, UniqueEndpoints, DisjointPlatforms, OthersWellFormed
  <2>10. k \in DOMAIN h.nodes
    BY <2>6, <2>7, <2>8, Zenon
  <2>11. r.err \in Err /\ r.group \in Group /\ r.group.name = h.name
    <3> HIDE DEF nm, i
    <3> QED BY <2>3, <2>8, <2>10, ValidateDuplicatesType
  <2> QED BY <2>3, <2>8, <2>9, <2>10, <2>11, ValidateDuplicates, Zenon
<1> QED BY <1>2, <1>3, <1>4, Zenon

(* Leave only takes a node away.                                            *)
LEMMA LeaveWellFormed ==
    ASSUME NEW g \in Group, NEW nm, NEW r, r = Leave(g, nm), r.err = "none"
    PROVE  /\ r.group \in Group /\ r.group.name = g.name
           /\ WellFormed(g) => WellFormed(r.group)
<1> DEFINE i == findNode(g, nm)
           ns == withoutNode(g.nodes, i)
           n == Len(g.nodes)
<1>1. i \in DOMAIN g.nodes /\ r = Ok(withNodes(g, ns))
  <2>1. CASE i = 0
    BY <2>1, Zenon DEF Leave, Fail
  <2>2. CASE i # 0 /\ Len(g.nodes) = 1
    BY <2>2, Zenon DEF Leave, Fail
  <2>3. CASE i # 0 /\ Len(g.nodes) # 1
    BY <2>3, FindNode, Zenon DEF Leave
  <2> QED BY <2>1, <2>2, <2>3, Zenon
<1> HIDE DEF i
<1>2. /\ g.nodes \in Seq(Node) /\ n \in Nat /\ i \in 1..n /\ DOMAIN g.nodes = 1..n
      /\ \A j \in 1..n : g.nodes[j] \in Node
  BY <1>1, GroupNodes, Zenon
<1> DEFINE s == SubSeq(g.nodes, 1, i - 1)
           t == SubSeq(g.nodes, i + 1, n)
<1>3. /\ s \in Seq(Node) /\ Len(s) = i - 1 /\ \A j \in 1..(i - 1) : s[j] = g.nodes[j]
      /\ t \in Seq(Node) /\ Len(t) = n - i /\ \A j \in 1..(n - i) : t[j] = g.nodes[i + j]
  <2>1. ASSUME NEW q \in Seq(Node), NEW k \in 1..Len(q)
        PROVE  /\ SubSeq(q, 1, k - 1) \in Seq(Node) /\ Len(SubSeq(q, 1, k - 1)) = k - 1
               /\ \A j \in 1..(k - 1) : SubSeq(q, 1, k - 1)[j] = q[j]
    OBVIOUS
  <2>2. ASSUME NEW q \in Seq(Node), NEW k \in 1..Len(q)
        PROVE  /\ SubSeq(q, k + 1, Len(q)) \in Seq(Node) /\ Len(SubSeq(q, k + 1, Len(q))) = Len(q) - k
               /\ \A j \in 1..(Len(q) - k) : SubSeq(q, k + 1, Len(q))[j] = q[k + j]
    OBVIOUS
  <2> QED BY <1>2, <2>1, <2>2, Zenon
<1>4. ns = s \o t
  BY Zenon DEF withoutNode
<1> HIDE DEF s, t
<1> HIDE DEF n, ns
<1>5. /\ ns \in Seq(Node) /\ DOMAIN ns = 1..(n - 1)
      /\ \A j \in 1..(n - 1) : ns[j] = IF j < i THEN g.nodes[j] ELSE g.nodes[j + 1]
  <2>1. ns \in Seq(Node) /\ Len(ns) = n - 1 /\ DOMAIN ns = 1..(n - 1)
    <3>0. s \o t \in Seq(Node) /\ Len(s \o t) = Len(s) + Len(t)
      BY <1>3
    <3>1. ns \in Seq(Node) /\ Len(ns) = Len(s) + Len(t)
      BY <1>4, <3>0, Zenon
    <3>2. Len(ns) = n - 1
      BY <1>2, <1>3, <3>1
    <3> QED BY <3>1, <3>2
  <2>2. ASSUME NEW j \in 1..(n - 1), j < i PROVE ns[j] = g.nodes[j]
    <3>1. j \in 1..(i - 1)
      BY <1>2, <2>2
    <3>2. ns[j] = s[j]
      BY <1>2, <1>3, <1>4, <2>2
    <3> QED BY <1>3, <3>1, <3>2, Zenon
  <2>3. ASSUME NEW j \in 1..(n - 1), ~(j < i) PROVE ns[j] = g.nodes[j + 1]
    <3>1. PICK k \in 1..(n - i) : k = j - (i - 1)
      BY <1>2, <2>3
    <3>2. ns[j] = t[k]
      BY <1>2, <1>3, <1>4, <2>3, <3>1
    <3>3. i + k = j + 1
      BY <1>2, <3>1
    <3> QED BY <1>3, <3>1, <3>2, <3>3, Zenon
  <2> QED BY <2>1, <2>2, <2>3, Zenon
<1>6. /\ r.group \in Group /\ r.group.name = g.name /\ r.group.nodes = ns
  BY <1>1, <1>5, WithNodes DEF Ok
<1> DEFINE f(j) == IF j < i THEN j ELSE j + 1
<1>7. \A j \in 1..(n - 1) : f(j) \in 1..n /\ ns[j] = g.nodes[f(j)]
  BY <1>2, <1>5
<1>8. \A j, k \in 1..(n - 1) : j # k => f(j) # f(k)
  BY <1>2
<1> HIDE DEF f
<1>9. ASSUME WellFormed(g) PROVE WellFormed(r.group)
  <2> SUFFICES ASSUME NEW j \in 1..(n - 1), NEW k \in 1..(n - 1), j # k
               PROVE  /\ ns[j].endpoint # ns[k].endpoint
                      /\ ns[j].platforms \cap ns[k].platforms = {}
    BY <1>5, <1>6 DEF WellFormed, UniqueEndpoints, DisjointPlatforms
  <2>1. PICK u \in 1..n, v \in 1..n : u # v /\ ns[j] = g.nodes[u] /\ ns[k] = g.nodes[v]
    BY <1>7, <1>8, Zenon
  <2> QED BY <1>2, <1>9, <2>1, Zenon DEF WellFormed, UniqueEndpoints, DisjointPlatforms
<1> QED BY <1>6, <1>9, Zenon

(* A copy is a group at the same endpoints; it claims no platform at all.   *)
LEMMA CopyWellFormed ==
    ASSUME NEW g \in Group
    PROVE  /\ Copy(g) \in Group /\ Copy(g).name = g.name
           /\ WellFormed(g) => WellFormed(Copy(g))
<1> DEFINE ns == [i \in DOMAIN g.nodes |-> copyNode(g.nodes[i])]
<1>1. \A n \in Node : /\ copyNode(n) \in Node /\ copyNode(n).platforms = {}
                       /\ copyNode(n).endpoint = n.endpoint
  BY Zenon DEF copyNode, Node, Slot
<1>2. /\ ns \in Seq(Node) /\ DOMAIN ns = DOMAIN g.nodes
      /\ \A i \in DOMAIN g.nodes : /\ ns[i].endpoint = g.nodes[i].endpoint
                                    /\ ns[i].platforms = {}
  BY <1>1, GroupNodes
<1>3. Copy(g) = withNodes(g, ns)
  BY Zenon DEF Copy
<1> HIDE DEF ns
<1>4. Copy(g) \in Group /\ Copy(g).name = g.name /\ Copy(g).nodes = ns
  BY <1>2, <1>3, WithNodes
<1> QED BY <1>2, <1>4, Zenon DEF WellFormed, UniqueEndpoints, DisjointPlatforms

-----------------------------------------------------------------------------
(* The writes of create: the group is saved, then selected, rolled back to  *)
(* a copy of what it was, or removed.                                       *)
LEMMA CreateWritesType ==
    ASSUME NEW o \in CreateArg, NEW key \in Key, NEW old \in GoodGroup \cup {NoGroup},
           NEW g \in GoodGroup, NEW outcome \in Outcome
    PROVE  createWrites(o, key, old, g, outcome) \in Seq(FileOp(GoodGroup))
<1> DEFINE rest == CASE outcome = "ok" ->
                          IF o.use THEN SetCurrent(key, g.name, FALSE, FALSE) ELSE <<>>
                     [] outcome = "nodeErr" -> rollback(old, g)
                     [] OTHER -> <<>>
<1>1. g.name \in AnyName
  BY Zenon DEF GoodGroup, SavedGroup
<1>2. <<>> \in Seq(FileOp(GoodGroup))
  OBVIOUS
<1>3. SetCurrent(key, g.name, FALSE, FALSE) \in Seq(FileOp(GoodGroup))
  BY <1>1, SetCurrentType, Zenon
<1>4. rollback(old, g) \in Seq(FileOp(GoodGroup))
  <2>1. CASE old = NoGroup
    BY <1>1, <2>1, RemoveType, Zenon DEF rollback
  <2>2. CASE old # NoGroup
    <3>1. old \in Group /\ old.name \in AnyName /\ WellFormed(old)
      BY <2>2, Zenon DEF GoodGroup, SavedGroup
    <3>2. Copy(old) \in GoodGroup
      BY <3>1, CopyWellFormed, Zenon DEF GoodGroup, SavedGroup
    <3> QED BY <2>2, <3>2, SaveType, Zenon DEF rollback
  <2> QED BY <2>1, <2>2, Zenon
<1>5. rest \in Seq(FileOp(GoodGroup))
  <2>1. CASE outcome = "ok"
    BY <1>2, <1>3, <2>1, Zenon
  <2>2. CASE outcome = "nodeErr"
    BY <1>4, <2>2, Zenon
  <2>3. CASE outcome = "loadErr"
    BY <1>2, <2>3, Zenon
  <2> QED BY <2>1, <2>2, <2>3, Zenon DEF Outcome
<1>6. createWrites(o, key, old, g, outcome) = Save(g) \o rest
  BY Zenon DEF createWrites
<1> HIDE DEF rest
<1> QED BY <1>5, <1>6, SaveType, ConcatIndex

LEMMA CreateWritesFine ==
    ASSUME IInv, SInv, NEW o \in CreateArg, NEW key \in Key, NEW old, NEW g \in GoodGroup,
           NEW outcome \in Outcome, NEW c, {old, g} \subseteq c.saw,
           old = instances[Lower(g.name)], old \in GoodGroup \cup {NoGroup}
    PROVE  Fine(c, createWrites(o, key, old, g, outcome))
<1> DEFINE rest == CASE outcome = "ok" ->
                          IF o.use THEN SetCurrent(key, g.name, FALSE, FALSE) ELSE <<>>
                     [] outcome = "nodeErr" -> rollback(old, g)
                     [] OTHER -> <<>>
           Last(t) == /\ Fine(c, t) /\ t \in Seq(FileOp(GoodGroup))
                      /\ \A i \in DOMAIN t : t[i].file # "reset"
                      /\ 1 \in DOMAIN t => t[1].file # "defaults"
<1>1. g.name \in AnyName
  BY Zenon DEF GoodGroup, SavedGroup
<1>2. Last(<<>>)
  BY DEF Fine, RefsGoFirst, Paired, Seen
<1>3. Last(SetCurrent(key, g.name, FALSE, FALSE))
  <2>1. PICK t : t = SetCurrent(key, g.name, FALSE, FALSE)
    BY Zenon
  <2>2. Fine(c, t) /\ t \in Seq(FileOp(GoodGroup))
    BY <1>1, <2>1, SetCurrentFine, SetCurrentType, Zenon
  <2>3. DOMAIN t = {1, 2} /\ t[1].file = "current" /\ t[2].file = "defaults"
    <3>1. PICK gl \in BOOLEAN : gl = FALSE
      BY Zenon
    <3>2. t = SetCurrent(key, g.name, gl, gl)
      BY <2>1, <3>1, Zenon
    <3> QED BY <3>2, SetCurrentOps
  <2> QED BY <2>1, <2>2, <2>3, Zenon
<1>4. ASSUME NEW t, t \in {Save(Copy(old)), Remove(g.name)}, Fine(c, t),
             t \in Seq(FileOp(GoodGroup))
      PROVE  Last(t)
  <2>1. \A i \in DOMAIN t : t[i].file \in {"activity", "refs", "instances"}
    BY <1>4, OpFields DEF Save, Remove
  <2> QED BY <1>4, <2>1, Zenon
<1>5. Last(rollback(old, g))
  <2>1. CASE old = NoGroup
    <3>1. Fine(c, Remove(g.name)) /\ Remove(g.name) \in Seq(FileOp(GoodGroup))
      BY <1>1, RemoveFine, RemoveType, Zenon
    <3>2. Last(Remove(g.name))
      BY <1>4, <3>1, Zenon
    <3> QED BY <2>1, <3>2, Zenon DEF rollback
  <2>2. CASE old # NoGroup
    <3>1. old \in Group /\ old.name \in AnyName /\ WellFormed(old)
      BY <2>2, Zenon DEF GoodGroup, SavedGroup
    <3>2. Copy(old) \in GoodGroup /\ Copy(old).name = old.name
      BY <3>1, CopyWellFormed, Zenon DEF GoodGroup, SavedGroup
    <3>3. Lower(g.name) \in LowerName
      BY <1>1, LowerNames, Zenon
    <3>4. Lower(Copy(old).name) = Lower(g.name)
      BY <2>2, <3>2, <3>3, Zenon DEF SInv, NamesAgree
    <3>5. Fine(c, Save(Copy(old))) /\ Save(Copy(old)) \in Seq(FileOp(GoodGroup))
      BY <3>2, <3>4, SaveFine, SaveType, Zenon
    <3>6. Last(Save(Copy(old)))
      BY <1>4, <3>5, Zenon
    <3> QED BY <2>2, <3>6, Zenon DEF rollback
  <2> QED BY <2>1, <2>2, Zenon
<1> HIDE DEF Last
<1>6. Last(rest)
  <2>1. CASE outcome = "ok"
    BY <1>2, <1>3, <2>1, Zenon
  <2>2. CASE outcome = "nodeErr"
    BY <1>5, <2>2, Zenon
  <2>3. CASE outcome = "loadErr"
    BY <1>2, <2>3, Zenon
  <2> QED BY <2>1, <2>2, <2>3, Zenon DEF Outcome
<1>7. createWrites(o, key, old, g, outcome) = Save(g) \o rest
  BY Zenon DEF createWrites
<1>8. Fine(c, Save(g)) /\ Save(g) \in Seq(FileOp(GoodGroup))
  BY SaveFine, SaveType, Zenon
<1>9. \A i \in DOMAIN Save(g) : Save(g)[i].file = "instances" => Save(g)[i].val \in c.saw
  BY OpFields DEF Save
<1>10. PICK t : t = rest
  BY Zenon
<1>11. Fine(c, Save(g) \o t)
  BY <1>6, <1>8, <1>9, <1>10, ConcatFine, Zenon DEF Last
<1> HIDE DEF rest
<1> QED BY <1>7, <1>10, <1>11, Zenon

(* The commands: what each writes is fine in the state it begins in.        *)
LEMMA CreateInv ==
    ASSUME IInv, SInv, NEW p \in Proc, Create(p)
    PROVE  IInv' /\ SInv'
<1>1. PICK o \in CreateArg, key \in Key, outcome \in Outcome :
        LET old   == NodeGroupByName(o.name)
            empty == [name |-> o.name, driver |-> o.driver, nodes |-> <<>>]
            r     == Update(IF old = NoGroup THEN empty ELSE old, o.update)
        IN  Begin(p, CreateCmd(o, old, r, outcome),
                  {IF r.err = "none"
                   THEN createWrites(o, key, old, r.group, outcome)
                   ELSE <<>>})
  BY Zenon DEF Create
<1>2. PICK old : old = NodeGroupByName(o.name)
  BY Zenon
<1>3. /\ o.name \in BuilderName /\ o.driver \in Driver /\ o.update \in UpdateArg
      /\ o.name \in AnyName /\ Lower(o.name) \in LowerName /\ o.name \in Name
  BY StoreAssumption, LowerNames, Zenon
<1>4. old \in GoodGroup \cup {NoGroup} /\ old = instances[Lower(o.name)]
  BY <1>2, <1>3, LookupType, Zenon
<1> DEFINE empty == [name |-> o.name, driver |-> o.driver, nodes |-> <<>>]
<1>5. PICK g : g = IF old = NoGroup THEN empty ELSE old
  BY Zenon
<1>6. g \in Group /\ g.name \in AnyName /\ WellFormed(g) /\ Lower(g.name) = Lower(o.name)
  <2>1. empty \in Group /\ empty.name = o.name
    BY <1>3 DEF Group
  <2>2. WellFormed(empty)
    BY DEF WellFormed, UniqueEndpoints, DisjointPlatforms
  <2>3. old # NoGroup => /\ old \in Group /\ old.name \in AnyName /\ WellFormed(old)
                         /\ Lower(old.name) = Lower(o.name)
    BY <1>3, <1>4, Zenon DEF GoodGroup, SavedGroup, SInv, NamesAgree
  <2> HIDE DEF empty
  <2> QED BY <1>3, <1>5, <2>1, <2>2, <2>3, Zenon
<1>7. PICK r : r = Update(g, o.update)
  BY Zenon
<1>8. /\ r.err \in Err /\ r.group \in SavedGroup /\ r.group.name = g.name
      /\ r.err = "none" => r.group \in GoodGroup
  BY <1>3, <1>6, <1>7, UpdateWellFormed, Zenon DEF GoodGroup, SavedGroup
<1>9. PICK c : c = CreateCmd(o, old, r, outcome)
  BY Zenon
<1>10. c \in Command /\ c.kind = "create" /\ c.saw = {old, r.group}
  <2>1. old \in SavedGroup \cup {NoGroup}
    BY <1>4, Zenon DEF GoodGroup
  <2>2. {old, r.group} \in SUBSET (SavedGroup \cup {NoGroup})
    BY <1>8, <2>1, Zenon
  <2> QED BY <1>3, <1>8, <1>9, <2>1, <2>2, Zenon DEF CreateCmd, Command
<1>11. PICK w : w = IF r.err = "none" THEN createWrites(o, key, old, r.group, outcome)
                    ELSE <<>>
  BY Zenon
<1>12. Begin(p, c, {w})
  BY <1>1, <1>2, <1>5, <1>7, <1>9, <1>11, Zenon
<1>13. w \in Seq(FileOp(GoodGroup)) /\ Fine(c, w)
  <2>1. CASE r.err = "none"
    BY <1>4, <1>6, <1>8, <1>10, <1>11, <2>1, CreateWritesType, CreateWritesFine, Zenon
  <2>2. CASE r.err # "none"
    BY <1>11, <2>2 DEF Fine, RefsGoFirst, Paired, Seen
  <2> QED BY <2>1, <2>2
<1> QED BY <1>10, <1>12, <1>13, BeginInv, Zenon

LEMMA LeaveNodeInv ==
    ASSUME IInv, SInv, NEW p \in Proc, LeaveNode(p)
    PROVE  IInv' /\ SInv'
<1>1. PICK nm \in BuilderName :
        /\ NodeGroupByName(nm) # NoGroup
        /\ \E node \in NamesOf(NodeGroupByName(nm)) :
              LET r == Leave(NodeGroupByName(nm), node)
              IN  /\ r.err = "none"
                  /\ Begin(p, [kind |-> "leave", name |-> Lower(nm),
                               saw |-> {NodeGroupByName(nm), r.group}], {Save(r.group)})
  BY Zenon DEF LeaveNode
<1>2. PICK old : old = NodeGroupByName(nm)
  BY Zenon
<1>3. nm \in AnyName /\ Lower(nm) \in LowerName
  BY LowerNames, Zenon
<1>4. /\ old \in GoodGroup /\ old \in SavedGroup /\ old \in Group
      /\ old = instances[Lower(nm)]
  BY <1>1, <1>2, <1>3, LookupType, Zenon DEF GoodGroup, SavedGroup
<1>5. PICK node : /\ Leave(old, node).err = "none"
                  /\ Begin(p, [kind |-> "leave", name |-> Lower(nm),
                               saw |-> {old, Leave(old, node).group}],
                           {Save(Leave(old, node).group)})
  BY <1>1, <1>2, Zenon
<1>6. PICK g : g = Leave(old, node).group
  BY Zenon
<1>7. g \in GoodGroup /\ g \in SavedGroup /\ g.name = old.name
  BY <1>4, <1>5, <1>6, LeaveWellFormed, Zenon DEF GoodGroup, SavedGroup
<1>8. PICK c : c = [kind |-> "leave", name |-> Lower(nm), saw |-> {old, g}]
  BY Zenon
<1>9. /\ Begin(p, c, {Save(g)})
      /\ c \in Command /\ c.kind = "leave" /\ c.saw = {old, g}
  BY <1>3, <1>4, <1>5, <1>6, <1>7, <1>8 DEF Command
<1>10. Lower(g.name) = Lower(nm)
  BY <1>1, <1>2, <1>3, <1>4, <1>7, Zenon DEF SInv, NamesAgree
<1>11. Fine(c, Save(g))
  BY <1>4, <1>7, <1>9, <1>10, SaveFine, Zenon
<1> QED BY <1>7, <1>9, <1>11, SaveType, BeginInv, Zenon

-----------------------------------------------------------------------------
LEMMA InitInv == Init => IInv /\ SInv
<1> SUFFICES ASSUME Init PROVE IInv /\ SInv
  BY Zenon
<1>1. \A p \in Proc : pending[p] = {} /\ lock # p
  BY StoreAssumption, Zenon DEF Init
<1>2. \A p \in Proc : ListsOK(cmd[p], pending[p])
  BY <1>1, Zenon DEF ListsOK, Apart
<1>3. LockCoversWrites /\ AtRest
  BY <1>1, Zenon DEF LockCoversWrites, AtRest
<1>4. RefsHaveBuilder /\ NamesAgree /\ Settled
  BY Zenon DEF Init, RefsHaveBuilder, NamesAgree, Settled
<1>5. IInv
  <2>1. Idle \in Command
    BY Zenon DEF Idle, Command
  <2> QED BY <2>1, Zenon DEF Init, IInv, WritesOK
<1> QED BY <1>2, <1>3, <1>4, <1>5, Zenon DEF SInv

LEMMA NextInv == IInv /\ SInv /\ [Next]_vars => IInv' /\ SInv'
<1> SUFFICES ASSUME IInv, SInv, [Next]_vars PROVE IInv' /\ SInv'
  BY Zenon
<1>1. CASE UNCHANGED vars
  <2>1. ASSUME NEW p \in Proc PROVE ListsOK(cmd[p], pending[p])'
    BY <1>1, SameLists, Zenon DEF vars, SInv
  <2>2. LockCoversWrites' /\ AtRest' /\ RefsHaveBuilder' /\ NamesAgree' /\ Settled'
    BY <1>1, Zenon DEF vars, SInv, LockCoversWrites, AtRest, RefsHaveBuilder, NamesAgree,
                Settled, unset
  <2> QED BY <1>1, <2>1, <2>2, Zenon DEF vars, IInv, WritesOK, SInv
<1>2. CASE Next
  <2>1. ASSUME NEW p \in Proc, Step(p) PROVE IInv' /\ SInv'
    BY <2>1, StepIInv, StepSInv, Zenon
  <2>2. ASSUME NEW p \in Proc, Release(p) PROVE IInv' /\ SInv'
    BY <2>2, ReleaseIInv, ReleaseSInv, Zenon
  <2>3. ASSUME NEW p \in Proc, UpdateLastActivity(p) PROVE IInv' /\ SInv'
    BY <2>3, UpdateLastActivityIInv, UpdateLastActivitySInv, Zenon
  <2>4. ASSUME NEW p \in Proc, SaveRef(p) PROVE IInv' /\ SInv'
    BY <2>4, SaveRefIInv, SaveRefSInv, Zenon
  <2>5. ASSUME NEW p \in Proc, FailWrite(p) PROVE IInv' /\ SInv'
    BY <2>5, FailWriteIInv, FailWriteSInv, Zenon
  <2>6. ASSUME NEW p \in Proc, Kill(p) PROVE IInv' /\ SInv'
    BY <2>6, KillIInv, KillSInv, Zenon
  <2> QED BY <1>2, <2>1, <2>2, <2>3, <2>4, <2>5, <2>6, CreateInv, LeaveNodeInv, UseInv,
             RmInv, RmCurrentInv, LoadInv DEF Next
<1> QED BY <1>1, <1>2, Zenon

(* The inductive invariant holds in every reachable state.                  *)
THEOREM Invariance == Spec => [](IInv /\ SInv)
BY InitInv, NextInv, PTL DEF Spec

(* Every file holds what its reader expects, and every process is in a known*)
(* command with well-formed writes left: after any interleaving of create,  *)
(* leave, use, rm and lookups, with kills and failed writes in between.     *)
THEOREM TypeCorrect == Spec => []TypeOK
<1>1. GoodGroup \subseteq SavedGroup
  BY Zenon DEF GoodGroup
<1>2. FileOp(GoodGroup) \subseteq FileOp(SavedGroup)
  BY <1>1, Zenon DEF FileOp, InstanceOp
<1>3. IInv => TypeOK
  <2> SUFFICES ASSUME IInv PROVE TypeOK
    BY Zenon
  <2>1. instances \in [LowerName -> SavedGroup \cup {NoGroup}]
    BY <1>1, Zenon DEF IInv
  <2>2. \A p \in Proc : \A s \in pending[p] : s \in Seq(FileOp(SavedGroup)) /\ s # <<>>
    BY <1>2 DEF IInv, WritesOK
  <2> QED BY <2>1, <2>2, Zenon DEF IInv, TypeOK
<1> QED BY <1>3, Invariance, PTL

(* Every saved group has its nodes at distinct endpoints and no platform is *)
(* claimed by two of its nodes: Update's call of validateDuplicates keeps   *)
(* it so for any number of nodes, and neither Leave nor the Copy that a     *)
(* failed create saves back can break it.                                   *)
THEOREM WellFormedGroups == Spec => []GroupsWellFormed
<1>1. IInv => GroupsWellFormed
  BY Zenon DEF IInv, GoodGroup, WellFormed, GroupsWellFormed
<1> QED BY <1>1, Invariance, PTL

(* No process writes without the lock, for any number of processes: Txn     *)
(* takes it before the first read, release gives it up after the last write,*)
(* and a killed process loses its lock and its writes together.             *)
THEOREM WritesUnderLock == Spec => []LockCoversWrites
<1>1. SInv => LockCoversWrites
  BY Zenon DEF SInv
<1> QED BY <1>1, Invariance, PTL

(* However rm is interrupted, refs left behind still have their builder,     *)
(* unless a build saved them behind rm's back: Remove takes the refs of a   *)
(* builder away before its instance file, in every goroutine of every rm,   *)
(* and in the rollback of a create.                                         *)
THEOREM RefsKeepBuilder == Spec => []RefsHaveBuilder
<1>1. SInv => RefsHaveBuilder
  BY Zenon DEF SInv
<1> QED BY <1>1, Invariance, PTL

(* At rest the default of the endpoint selected last is absent or is that   *)
(* selection, unless SetCurrent was cut short for that endpoint: each of    *)
(* use, create --use, rm and lookups writes the pair, or resets a key that  *)
(* has no default, under one lock.                                          *)
THEOREM SelectionAgrees == Spec => []DefaultAgrees
<1>1. IInv /\ SInv => DefaultAgrees
  <2> SUFFICES ASSUME IInv, SInv, lock = NoProc, current # NoFile, current.key \notin torn
               PROVE  defaults[current.key] \in {NoFile, current.name}
    BY Zenon DEF DefaultAgrees
  <2>1. \A p \in Proc : pending[p] = {}
    BY StoreAssumption, Zenon DEF SInv, LockCoversWrites
  <2> QED BY <2>1, Zenon DEF SInv, Settled, unset
<1> QED BY <1>1, Invariance, PTL

(* A write replaces or removes only a group its command read, or saved      *)
(* itself: create, leave and rm read under the lock they write under, and   *)
(* write to the file they read, since a group is stored under its own name. *)
THEOREM NoUpdateLost == Spec => NoLostUpdate
<1>1. IInv /\ SInv =>
        [\A p \in Proc : Step(p) =>
            \A b \in LowerName :
               instances'[b] = instances[b] \/ instances[b] \in cmd[p].saw]_vars
  <2> SUFFICES ASSUME IInv, SInv, NEW p \in Proc, Step(p), NEW b \in LowerName
               PROVE  instances'[b] = instances[b] \/ instances[b] \in cmd[p].saw
    BY Zenon
  <2>1. PICK s \in pending[p] : Apply(Head(s))
    BY Zenon DEF Step
  <2>2. PICK h : h = Head(s)
    BY Zenon
  <2>3. s \in Seq(FileOp(GoodGroup)) /\ s # <<>> /\ Seen(cmd[p], s)
    BY <2>1, Zenon DEF IInv, WritesOK, SInv, ListsOK, Fine
  <2>4. 1 \in DOMAIN s /\ h = s[1] /\ h \in FileOp(GoodGroup)
    BY <2>2, <2>3, TailIndex
  <2>5. h.file = "instances" => instances[h.at] \in cmd[p].saw
    BY <2>3, <2>4, Zenon DEF Seen
  <2> QED BY <2>1, <2>2, <2>4, <2>5, ApplyEffect, Zenon
<1> QED BY <1>1, Invariance, PTL DEF NoLostUpdate

(* A lookup of the current builder of one endpoint does not take away the   *)
(* default of another that is in use: it selects what the default already   *)
(* says, for its endpoint only, or nothing.                                 *)
THEOREM LookupsHarmless == Spec => LookupsKeepDefault
<1>1. IInv /\ SInv =>
        [\A p \in Proc : Step(p) /\ cmd[p].kind = "load" =>
            \A k \in Key : CurrentName(k) # NoName /\ CurrentName(k) = defaults[k] =>
               CurrentName(k)' = CurrentName(k)]_vars
  <2> SUFFICES ASSUME IInv, SInv, NEW p \in Proc, Step(p), cmd[p].kind = "load",
                      NEW k \in Key, CurrentName(k) # NoName, CurrentName(k) = defaults[k]
               PROVE  CurrentName(k)' = CurrentName(k)
    BY Zenon
  <2>1. PICK s \in pending[p] : Apply(Head(s))
    BY Zenon DEF Step
  <2>2. PICK h : h = Head(s)
    BY Zenon
  <2>3. s \in Seq(FileOp(GoodGroup)) /\ s # <<>> /\ LooksUp(s)
    BY <2>1, Zenon DEF IInv, WritesOK, SInv, ListsOK, Fine
  <2>4. 1 \in DOMAIN s /\ h = s[1] /\ h \in FileOp(GoodGroup) /\ Apply(h)
    BY <2>1, <2>2, <2>3, TailIndex
  <2>5. instances' = instances
    BY <2>3, <2>4, ApplyEffect, Zenon DEF LooksUp
  <2>6. defaults'[k] = defaults[k]
    BY <2>3, <2>4, ApplyEffect, Zenon DEF LooksUp
  <2>7. PICK d : d = defaults[k]
    BY Zenon
  <2>8. d \in AnyName /\ NodeGroupByName(d) # NoGroup
    <3>1. d = CurrentName(k) /\ d \in AnyName
      BY <2>7, CurrentNameType, Zenon
    <3>2. NodeGroupByName(d) \in GoodGroup
      BY <3>1, CurrentNameType, Zenon
    <3> QED BY <3>1, <3>2, StoreAssumption, Zenon DEF GoodGroup, SavedGroup
  <2>9. d # NoFile /\ d # NoName /\ \A nm : NodeGroupByName(nm)' = NodeGroupByName(nm)
    BY <2>5, <2>8, LowerNames, StoreAssumption, Zenon DEF NodeGroupByName
  <2>10. CASE h.file \notin {"current", "reset"}
    <3>1. current' = current
      BY <2>4, <2>10, ApplyEffect, Zenon
    <3> QED BY <2>6, <2>9, <3>1, Zenon DEF CurrentName, selectedGlobally, selectedFor
  <2>11. CASE h.file \in {"current", "reset"}
    <3>1. /\ current' = h.val /\ ~h.val.global /\ h.val \in Selection
          /\ h.file = "current" => h.val.name = defaults[h.val.key]
          /\ h.file = "reset" => h.val.name = NoName
      BY <2>3, <2>4, <2>11, ApplyEffect, OpType, Zenon DEF LooksUp
    <3>2. ~selectedGlobally'
      BY <3>1, Zenon DEF selectedGlobally
    <3>3. selectedFor(k)' => current'.name = d
      BY <2>7, <2>11, <3>1, Zenon DEF selectedFor
    <3>4. CurrentName(k)' = d
      BY <2>6, <2>7, <2>8, <2>9, <3>2, <3>3, Zenon DEF CurrentName
    <3> QED BY <2>7, <3>4, Zenon
  <2> QED BY <2>10, <2>11, Zenon
<1> QED BY <1>1, Invariance, PTL DEF LookupsKeepDefault
=============================================================================
