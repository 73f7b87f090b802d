---------------------------- MODULE NodeResolver ----------------------------
(***************************************************************************)
(* nodeResolver (build/driver.go): which nodes of a builder build which    *)
(* platforms of which target.  The platforms the nodes were created with   *)
(* are tried first, exactly; if that leaves a platform without a node, all *)
(* nodes are booted, asked for the platforms of their workers, and the     *)
(* targets are resolved again with the platforms a node can emulate.       *)
(*                                                                         *)
(* Targets are visited in the order of a map, which is any order.  A node  *)
(* is booted through a flightcontrol.Group, which shares a call that is    *)
(* under way, and a cache; so are its capabilities loaded.                 *)
(***************************************************************************)
EXTENDS Naturals, Sequences, FiniteSets, SequencesExt

CONSTANTS
    Targets,
    NodeLists,    \* the node lists considered: for every node its platforms
    Requests,     \* the platform lists that a target may ask for
    Reports       \* the platforms that the workers of a node may report

\* platforms.Only: what a machine of a platform can run, best first; and
\* platforms.OnlyStrict.
Below == [amd64 |-> <<"i386">>, arm64 |-> <<"armv8", "armv7", "armv6", "armv5">>,
          armv8 |-> <<"armv7", "armv6", "armv5">>, armv7 |-> <<"armv6", "armv5">>, armv6 |-> <<"armv5">>]
Only(p) == <<p>> \o (IF p \in DOMAIN Below THEN Below[p] ELSE <<>>)
OnlyStrict(p) == <<p>>
Matcher(strict, p) == IF strict THEN OnlyStrict(p) ELSE Only(p)

\* MatchComparer
Match(vector, p) == p \in ToSet(vector)
Less(vector, p, q) == \E i \in DOMAIN vector : vector[i] = p /\ \A j \in 1..i : vector[j] # q

-----------------------------------------------------------------------------
None == 0

\* get: the node whose platform comes closest, the first of several.
get(p, l, strict) ==
    LET candidates == FlattenSeq([i \in DOMAIN l |-> [j \in DOMAIN l[i] |-> <<i, l[i][j]>>]])
        Better(best, c) ==
            IF ~Match(Matcher(strict, c[2]), p) THEN best
            ELSE IF best[1] = None \/ Less(Matcher(strict, c[2]), p, best[2]) THEN c ELSE best
    IN  FoldLeft(Better, <<None, "">>, candidates)[1]

\* recombineNodes: nodes on one driver become one node.
recombineNodes(nodes) ==
    LET Add(result, n) ==
            LET same == {i \in DOMAIN result : result[i].index = n.index}
            IN  IF same = {} THEN Append(result, n)
                ELSE [result EXCEPT ![CHOOSE i \in same : TRUE].platforms = @ \o n.platforms]
    IN  FoldLeft(Add, <<>>, nodes)

\* resolve: the nodes, whether every platform has found one, and the indexes
\* that are booted.
resolve(ps, l, strict) ==
    LET found == [i \in DOMAIN ps |-> get(ps[i], l, strict)]
        idxs == IF ps = <<>> THEN <<1>> ELSE [i \in DOMAIN ps |-> IF found[i] = None THEN 1 ELSE found[i]]
        nodes == [i \in DOMAIN idxs |-> [index |-> idxs[i], platforms |-> IF ps = <<>> THEN <<>> ELSE <<ps[i]>>]]
    IN  [nodes |-> recombineNodes(nodes), perfect |-> \A i \in DOMAIN found : found[i] # None, idxs |-> idxs]

-----------------------------------------------------------------------------
VARIABLES
    list,       \* the platforms of every node
    wanted,     \* the platforms of every target
    driverless, \* nodes without a driver: they have no client
    stage,      \* "strict", "all", "workers", "again", "opts", "load", "flight", "done" or "failed"
    asking,     \* the cached group that is in use: "clients" or "buildOpts"
    resume,     \* the stage after it
    nodes,      \* the targets resolved so far
    reported,   \* what the workers of every node have reported
    jobs,       \* the goroutines of boot or opts: <<node, state>>
    cache,      \* the nodes in the cache of each group
    calls       \* how often each group has asked each node

vars == <<list, wanted, driverless, stage, asking, resume, nodes, reported, jobs, cache, calls>>
config == <<list, wanted, driverless>>
Groups == {"clients", "buildOpts"}

Init ==
    /\ list \in NodeLists /\ wanted \in [Targets -> Requests] /\ driverless \in SUBSET {Len(list)}
    /\ stage = "strict" /\ resume = "strict" /\ nodes = <<>> /\ jobs = <<>> /\ asking = "clients"
    /\ reported = [i \in DOMAIN list |-> <<>>] 
    /\ cache = [g \in Groups |-> {}] /\ calls = [g \in Groups |-> [i \in DOMAIN list |-> 0]]

\* A goroutine per index.
Start(idxs, g, after) ==
    /\ jobs' = [i \in DOMAIN idxs |-> <<idxs[i], "start">>]
    /\ asking' = g /\ resume' = after /\ stage' = "flight"
Boot(idxs, after) == Start(idxs, "clients", after)

Extended == [i \in DOMAIN list |-> list[i] \o reported[i]]
Resolved(k, r) == nodes' = [t \in DOMAIN nodes \cup {k} |-> IF t = k THEN r.nodes ELSE nodes[t]]

\* The first pass.  It stops at the first target that has no perfect match.
ResolveStrictly(k) ==
    /\ stage = "strict" /\ k \notin DOMAIN nodes
    /\ LET r == resolve(wanted[k], list, TRUE)
       IN  IF r.perfect THEN Boot(r.idxs, "strict") /\ Resolved(k, r)
           ELSE Boot(r.idxs, "all") /\ UNCHANGED nodes
    /\ UNCHANGED <<config, reported, cache, calls>>

StrictDone ==
    /\ stage = "strict" /\ DOMAIN nodes = Targets
    /\ stage' = "opts"
    /\ UNCHANGED <<config, asking, resume, nodes, reported, jobs, cache, calls>>

BootAll ==
    /\ stage = "all"
    /\ Boot([i \in DOMAIN list |-> i], "workers")
    /\ UNCHANGED <<config, nodes, reported, cache, calls>>

\* ListWorkers, of the nodes that have a client.
keepsStrict == \* mutant: the matches of the first pass are kept
    /\ stage = "workers"
    /\ reported' \in [DOMAIN list -> Reports]
    /\ \A i \in driverless : reported'[i] = <<>>
    /\ nodes' = nodes /\ stage' = "again"
    /\ UNCHANGED <<config, asking, resume, jobs, cache, calls>>

ListWorkers ==
    /\ stage = "workers"
    /\ reported' \in [DOMAIN list -> Reports]
    /\ \A i \in driverless : reported'[i] = <<>>
    /\ nodes' = <<>> /\ stage' = "again"
    /\ UNCHANGED <<config, asking, resume, jobs, cache, calls>>

ListWorkersFails ==
    /\ stage = "workers" /\ driverless # DOMAIN list
    /\ stage' = "failed"
    /\ UNCHANGED <<config, asking, resume, nodes, reported, jobs, cache, calls>>

ResolveAgain(k) ==
    /\ stage = "again" /\ k \notin DOMAIN nodes
    /\ LET r == resolve(wanted[k], Extended, FALSE) IN Boot(r.idxs, "again") /\ Resolved(k, r)
    /\ UNCHANGED <<config, reported, cache, calls>>

AgainDone ==
    /\ stage = "again" /\ DOMAIN nodes = Targets
    /\ stage' = "opts"
    /\ UNCHANGED <<config, asking, resume, nodes, reported, jobs, cache, calls>>

\* opts: the capabilities of the nodes that are used are loaded, once more
\* through boot.
Used == UNION {{nodes[k][i].index : i \in DOMAIN nodes[k]} : k \in DOMAIN nodes}

\* One goroutine for every node of every target; they run in any order.
UsedIdxs ==
    [at \in UNION {{k} \X DOMAIN nodes[k] : k \in DOMAIN nodes} |-> nodes[at[1]][at[2]].index]

BootUsed ==
    /\ stage = "opts"
    /\ Boot(UsedIdxs, "load")
    /\ UNCHANGED <<config, nodes, reported, cache, calls>>

LoadOpts ==
    /\ stage = "load"
    /\ Start(UsedIdxs, "buildOpts", "done")
    /\ UNCHANGED <<config, nodes, reported, cache, calls>>

-----------------------------------------------------------------------------
\* cachedGroup: the function runs once for the goroutines that wait for the
\* same index at the same time, and asks the node unless it is in the cache.
\* There is nothing to do for a node without a client.
To(j, state) == jobs' = [jobs EXCEPT ![j] = <<@[1], state>>]
InFlight(n) == \E i \in DOMAIN jobs : jobs[i][1] = n /\ jobs[i][2] = "flight"
Known(n) == n \in driverless \cup cache[asking]

Join(j) ==
    /\ stage = "flight" /\ jobs[j][2] = "start"
    /\ \/ Known(jobs[j][1]) /\ To(j, "ended")
       \/ ~Known(jobs[j][1]) /\ InFlight(jobs[j][1]) /\ To(j, "joined")
    /\ UNCHANGED <<config, stage, asking, resume, nodes, reported, cache, calls>>

asksAnyway(j) == \* mutant: the cache is not looked at
    /\ stage = "flight" /\ jobs[j][2] = "start" /\ jobs[j][1] \notin driverless /\ ~InFlight(jobs[j][1])
    /\ To(j, "flight") /\ calls' = [calls EXCEPT ![asking][jobs[j][1]] = @ + 1]
    /\ UNCHANGED <<config, stage, asking, resume, nodes, reported, cache>>

Ask(j) ==
    /\ stage = "flight" /\ jobs[j][2] = "start" /\ ~Known(jobs[j][1]) /\ ~InFlight(jobs[j][1])
    /\ To(j, "flight") /\ calls' = [calls EXCEPT ![asking][jobs[j][1]] = @ + 1]
    /\ UNCHANGED <<config, stage, asking, resume, nodes, reported, cache>>

Answered(j) ==
    /\ stage = "flight" /\ jobs[j][2] = "flight"
    /\ cache' = [cache EXCEPT ![asking] = @ \cup {jobs[j][1]}]
    /\ jobs' = [i \in DOMAIN jobs |-> IF jobs[i][1] = jobs[j][1] /\ jobs[i][2] \in {"flight", "joined"}
                                      THEN <<jobs[i][1], "ended">> ELSE jobs[i]]
    /\ UNCHANGED <<config, stage, asking, resume, nodes, reported, calls>>

AskFails(j) ==
    /\ stage = "flight" /\ jobs[j][2] = "flight"
    /\ stage' = "failed"
    /\ UNCHANGED <<config, asking, resume, nodes, reported, jobs, cache, calls>>

FlightEnds ==
    /\ stage = "flight" /\ \A j \in DOMAIN jobs : jobs[j][2] = "ended"
    /\ stage' = resume /\ jobs' = <<>>
    /\ UNCHANGED <<config, asking, resume, nodes, reported, cache, calls>>

Next ==
    \/ StrictDone \/ BootAll \/ ListWorkers \/ ListWorkersFails \/ AgainDone \/ BootUsed \/ LoadOpts \/ FlightEnds
    \/ \E k \in Targets : ResolveStrictly(k) \/ ResolveAgain(k)
    \/ \E j \in DOMAIN jobs : Join(j) \/ Ask(j) \/ Answered(j) \/ AskFails(j)

Spec == Init /\ [][Next]_vars

-----------------------------------------------------------------------------
\* The definition of the best node: it has the platform itself or, failing
\* that, the platform that is closest above it, and it is the first such node.
Supports(i, p, l, strict) == {q \in ToSet(l[i]) : Match(Matcher(strict, q), p)}
Closest(p, l, strict) ==
    LET all == UNION {Supports(i, p, l, strict) : i \in DOMAIN l}
        best == {q \in all : \A o \in all : Match(Matcher(strict, o), q)}
        at == {i \in DOMAIN l : Supports(i, p, l, strict) \cap best # {}}
    IN  IF at = {} THEN None ELSE CHOOSE i \in at : \A j \in at : i <= j

\* Resolve gives every platform of a target to one node, and a node appears
\* once per target.  The node is the closest one, or the first, although get compares the
\* candidates one by one, and it depends on the nodes and the requests alone, not
\* on the order in which the targets are visited: the platforms that the workers
\* report count for all targets, or for none.
PlacedOnClosest ==
    LET strict == \A k \in Targets : \A p \in ToSet(wanted[k]) : Closest(p, list, TRUE) # None
        l == IF strict THEN list ELSE Extended
        platforms(k) == FlattenSeq([i \in DOMAIN nodes[k] |-> nodes[k][i].platforms])
    IN  stage = "done" => \A k \in Targets :
            /\ Len(platforms(k)) = Len(wanted[k]) /\ ToSet(platforms(k)) = ToSet(wanted[k])
            /\ \A i, j \in DOMAIN nodes[k] : nodes[k][i].index = nodes[k][j].index => i = j
            /\ \A i \in DOMAIN nodes[k] : \A p \in ToSet(nodes[k][i].platforms) :
                   LET best == Closest(p, l, strict)
                   IN  nodes[k][i].index = IF best = None THEN 1 ELSE best

\* No node is booted, or asked for its capabilities, twice, however often it
\* is resolved, and both have happened for every node that is used.
AskedOnce ==
    /\ \A g \in Groups : \A i \in DOMAIN list : calls[g][i] <= 1
    /\ stage = "done" => \A g \in Groups : Used \subseteq cache[g] \cup driverless
=============================================================================
