------------------------- MODULE NodeResolverProofs -------------------------
(***************************************************************************)
(* The nodes of a builder are asked at most once, and those that are used  *)
(* have been, for any targets, node lists, requests and reports: what the  *)
(* cached groups of nodeResolver promise, whichever nodes get chooses.     *)
(***************************************************************************)
EXTENDS NodeResolver, TLAPS

(* A node that was asked is in the cache or its goroutine is under way: a   *)
(* call that has failed ends Resolve.                                       *)
Asked ==
    /\ calls \in [Groups -> [DOMAIN list -> {0, 1}]]
    /\ \A g \in Groups : \A i \in DOMAIN list :
          calls[g][i] = 1 => \/ i \in cache[g]
                             \/ g = asking /\ stage \in {"flight", "failed"} /\ InFlight(i)

(* The goroutines of one group: those that have ended know their node.      *)
Flights ==
    /\ asking \in Groups /\ DOMAIN cache = Groups
    /\ resume = "load" => asking = "clients"
    /\ resume = "done" => asking = "buildOpts"
    /\ stage = "flight" => \A j \in DOMAIN jobs : jobs[j][2] = "ended" => Known(jobs[j][1])

(* The nodes that are used are booted first and asked for their             *)
(* capabilities then.                                                       *)
ready(g) == Used \subseteq cache[g] \cup driverless
Covered ==
    /\ stage = "flight" /\ resume \in {"load", "done"} => \A n \in Used : \E j \in DOMAIN jobs : jobs[j][1] = n
    /\ stage \in {"load", "done"} \/ (stage = "flight" /\ resume = "done") => ready("clients")
    /\ stage = "done" => ready("buildOpts")

ResolverInv == Asked /\ Flights /\ Covered

-----------------------------------------------------------------------------
LEMMA SameUsed == ASSUME nodes' = nodes PROVE Used' = Used
BY DEF Used

LEMMA ResolverInitially == Init => ResolverInv
<1> SUFFICES ASSUME Init PROVE ResolverInv
  BY Zenon
<1>1. Asked
  <2>1. calls = [g \in Groups |-> [i \in DOMAIN list |-> 0]]
    BY Zenon DEF Init
  <2>2. \A g \in Groups : \A i \in DOMAIN list : calls[g][i] # 1
    BY <2>1
  <2>3. calls \in [Groups -> [DOMAIN list -> {0, 1}]]
    BY <2>1, Zenon
  <2> QED BY <2>2, <2>3, Zenon DEF Asked
<1>2. Flights /\ Covered
  BY Zenon DEF Init, Flights, Covered, Groups
<1> QED BY <1>1, <1>2, Zenon DEF ResolverInv

(* Goroutines are started while none is left of those before.               *)
LEMMA StartsFresh ==
    ASSUME ResolverInv, NEW idxs, NEW g \in Groups, NEW after, Start(idxs, g, after),
           stage \notin {"flight", "failed"}, UNCHANGED <<config, cache, calls>>
    PROVE  /\ Asked' /\ stage' = "flight"
           /\ \A j \in DOMAIN jobs' : jobs'[j][2] # "ended"
           /\ DOMAIN jobs' = DOMAIN idxs /\ \A j \in DOMAIN idxs : jobs'[j][1] = idxs[j]
<1>1. /\ stage' = "flight" /\ list' = list
      /\ \A h \in Groups : \A i \in DOMAIN list : calls[h][i] = 1 => i \in cache[h]
  BY Zenon DEF Start, config, ResolverInv, Asked
<1>2. Asked'
  BY <1>1, Zenon DEF ResolverInv, Asked
<1>3. jobs' = [i \in DOMAIN idxs |-> <<idxs[i], "start">>]
  BY Zenon DEF Start
<1>4. DOMAIN jobs' = DOMAIN idxs /\ \A j \in DOMAIN idxs : jobs'[j] = <<idxs[j], "start">>
  BY <1>3, Zenon
<1>6. \A j \in DOMAIN idxs : jobs'[j][1] = idxs[j] /\ jobs'[j][2] = "start"
  BY <1>4
<1>7. \A j \in DOMAIN jobs' : jobs'[j][2] # "ended"
  BY <1>4, <1>6, Zenon
<1> QED BY <1>1, <1>2, <1>4, <1>6, <1>7, Zenon

(* While targets are resolved nothing is known of the nodes in use.         *)
LEMMA ResolvingKeeps ==
    ASSUME ResolverInv, NEW idxs, NEW after \in {"strict", "all", "workers", "again"},
           Boot(idxs, after), stage \in {"strict", "all", "again"}, UNCHANGED <<config, reported, cache, calls>>
    PROVE  ResolverInv'
<1>1. Start(idxs, "clients", after) /\ "clients" \in Groups /\ asking' = "clients" /\ resume' = after
  BY Zenon DEF Boot, Start, Groups
<1>2. Asked' /\ stage' = "flight" /\ \A j \in DOMAIN jobs' : jobs'[j][2] # "ended"
  BY <1>1, StartsFresh, Zenon
<1>3. Flights'
  BY <1>1, <1>2, Zenon DEF ResolverInv, Flights
<1>4. Covered'
  BY <1>1, <1>2, Zenon DEF Covered
<1> QED BY <1>2, <1>3, <1>4, Zenon DEF ResolverInv

(* The goroutines of opts are those of the nodes in use.                    *)
LEMMA UsedAreAsked == \A n \in Used : \E at \in DOMAIN UsedIdxs : UsedIdxs[at] = n
<1> SUFFICES ASSUME NEW n \in Used PROVE \E at \in DOMAIN UsedIdxs : UsedIdxs[at] = n
  BY Zenon
<1>1. PICK k \in DOMAIN nodes : \E i \in DOMAIN nodes[k] : n = nodes[k][i].index
  BY Zenon DEF Used
<1>2. PICK i \in DOMAIN nodes[k] : n = nodes[k][i].index
  BY <1>1, Zenon
<1>3. <<k, i>> \in DOMAIN UsedIdxs
  <2>1. <<k, i>> \in {k} \X DOMAIN nodes[k]
    BY Zenon
  <2> QED BY <2>1 DEF UsedIdxs
<1>4. UsedIdxs[<<k, i>>] = nodes[k][i].index
  BY <1>3, Zenon DEF UsedIdxs
<1> QED BY <1>2, <1>3, <1>4, Zenon

LEMMA OptsKeeps == ASSUME ResolverInv, BootUsed \/ LoadOpts PROVE ResolverInv'
<1>1. PICK g \in Groups, after \in {"load", "done"} :
        /\ Start(UsedIdxs, g, after)
        /\ \/ after = "load" /\ g = "clients" /\ stage = "opts"
           \/ after = "done" /\ g = "buildOpts" /\ stage = "load"
  BY Zenon DEF BootUsed, LoadOpts, Boot, Groups
<1>2. UNCHANGED <<config, cache, calls, nodes>> /\ Used' = Used
  BY SameUsed, Zenon DEF BootUsed, LoadOpts
<1>3. asking' = g /\ resume' = after
  BY <1>1, Zenon DEF Start
<1>4. /\ Asked' /\ stage' = "flight" /\ \A j \in DOMAIN jobs' : jobs'[j][2] # "ended"
      /\ DOMAIN jobs' = DOMAIN UsedIdxs /\ \A j \in DOMAIN UsedIdxs : jobs'[j][1] = UsedIdxs[j]
  BY <1>1, <1>2, StartsFresh, Zenon
<1>5. Flights'
  BY <1>1, <1>2, <1>3, <1>4, Zenon DEF ResolverInv, Flights
<1>6. \A n \in Used' : \E j \in DOMAIN jobs' : jobs'[j][1] = n
  <2>1. \A n \in Used : \E j \in DOMAIN jobs' : jobs'[j][1] = n
    <3> TAKE n \in Used
    <3>1. PICK at \in DOMAIN UsedIdxs : UsedIdxs[at] = n
      BY UsedAreAsked, Zenon
    <3>2. at \in DOMAIN jobs' /\ jobs'[at][1] = n
      BY <1>4, <3>1, Zenon
    <3> QED BY <3>2, Zenon
  <2> QED BY <1>2, <2>1, Zenon
<1>7. after = "done" => ready("clients")'
  BY <1>1, <1>2, Zenon DEF ResolverInv, Covered, ready, config
<1>8. Covered'
  BY <1>3, <1>4, <1>6, <1>7, Zenon DEF Covered
<1> QED BY <1>4, <1>5, <1>8, Zenon DEF ResolverInv

(* Between flights only the stage and the targets change.                   *)
LEMMA StagesKeep ==
    ASSUME ResolverInv, stage \in {"strict", "workers", "again"}, stage' \in {"again", "opts", "failed"},
           UNCHANGED <<config, asking, resume, jobs, cache, calls>>
    PROVE  ResolverInv'
<1>1. Asked'
  BY Zenon DEF ResolverInv, Asked, config
<1>2. Flights' /\ Covered'
  BY Zenon DEF ResolverInv, Flights, Covered
<1> QED BY <1>1, <1>2, Zenon DEF ResolverInv

-----------------------------------------------------------------------------
(* cachedGroup: the steps of its goroutines.                                *)
LEMMA JobMoves ==
    ASSUME NEW j \in DOMAIN jobs, NEW state, To(j, state)
    PROVE  /\ DOMAIN jobs' = DOMAIN jobs
           /\ \A i \in DOMAIN jobs : jobs'[i][1] = jobs[i][1]
           /\ jobs'[j][2] = state
           /\ \A i \in DOMAIN jobs : i # j => jobs'[i][2] = jobs[i][2]
<1>1. jobs' = [jobs EXCEPT ![j] = <<jobs[j][1], state>>]
  BY Zenon DEF To
<1>2. <<jobs[j][1], state>>[1] = jobs[j][1] /\ <<jobs[j][1], state>>[2] = state
  BY Zenon
<1> QED BY <1>1, <1>2, Zenon

LEMMA CoveredStays ==
    ASSUME Covered, UNCHANGED <<nodes, driverless, stage, resume>>,
           \A g \in Groups : cache[g] \subseteq cache'[g],
           DOMAIN jobs' = DOMAIN jobs, \A i \in DOMAIN jobs : jobs'[i][1] = jobs[i][1]
    PROVE  Covered'
<1>1. Used' = Used
  BY SameUsed, Zenon
<1>2. "clients" \in Groups /\ "buildOpts" \in Groups
  BY Zenon DEF Groups
<1>3. (ready("clients") => ready("clients")') /\ (ready("buildOpts") => ready("buildOpts")')
  BY <1>1, <1>2, Zenon DEF ready
<1>4. (\A n \in Used : \E j \in DOMAIN jobs : jobs[j][1] = n) =>
      \A n \in Used' : \E j \in DOMAIN jobs' : jobs'[j][1] = n
  BY <1>1, Zenon
<1> QED BY <1>3, <1>4, Zenon DEF Covered

LEMMA JoinKeeps == ASSUME ResolverInv, NEW j \in DOMAIN jobs, Join(j) PROVE ResolverInv'
<1>1. /\ stage = "flight" /\ jobs[j][2] = "start"
      /\ UNCHANGED <<list, driverless, stage, asking, resume, nodes, cache, calls>>
  BY Zenon DEF Join, config
<1>2. PICK state \in {"ended", "joined"} :
        To(j, state) /\ (state = "ended" => Known(jobs[j][1]))
  BY Zenon DEF Join
<1>3. /\ DOMAIN jobs' = DOMAIN jobs /\ \A i \in DOMAIN jobs : jobs'[i][1] = jobs[i][1]
      /\ jobs'[j][2] = state /\ \A i \in DOMAIN jobs : i # j => jobs'[i][2] = jobs[i][2]
  BY <1>2, JobMoves, Zenon
<1>4. \A n : InFlight(n) => InFlight(n)'
  BY <1>1, <1>3, Zenon DEF InFlight
<1>5. Asked'
  BY <1>1, <1>4, Zenon DEF ResolverInv, Asked
<1>6. Flights'
  BY <1>1, <1>2, <1>3, Zenon DEF ResolverInv, Flights, Known
<1>7. Covered'
  BY <1>1, <1>3, CoveredStays, Zenon DEF ResolverInv
<1> QED BY <1>5, <1>6, <1>7, Zenon DEF ResolverInv

LEMMA AskKeeps == ASSUME ResolverInv, NEW j \in DOMAIN jobs, Ask(j) PROVE ResolverInv'
<1>0. PICK n : n = jobs[j][1]
  OBVIOUS
<1>1. /\ stage = "flight" /\ To(j, "flight") /\ ~InFlight(n) /\ n \notin cache[asking]
      /\ UNCHANGED <<list, driverless, stage, asking, resume, nodes, cache>>
      /\ calls' = [calls EXCEPT ![asking][n] = @ + 1] /\ asking \in Groups
      /\ jobs[j][2] = "start"
  BY <1>0, Zenon DEF Ask, Known, config, ResolverInv, Flights
<1>2. /\ DOMAIN jobs' = DOMAIN jobs /\ \A i \in DOMAIN jobs : jobs'[i][1] = jobs[i][1]
      /\ jobs'[j][2] = "flight" /\ \A i \in DOMAIN jobs : i # j => jobs'[i][2] = jobs[i][2]
  BY <1>1, JobMoves, Zenon
<1>3. InFlight(n)' /\ \A m : InFlight(m) => InFlight(m)'
  <2>1. InFlight(n)'
    BY <1>0, <1>2, Zenon DEF InFlight
  <2>2. \A i \in DOMAIN jobs : jobs[i][2] = "flight" => jobs'[i][2] = "flight"
    BY <1>2, Zenon
  <2>3. \A m : InFlight(m) => InFlight(m)'
    BY <1>2, <2>2, Zenon DEF InFlight
  <2> QED BY <2>1, <2>3, Zenon
<1>4. calls \in [Groups -> [DOMAIN list -> {0, 1}]]
  BY Zenon DEF ResolverInv, Asked
<1>5. n \in DOMAIN list => calls[asking][n] = 0
  <2>1. n \in DOMAIN list => calls[asking][n] # 1
    BY <1>1, Zenon DEF ResolverInv, Asked
  <2>2. n \in DOMAIN list => calls[asking][n] \in {0, 1}
    BY <1>1, <1>4, Zenon
  <2> QED BY <2>1, <2>2, Zenon
<1>6. /\ calls' \in [Groups -> [DOMAIN list -> {0, 1}]]
      /\ \A g \in Groups : \A i \in DOMAIN list :
            calls'[g][i] = 1 => calls[g][i] = 1 \/ (g = asking /\ i = n)
  <2> DEFINE c == [calls[asking] EXCEPT ![n] = calls[asking][n] + 1]
  <2>1. calls' = [calls EXCEPT ![asking] = c]
    BY <1>1, Zenon
  <2>2. calls[asking] \in [DOMAIN list -> {0, 1}]
    BY <1>1, <1>4, Zenon
  <2>3. 0 + 1 = 1
    OBVIOUS
  <2>4. n \in DOMAIN list => calls[asking][n] + 1 = 1
    BY <1>5, <2>3, Zenon
  <2>5. c \in [DOMAIN list -> {0, 1}] /\ \A i \in DOMAIN list : i # n => c[i] = calls[asking][i]
    BY <2>2, <2>4, Zenon
  <2> HIDE DEF c
  <2>6. \A g \in Groups : calls'[g] = IF g = asking THEN c ELSE calls[g]
    BY <1>4, <2>1, Zenon
  <2> QED BY <1>1, <1>4, <2>1, <2>5, <2>6, Zenon
<1>9. Asked'
  <2>1. list' = list /\ cache' = cache /\ asking' = asking /\ stage' = "flight"
    BY <1>1, Zenon
  <2>2. ASSUME NEW g \in Groups, NEW i \in DOMAIN list, calls[g][i] = 1
        PROVE  i \in cache[g] \/ (g = asking /\ InFlight(i)')
    BY <1>3, <2>2, Zenon DEF ResolverInv, Asked
  <2>3. ASSUME NEW g \in Groups, NEW i \in DOMAIN list, calls'[g][i] = 1
        PROVE  i \in cache[g] \/ (g = asking /\ InFlight(i)')
    BY <1>3, <1>6, <2>2, <2>3, Zenon
  <2> QED BY <1>6, <2>1, <2>3, Zenon DEF Asked
<1>7. Flights'
  BY <1>1, <1>2, Zenon DEF ResolverInv, Flights, Known
<1>8. Covered'
  BY <1>1, <1>2, CoveredStays, Zenon DEF ResolverInv
<1> QED BY <1>7, <1>8, <1>9, Zenon DEF ResolverInv

LEMMA AnsweredKeeps == ASSUME ResolverInv, NEW j \in DOMAIN jobs, Answered(j) PROVE ResolverInv'
<1> DEFINE n == jobs[j][1]
<1>1. /\ stage = "flight" /\ cache' = [cache EXCEPT ![asking] = @ \cup {n}]
      /\ UNCHANGED <<list, driverless, stage, asking, resume, nodes, calls>>
      /\ asking \in Groups /\ DOMAIN cache = Groups
  BY Zenon DEF Answered, config, ResolverInv, Flights
<1>2. /\ DOMAIN cache' = Groups /\ n \in cache'[asking] /\ \A g \in Groups : cache[g] \subseteq cache'[g]
  BY <1>1, Zenon
<1>3. /\ DOMAIN jobs' = DOMAIN jobs
      /\ \A i \in DOMAIN jobs : IF jobs[i][1] = n /\ jobs[i][2] \in {"flight", "joined"}
                                THEN jobs'[i] = <<jobs[i][1], "ended">> ELSE jobs'[i] = jobs[i]
  BY Zenon DEF Answered
<1>4. \A x : <<x, "ended">>[1] = x
  BY Zenon
<1>5. /\ \A i \in DOMAIN jobs : jobs'[i][1] = jobs[i][1]
      /\ \A i \in DOMAIN jobs : jobs[i][1] # n => jobs'[i] = jobs[i]
      /\ \A i \in DOMAIN jobs : jobs'[i][2] = "ended" => jobs[i][1] = n \/ jobs[i][2] = "ended"
  BY <1>3, <1>4, Zenon
<1> HIDE DEF n
<1>6. \A m : InFlight(m) => m = n \/ InFlight(m)'
  BY <1>3, <1>5, Zenon DEF InFlight
<1>7. Asked'
  BY <1>1, <1>2, <1>6, Zenon DEF ResolverInv, Asked
<1>8. Flights'
  BY <1>1, <1>2, <1>3, <1>5, Zenon DEF ResolverInv, Flights, Known
<1>9. Covered'
  BY <1>1, <1>2, <1>3, <1>5, CoveredStays, Zenon DEF ResolverInv
<1> QED BY <1>7, <1>8, <1>9, Zenon DEF ResolverInv

LEMMA FailureKeeps == ASSUME ResolverInv, NEW j \in DOMAIN jobs, AskFails(j) PROVE ResolverInv'
<1>1. /\ stage = "flight" /\ stage' = "failed"
      /\ UNCHANGED <<list, driverless, asking, resume, nodes, jobs, cache, calls>>
  BY Zenon DEF AskFails, config
<1>2. Asked'
  <2>1. \A n : InFlight(n) => InFlight(n)'
    BY <1>1, Zenon DEF InFlight
  <2> QED BY <1>1, <2>1, Zenon DEF ResolverInv, Asked
<1> QED BY <1>1, <1>2, Zenon DEF ResolverInv, Flights, Covered

(* When all goroutines have ended every node they were for is known.        *)
LEMMA EndKeeps == ASSUME ResolverInv, FlightEnds PROVE ResolverInv'
<1>1. /\ stage = "flight" /\ \A j \in DOMAIN jobs : jobs[j][2] = "ended"
      /\ stage' = resume /\ jobs' = <<>>
      /\ UNCHANGED <<list, driverless, asking, resume, nodes, cache, calls>>
  BY Zenon DEF FlightEnds, config
<1>2. Asked'
  <2>1. \A n : ~InFlight(n)
    BY <1>1, Zenon DEF InFlight
  <2> QED BY <1>1, <2>1, Zenon DEF ResolverInv, Asked
<1>3. DOMAIN jobs' = {}
  BY <1>1
<1>4. Flights'
  BY <1>1, <1>3, Zenon DEF ResolverInv, Flights
<1>5. ASSUME resume \in {"load", "done"} PROVE ready(asking)
  <2> SUFFICES ASSUME NEW n \in Used PROVE n \in cache[asking] \cup driverless
    BY Zenon DEF ready
  <2>1. PICK j \in DOMAIN jobs : jobs[j][1] = n
    BY <1>1, <1>5, Zenon DEF ResolverInv, Covered
  <2>2. Known(jobs[j][1])
    BY <1>1, Zenon DEF ResolverInv, Flights
  <2> QED BY <2>1, <2>2, Zenon DEF Known
<1>6. Used' = Used
  BY <1>1, SameUsed, Zenon
<1>7. Covered'
  BY <1>1, <1>5, <1>6, Zenon DEF ResolverInv, Flights, Covered, ready
<1> QED BY <1>2, <1>4, <1>7, Zenon DEF ResolverInv

LEMMA ResolverKept == ResolverInv /\ [Next]_vars => ResolverInv'
<1> SUFFICES ASSUME ResolverInv, [Next]_vars PROVE ResolverInv'
  BY Zenon
<1>1. ASSUME NEW k \in Targets, ResolveStrictly(k) PROVE ResolverInv'
  BY <1>1, ResolvingKeeps, Zenon DEF ResolveStrictly
<1>2. ASSUME NEW k \in Targets, ResolveAgain(k) PROVE ResolverInv'
  BY <1>2, ResolvingKeeps, Zenon DEF ResolveAgain
<1>3. CASE BootAll
  BY <1>3, ResolvingKeeps, Zenon DEF BootAll
<1>4. CASE StrictDone \/ AgainDone \/ ListWorkers \/ ListWorkersFails
  BY <1>4, StagesKeep, Zenon DEF StrictDone, AgainDone, ListWorkers, ListWorkersFails
<1>5. CASE BootUsed \/ LoadOpts
  BY <1>5, OptsKeeps, Zenon
<1>6. ASSUME NEW j \in DOMAIN jobs, Join(j) \/ Ask(j) \/ Answered(j) \/ AskFails(j) PROVE ResolverInv'
  BY <1>6, JoinKeeps, AskKeeps, AnsweredKeeps, FailureKeeps, Zenon
<1>7. CASE FlightEnds
  BY <1>7, EndKeeps, Zenon
<1>8. CASE UNCHANGED vars
  <2>1. UNCHANGED <<list, driverless, stage, asking, resume, nodes, jobs, cache, calls>> /\ Used' = Used
    BY <1>8, SameUsed, Zenon DEF vars
  <2>2. Asked'
    <3>1. \A n : InFlight(n) => InFlight(n)'
      BY <2>1, Zenon DEF InFlight
    <3> QED BY <2>1, <3>1, Zenon DEF ResolverInv, Asked
  <2>3. Flights' /\ Covered'
    BY <2>1, Zenon DEF ResolverInv, Flights, Covered, ready, Known
  <2> QED BY <2>2, <2>3, Zenon DEF ResolverInv
<1> QED BY <1>1, <1>2, <1>3, <1>4, <1>5, <1>6, <1>7, <1>8, Zenon DEF Next

-----------------------------------------------------------------------------
(* boot and opts ask no node twice, although the goroutines of several      *)
(* targets want the same one, and when Resolve is done every node in use    *)
(* that has a driver was booted and asked for its capabilities.             *)
THEOREM NodesAskedOnce == Spec => []AskedOnce
<1>1. ResolverInv => AskedOnce
  <2> SUFFICES ASSUME ResolverInv PROVE AskedOnce
    BY Zenon
  <2>1. \A g \in Groups : \A i \in DOMAIN list : calls[g][i] \in {0, 1}
    BY Zenon DEF ResolverInv, Asked
  <2>2. \A x \in {0, 1} : x <= 1
    OBVIOUS
  <2>3. stage = "done" => \A g \in Groups : Used \subseteq cache[g] \cup driverless
    BY Zenon DEF ResolverInv, Covered, ready, Groups
  <2> QED BY <2>1, <2>2, <2>3, Zenon DEF AskedOnce
<1> QED BY <1>1, ResolverInitially, ResolverKept, PTL DEF Spec
=============================================================================
