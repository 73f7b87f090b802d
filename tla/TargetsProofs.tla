--------------------------- MODULE TargetsProofs ---------------------------
(***************************************************************************)
(* Proofs about Targets.tla, for every set of targets, nodes, links and    *)
(* assignments of nodes.                                                   *)
(***************************************************************************)
EXTENDS Targets, FiniteSetTheorems, TLAPS

\* The entries of the wait map and its channels agree.
ChInv == \A k \in Keys : ch[k] = "nil" <=> k \in m

\* The keys a request no longer waits for are set.
DepsInv ==
  \A r \in Keys :
    /\ pc[r] = "deps" => Contexts(r) \ pending[r] \subseteq m
    /\ pc[r] = "solve" => Contexts(r) \subseteq m

\* A result is published between "solve" and what follows it.
SolvedInv ==
  \A r \in Keys :
    /\ pc[r] \in {"idle", "deps", "solve"} => r \notin m
    /\ pc[r] \in {"children", "evaluate", "export", "done"} => r \in m

AtInv ==
  \A r \in Keys :
    at[r] # None => pc[r] \in {"deps", "children"} /\ at[r] \in pending[r]

\* How far the loop has come, and which goroutines that has started.
LoopInv ==
  /\ cur # None =>
       cur \in todo /\ left \subseteq drivers[cur] /\ main \in {"loop", "error"}
  /\ main = "start" => todo = Targets
  /\ main \in {"wait", "ok"} => todo = {}
  /\ \A t \in Targets : waiter[t] = "none" <=> t \in todo
  /\ \A r \in Keys :
       pc[r] = "idle" <=>
         \/ r[2] \notin drivers[r[1]]
         \/ r[1] \in todo /\ (r[1] = cur => r[2] \in left)

\* What the groups know of their goroutines.
GroupInv ==
  /\ \A r \in Keys : pc[r] = "failed" => r[1] \in targetErr
  /\ \A t \in Targets :
       waiter[t] \in {"merge", "done"}
         => t \in resp /\ \A n \in drivers[t] : pc[<<t, n>>] = "done"
  /\ \A t \in Targets : waiter[t] = "failed" => buildErr /\ GroupEnded(t)
  /\ main = "ok" => \A t \in Targets : waiter[t] = "done"
  /\ main = "error" =>
       \/ \E t \in Targets : waiter[t] = "none"
       \/ \A t \in Targets : waiter[t] \in {"done", "failed"}

Users(n) == {r \in Keys : r[2] = n /\ Active(r)}

IInv ==
  /\ TypeOK /\ ChInv /\ DepsInv /\ SolvedInv /\ AtInv /\ LoopInv /\ GroupInv
  /\ SessionsCounted

-----------------------------------------------------------------------------
\* The keys of one node are finitely many, and so are the users of a session.
LEMMA UsersFinite ==
  ASSUME NEW n \in Nodes
  PROVE  IsFiniteSet(Users(n))
<1>1. IsFiniteSet(Keys)
  BY FS_Product, ConstantsAssumption, Zenon DEF Keys
<1> QED
  BY <1>1, FS_Subset, Zenon DEF Users

\* The initial state satisfies the inductive invariant.
LEMMA InitIInv == Init => IInv
<1> SUFFICES ASSUME Init PROVE IInv
  BY Zenon
<1>1. TypeOK
  BY ConstantsAssumption, Zenon DEF Init, TypeOK, Keys, Results!New
<1>2. ChInv /\ DepsInv /\ SolvedInv /\ AtInv
  BY Zenon DEF Init, ChInv, DepsInv, SolvedInv, AtInv, Results!New, Keys
<1>3. LoopInv /\ GroupInv
  BY ConstantsAssumption, Zenon DEF Init, LoopInv, GroupInv, Keys
<1>4. ASSUME NEW n \in Nodes PROVE Users(n) = {}
  BY Zenon DEF Init, Users, Active, Keys
<1>5. SessionsCounted
  BY <1>4, FS_EmptySet, Zenon DEF Init, SessionsCounted, Users
<1> QED BY <1>1, <1>2, <1>3, <1>5, Zenon DEF IInv

\* The wait groups count the same requests when none starts or ends.
LEMMA CountKept ==
  ASSUME SessionsCounted, UNCHANGED <<drivers, wg>>,
         \A r \in Keys : Active(r)' = Active(r)
  PROVE  SessionsCounted'
<1>1. ASSUME NEW n \in Nodes PROVE Users(n)' = Users(n)
  BY Zenon DEF Users, Keys
<1>2. ASSUME NEW n \in Nodes PROVE Shared(n)' = Shared(n)
  BY Zenon DEF Shared
<1> QED BY <1>1, <1>2, Zenon DEF SessionsCounted, Users

\* A request that starts joins the wait group of its node.
LEMMA CountUp ==
  ASSUME TypeOK, SessionsCounted, NEW r \in Keys, pc[r] = "idle",
         pc' = [pc EXCEPT ![r] = "deps"], UNCHANGED drivers, JoinSessions(r[2])
  PROVE  SessionsCounted' /\ wg' \in [Nodes -> Nat]
<1>1. r[2] \in Nodes
  BY Zenon DEF Keys
<1>2. Users(r[2])' = Users(r[2]) \cup {r} /\ r \notin Users(r[2])
  BY Zenon DEF Users, Keys, Active, Ended, TypeOK
<1>3. ASSUME NEW n \in Nodes, n # r[2] PROVE Users(n)' = Users(n)
  BY <1>3, Zenon DEF Users, Keys, Active, Ended, TypeOK
<1>4. ASSUME NEW n \in Nodes PROVE Shared(n)' = Shared(n)
  BY Zenon DEF Shared
<1>5. Cardinality(Users(r[2])') = Cardinality(Users(r[2])) + 1
  BY <1>1, <1>2, UsersFinite, FS_AddElement, Zenon
<1>6. wg' \in [Nodes -> Nat]
  BY <1>1 DEF JoinSessions, sessionVars, TypeOK
<1>7. ASSUME NEW n \in Nodes
      PROVE  wg'[n] = IF Shared(n) THEN Cardinality(Users(n)') ELSE 0
  <2>1. CASE n = r[2] /\ Shared(n)
    BY <2>1, <1>5 DEF JoinSessions, TypeOK, SessionsCounted, Users
  <2>2. CASE n = r[2] /\ ~ Shared(n)
    BY <2>2, Zenon DEF JoinSessions, sessionVars, SessionsCounted
  <2>3. CASE n # r[2]
    BY <2>3, <1>3, Zenon DEF JoinSessions, sessionVars, TypeOK, SessionsCounted, Users
  <2> QED BY <2>1, <2>2, <2>3, Zenon
<1> QED BY <1>4, <1>6, <1>7, Zenon DEF SessionsCounted, Users

\* A request that ends leaves it, and the count stays a natural number.
LEMMA CountDown ==
  ASSUME TypeOK, SessionsCounted, NEW r \in Keys, Active(r),
         NEW x \in {"done", "failed"},
         pc' = [pc EXCEPT ![r] = x], UNCHANGED drivers, LeaveSessions(r)
  PROVE  SessionsCounted' /\ wg' \in [Nodes -> Nat]
<1>1. r[2] \in Nodes
  BY Zenon DEF Keys
<1>2. Users(r[2])' = Users(r[2]) \ {r} /\ r \in Users(r[2])
  BY Zenon DEF Users, Keys, Active, Ended, TypeOK
<1>3. ASSUME NEW n \in Nodes, n # r[2] PROVE Users(n)' = Users(n)
  BY <1>3, Zenon DEF Users, Keys, Active, Ended, TypeOK
<1>4. ASSUME NEW n \in Nodes PROVE Shared(n)' = Shared(n)
  BY Zenon DEF Shared
<1>5. Cardinality(Users(r[2])') = Cardinality(Users(r[2])) - 1
  BY <1>1, <1>2, UsersFinite, FS_RemoveElement
<1>6. Cardinality(Users(r[2])') \in Nat
  <2>1. IsFiniteSet(Users(r[2])')
    BY <1>1, <1>2, UsersFinite, FS_RemoveElement, Zenon
  <2> QED BY <2>1, FS_CardinalityType, Zenon
<1>7. ASSUME NEW n \in Nodes
      PROVE  wg'[n] = IF Shared(n) THEN Cardinality(Users(n)') ELSE 0
  <2>1. CASE n = r[2] /\ Shared(n)
    BY <2>1, <1>5 DEF LeaveSessions, TypeOK, SessionsCounted, Users
  <2>2. CASE n = r[2] /\ ~ Shared(n)
    BY <2>2, Zenon DEF LeaveSessions, SessionsCounted
  <2>3. CASE n # r[2]
    BY <2>3, <1>3, Zenon DEF LeaveSessions, TypeOK, SessionsCounted, Users
  <2> QED BY <2>1, <2>2, <2>3, Zenon
<1>8. wg' \in [Nodes -> Nat]
  <2>1. CASE Shared(r[2])
    <3>1. wg'[r[2]] \in Nat
      BY <2>1, <1>1, <1>6, <1>7, Zenon
    <3>2. wg' = [wg EXCEPT ![r[2]] = wg'[r[2]]]
      BY <2>1, <1>1, Zenon DEF LeaveSessions, TypeOK
    <3> QED BY <3>1, <3>2, Zenon DEF TypeOK
  <2>2. CASE ~ Shared(r[2])
    BY <2>2, Zenon DEF LeaveSessions, TypeOK
  <2> QED BY <2>1, <2>2, Zenon
<1> QED BY <1>4, <1>7, <1>8, Zenon DEF SessionsCounted, Users

-----------------------------------------------------------------------------
(* One lemma per action: it preserves the inductive invariant.             *)

\* Validation only decides where the call goes.
LEMMA ValidateStep ==
  ASSUME IInv, Validate
  PROVE  IInv'
<1> USE ConstantsAssumption DEF IInv, Keys
<1>1. TypeOK'
  BY Zenon DEF TypeOK, Validate, mainVars, requestVars, groupVars, sessionVars
<1>2. ChInv' /\ AtInv'
  BY Zenon DEF TypeOK, ChInv, AtInv, Validate, mainVars, requestVars, groupVars, sessionVars
<1>3. DepsInv'
  BY DEF TypeOK, DepsInv, ChInv, AtInv, Contexts, Validate, mainVars, requestVars, groupVars, sessionVars
<1>4. SolvedInv'
  BY Zenon DEF TypeOK, SolvedInv, AtInv, LoopInv, Validate, mainVars, requestVars, groupVars, sessionVars
<1>5. LoopInv'
  BY Zenon DEF TypeOK, LoopInv, AtInv, Requests, Validate, mainVars, requestVars, groupVars, sessionVars
<1>6. GroupInv'
  BY Zenon DEF TypeOK, GroupInv, LoopInv, AtInv, GroupEnded, Ended, Validate, mainVars, requestVars, groupVars, sessionVars
<1>7. SessionsCounted'
  <2>1. UNCHANGED <<drivers, wg>> /\ \A x \in Keys : Active(x)' = Active(x)
    BY Zenon DEF TypeOK, Active, Ended, Validate, mainVars, requestVars, groupVars, sessionVars
  <2> QED BY <2>1, CountKept, Zenon
<1> QED BY <1>1, <1>2, <1>3, <1>4, <1>5, <1>6, <1>7, Zenon

\* A failed setup returns before anything was started.
LEMMA SetupFailsStep ==
  ASSUME IInv, SetupFails
  PROVE  IInv'
<1> USE ConstantsAssumption DEF IInv, Keys
<1>1. TypeOK'
  BY Zenon DEF TypeOK, SetupFails, mainVars, requestVars, groupVars, sessionVars
<1>2. ChInv' /\ AtInv'
  BY Zenon DEF TypeOK, ChInv, AtInv, SetupFails, mainVars, requestVars, groupVars, sessionVars
<1>3. DepsInv'
  BY DEF TypeOK, DepsInv, ChInv, AtInv, Contexts, SetupFails, mainVars, requestVars, groupVars, sessionVars
<1>4. SolvedInv'
  BY Zenon DEF TypeOK, SolvedInv, AtInv, LoopInv, SetupFails, mainVars, requestVars, groupVars, sessionVars
<1>5. LoopInv'
  BY Zenon DEF TypeOK, LoopInv, AtInv, Requests, SetupFails, mainVars, requestVars, groupVars, sessionVars
<1>6. GroupInv'
  BY Zenon DEF TypeOK, GroupInv, LoopInv, AtInv, GroupEnded, Ended, SetupFails, mainVars, requestVars, groupVars, sessionVars
<1>7. SessionsCounted'
  <2>1. UNCHANGED <<drivers, wg>> /\ \A x \in Keys : Active(x)' = Active(x)
    BY Zenon DEF TypeOK, Active, Ended, SetupFails, mainVars, requestVars, groupVars, sessionVars
  <2> QED BY <2>1, CountKept, Zenon
<1> QED BY <1>1, <1>2, <1>3, <1>4, <1>5, <1>6, <1>7, Zenon

\* A return from the loop leaves the current target without its waiter.
LEMMA StartFailsStep ==
  ASSUME IInv, StartFails
  PROVE  IInv'
<1> USE ConstantsAssumption DEF IInv, Keys
<1>1. TypeOK'
  BY Zenon DEF TypeOK, StartFails, mainVars, requestVars, groupVars, sessionVars
<1>2. ChInv' /\ AtInv'
  BY Zenon DEF TypeOK, ChInv, AtInv, StartFails, mainVars, requestVars, groupVars, sessionVars
<1>3. DepsInv'
  BY Zenon DEF TypeOK, DepsInv, ChInv, AtInv, Contexts, StartFails, mainVars, requestVars, groupVars, sessionVars
<1>4. SolvedInv'
  BY Zenon DEF TypeOK, SolvedInv, AtInv, LoopInv, StartFails, mainVars, requestVars, groupVars, sessionVars
<1>5. LoopInv'
  BY Zenon DEF TypeOK, LoopInv, AtInv, Requests, StartFails, mainVars, requestVars, groupVars, sessionVars
<1>6. GroupInv'
  BY DEF TypeOK, GroupInv, LoopInv, AtInv, GroupEnded, Ended, StartFails, mainVars, requestVars, groupVars, sessionVars
<1>7. SessionsCounted'
  <2>1. UNCHANGED <<drivers, wg>> /\ \A x \in Keys : Active(x)' = Active(x)
    BY Zenon DEF TypeOK, Active, Ended, StartFails, mainVars, requestVars, groupVars, sessionVars
  <2> QED BY <2>1, CountKept, Zenon
<1> QED BY <1>1, <1>2, <1>3, <1>4, <1>5, <1>6, <1>7, Zenon

\* The target of the iteration gets its waiter when all its requests run.
LEMMA StartWaiterStep ==
  ASSUME IInv, StartWaiter
  PROVE  IInv'
<1> USE ConstantsAssumption DEF IInv, Keys
<1>1. TypeOK'
  BY Zenon DEF TypeOK, StartWaiter, mainVars, requestVars, groupVars, sessionVars
<1>2. ChInv' /\ AtInv'
  BY Zenon DEF TypeOK, ChInv, AtInv, StartWaiter, mainVars, requestVars, groupVars, sessionVars
<1>3. DepsInv'
  BY Zenon DEF TypeOK, DepsInv, ChInv, AtInv, Contexts, StartWaiter, mainVars, requestVars, groupVars, sessionVars
<1>4. SolvedInv'
  BY Zenon DEF TypeOK, SolvedInv, AtInv, LoopInv, StartWaiter, mainVars, requestVars, groupVars, sessionVars
<1>5. LoopInv'
  BY DEF TypeOK, LoopInv, AtInv, Requests, StartWaiter, mainVars, requestVars, groupVars, sessionVars
<1>6. GroupInv'
  BY DEF TypeOK, GroupInv, LoopInv, AtInv, GroupEnded, Ended, StartWaiter, mainVars, requestVars, groupVars, sessionVars
<1>7. SessionsCounted'
  <2>1. UNCHANGED <<drivers, wg>> /\ \A x \in Keys : Active(x)' = Active(x)
    BY Zenon DEF TypeOK, Active, Ended, StartWaiter, mainVars, requestVars, groupVars, sessionVars
  <2> QED BY <2>1, CountKept, Zenon
<1> QED BY <1>1, <1>2, <1>3, <1>4, <1>5, <1>6, <1>7, Zenon

\* The loop ends when no target is left.
LEMMA AllStartedStep ==
  ASSUME IInv, AllStarted
  PROVE  IInv'
<1> USE ConstantsAssumption DEF IInv, Keys
<1>1. TypeOK'
  BY Zenon DEF TypeOK, AllStarted, mainVars, requestVars, groupVars, sessionVars
<1>2. ChInv' /\ AtInv'
  BY Zenon DEF TypeOK, ChInv, AtInv, AllStarted, mainVars, requestVars, groupVars, sessionVars
<1>3. DepsInv'
  BY Zenon DEF TypeOK, DepsInv, ChInv, AtInv, Contexts, AllStarted, mainVars, requestVars, groupVars, sessionVars
<1>4. SolvedInv'
  BY Zenon DEF TypeOK, SolvedInv, AtInv, LoopInv, AllStarted, mainVars, requestVars, groupVars, sessionVars
<1>5. LoopInv'
  BY Zenon DEF TypeOK, LoopInv, AtInv, Requests, AllStarted, mainVars, requestVars, groupVars, sessionVars
<1>6. GroupInv'
  BY DEF TypeOK, GroupInv, LoopInv, AtInv, GroupEnded, Ended, AllStarted, mainVars, requestVars, groupVars, sessionVars
<1>7. SessionsCounted'
  <2>1. UNCHANGED <<drivers, wg>> /\ \A x \in Keys : Active(x)' = Active(x)
    BY Zenon DEF TypeOK, Active, Ended, AllStarted, mainVars, requestVars, groupVars, sessionVars
  <2> QED BY <2>1, CountKept, Zenon
<1> QED BY <1>1, <1>2, <1>3, <1>4, <1>5, <1>6, <1>7, Zenon

\* The call returns when every waiter is over.
LEMMA ReturnStep ==
  ASSUME IInv, Return
  PROVE  IInv'
<1> USE ConstantsAssumption DEF IInv, Keys
<1>1. TypeOK'
  BY Zenon DEF TypeOK, Return, mainVars, requestVars, groupVars, sessionVars
<1>2. ChInv' /\ AtInv'
  BY Zenon DEF TypeOK, ChInv, AtInv, Return, mainVars, requestVars, groupVars, sessionVars
<1>3. DepsInv'
  BY DEF TypeOK, DepsInv, ChInv, AtInv, Contexts, Return, mainVars, requestVars, groupVars, sessionVars
<1>4. SolvedInv'
  BY Zenon DEF TypeOK, SolvedInv, AtInv, LoopInv, Return, mainVars, requestVars, groupVars, sessionVars
<1>5. LoopInv'
  BY Zenon DEF TypeOK, LoopInv, AtInv, Requests, Return, mainVars, requestVars, groupVars, sessionVars
<1>6. GroupInv'
  BY Zenon DEF TypeOK, GroupInv, LoopInv, AtInv, GroupEnded, Ended, Return, mainVars, requestVars, groupVars, sessionVars
<1>7. SessionsCounted'
  <2>1. UNCHANGED <<drivers, wg>> /\ \A x \in Keys : Active(x)' = Active(x)
    BY Zenon DEF TypeOK, Active, Ended, Return, mainVars, requestVars, groupVars, sessionVars
  <2> QED BY <2>1, CountKept, Zenon
<1> QED BY <1>1, <1>2, <1>3, <1>4, <1>5, <1>6, <1>7, Zenon

\* The loop turns to a target that has no request yet.
LEMMA NextTargetStep ==
  ASSUME IInv, NEW t \in Targets, NextTarget(t)
  PROVE  IInv'
<1> USE ConstantsAssumption DEF IInv, Keys
<1>1. TypeOK'
  BY DEF TypeOK, NextTarget, mainVars, requestVars, groupVars, sessionVars
<1>2. ChInv' /\ AtInv'
  BY Zenon DEF TypeOK, ChInv, AtInv, NextTarget, mainVars, requestVars, groupVars, sessionVars
<1>3. DepsInv'
  BY Zenon DEF TypeOK, DepsInv, ChInv, AtInv, Contexts, NextTarget, mainVars, requestVars, groupVars, sessionVars
<1>4. SolvedInv'
  BY Zenon DEF TypeOK, SolvedInv, AtInv, LoopInv, NextTarget, mainVars, requestVars, groupVars, sessionVars
<1>5. LoopInv'
  BY DEF TypeOK, LoopInv, AtInv, Requests, NextTarget, mainVars, requestVars, groupVars, sessionVars
<1>6. GroupInv'
  BY DEF TypeOK, GroupInv, LoopInv, AtInv, GroupEnded, Ended, NextTarget, mainVars, requestVars, groupVars, sessionVars
<1>7. SessionsCounted'
  <2>1. UNCHANGED <<drivers, wg>> /\ \A x \in Keys : Active(x)' = Active(x)
    BY Zenon DEF TypeOK, Active, Ended, NextTarget, mainVars, requestVars, groupVars, sessionVars
  <2> QED BY <2>1, CountKept, Zenon
<1> QED BY <1>1, <1>2, <1>3, <1>4, <1>5, <1>6, <1>7, Zenon

\* A request is started once, on a node of its target.
LEMMA StartRequestStep ==
  ASSUME IInv, NEW n \in Nodes, StartRequest(n)
  PROVE  IInv'
<1> USE ConstantsAssumption DEF IInv, Keys
<1>a. <<cur, n>> \in Keys /\ pc[<<cur, n>>] = "idle" /\ Contexts(<<cur, n>>) \subseteq Keys
  BY DEF TypeOK, LoopInv, StartRequest, Contexts
<1>b. SessionsCounted' /\ wg' \in [Nodes -> Nat]
  BY <1>a, CountUp, Zenon DEF StartRequest
<1>c. session' \in [Nodes -> {"none", "running", "closing", "closed", "ended"}]
  <2>1. CASE Shared(n)
    BY <2>1 DEF TypeOK, StartRequest, JoinSessions
  <2>2. CASE ~ Shared(n)
    BY <2>2, Zenon DEF TypeOK, StartRequest, JoinSessions, sessionVars
  <2> QED BY <2>1, <2>2, Zenon
<1>1. TypeOK'
  BY <1>a, <1>b, <1>c, Zenon DEF TypeOK, StartRequest, groupVars
<1>2. ChInv' /\ AtInv'
  BY <1>a, Zenon DEF TypeOK, ChInv, AtInv, StartRequest
<1>3. DepsInv'
  BY DEF TypeOK, DepsInv, ChInv, AtInv, Contexts, StartRequest, JoinSessions, mainVars, requestVars, groupVars, sessionVars
<1>4. SolvedInv'
  BY DEF TypeOK, SolvedInv, AtInv, LoopInv, StartRequest, JoinSessions, mainVars, requestVars, groupVars, sessionVars
<1>5. LoopInv'
  <2>1. ASSUME NEW r \in Keys
        PROVE  (pc[r] = "idle" <=>
                  \/ r[2] \notin drivers[r[1]]
                  \/ r[1] \in todo /\ (r[1] = cur => r[2] \in left))'
    <3>1. CASE r = <<cur, n>>
      BY <3>1, <1>a, Zenon DEF TypeOK, StartRequest, LoopInv
    <3>2. CASE r # <<cur, n>>
      BY <3>2, <1>a DEF TypeOK, StartRequest, LoopInv
    <3> QED BY <3>1, <3>2, Zenon
  <2> QED BY <2>1, Zenon DEF LoopInv, StartRequest, groupVars
<1>6. GroupInv'
  <2>1. ~ Ended(<<cur, n>>)
    BY <1>a, Zenon DEF StartRequest, Ended, AtInv, TypeOK
  <2>2. \A x \in Keys : Ended(x) => pc'[x] = pc[x]
    BY <2>1, <1>a, Zenon DEF TypeOK, Ended, StartRequest
  <2>3. \A t \in Targets : \A n2 \in drivers[t] : <<t, n2>> \in Keys
    BY DEF TypeOK
  <2> QED BY <2>1, <2>2, <2>3, <1>a DEF TypeOK, GroupInv, GroupEnded, Ended, StartRequest, mainVars, groupVars
<1> QED BY <1>b, <1>1, <1>2, <1>3, <1>4, <1>5, <1>6, Zenon

\* Get returns a key that is set, or blocks.
LEMMA GetKeyStep ==
  ASSUME IInv, NEW r \in Keys, NEW k \in Keys, GetKey(r, k)
  PROVE  IInv'
<1> USE ConstantsAssumption DEF IInv, Keys
<1>1. TypeOK'
  BY DEF TypeOK, GetKey, Results!GetReturns, Results!GetBlocks, Results!waitMapVars, mainVars, requestVars, groupVars, sessionVars
<1>2. ChInv' /\ AtInv'
  BY DEF TypeOK, ChInv, AtInv, GetKey, Results!GetReturns, Results!GetBlocks, Results!waitMapVars, mainVars, requestVars, groupVars, sessionVars
<1>3. DepsInv'
  BY DEF TypeOK, DepsInv, ChInv, AtInv, Contexts, GetKey, Results!GetReturns, Results!GetBlocks, Results!waitMapVars, mainVars, requestVars, groupVars, sessionVars
<1>4. SolvedInv'
  BY Zenon DEF TypeOK, SolvedInv, AtInv, LoopInv, GetKey, Results!GetReturns, Results!GetBlocks, Results!waitMapVars, mainVars, requestVars, groupVars, sessionVars
<1>5. LoopInv'
  BY Zenon DEF TypeOK, LoopInv, AtInv, Requests, GetKey, Results!GetReturns, Results!GetBlocks, Results!waitMapVars, mainVars, requestVars, groupVars, sessionVars
<1>6. GroupInv'
  BY DEF TypeOK, GroupInv, LoopInv, AtInv, GroupEnded, Ended, GetKey, Results!GetReturns, Results!GetBlocks, Results!waitMapVars, mainVars, requestVars, groupVars, sessionVars
<1>7. SessionsCounted'
  <2>1. UNCHANGED <<drivers, wg>> /\ \A x \in Keys : Active(x)' = Active(x)
    BY Zenon DEF TypeOK, Active, Ended, GetKey, Results!GetReturns, Results!GetBlocks, Results!waitMapVars, mainVars, requestVars, groupVars, sessionVars
  <2> QED BY <2>1, CountKept, Zenon
<1> QED BY <1>1, <1>2, <1>3, <1>4, <1>5, <1>6, <1>7, Zenon

\* A blocked Get returns once the key is set.
LEMMA WakeStep ==
  ASSUME IInv, NEW r \in Keys, Wake(r)
  PROVE  IInv'
<1> USE ConstantsAssumption DEF IInv, Keys
<1>1. TypeOK'
  BY Zenon DEF TypeOK, Wake, Results!GetReturns, Results!waitMapVars, mainVars, requestVars, groupVars, sessionVars
<1>2. ChInv' /\ AtInv'
  BY Zenon DEF TypeOK, ChInv, AtInv, Wake, Results!GetReturns, Results!waitMapVars, mainVars, requestVars, groupVars, sessionVars
<1>3. DepsInv'
  BY DEF TypeOK, DepsInv, ChInv, AtInv, Contexts, Wake, Results!GetReturns, Results!waitMapVars, mainVars, requestVars, groupVars, sessionVars
<1>4. SolvedInv'
  BY Zenon DEF TypeOK, SolvedInv, AtInv, LoopInv, Wake, Results!GetReturns, Results!waitMapVars, mainVars, requestVars, groupVars, sessionVars
<1>5. LoopInv'
  BY Zenon DEF TypeOK, LoopInv, AtInv, Requests, Wake, Results!GetReturns, Results!waitMapVars, mainVars, requestVars, groupVars, sessionVars
<1>6. GroupInv'
  BY DEF TypeOK, GroupInv, LoopInv, AtInv, GroupEnded, Ended, Wake, Results!GetReturns, Results!waitMapVars, mainVars, requestVars, groupVars, sessionVars
<1>7. SessionsCounted'
  <2>1. UNCHANGED <<drivers, wg>> /\ \A x \in Keys : Active(x)' = Active(x)
    BY Zenon DEF TypeOK, Active, Ended, Wake, Results!GetReturns, Results!waitMapVars, mainVars, requestVars, groupVars, sessionVars
  <2> QED BY <2>1, CountKept, Zenon
<1> QED BY <1>1, <1>2, <1>3, <1>4, <1>5, <1>6, <1>7, Zenon

\* All contexts are set when the request goes on to solve.
LEMMA DepsDoneStep ==
  ASSUME IInv, NEW r \in Keys, DepsDone(r)
  PROVE  IInv'
<1> USE ConstantsAssumption DEF IInv, Keys
<1>1. TypeOK'
  BY Zenon DEF TypeOK, DepsDone, mainVars, requestVars, groupVars, sessionVars
<1>2. ChInv' /\ AtInv'
  BY Zenon DEF TypeOK, ChInv, AtInv, DepsDone, mainVars, requestVars, groupVars, sessionVars
<1>3. DepsInv'
  BY DEF TypeOK, DepsInv, ChInv, AtInv, Contexts, DepsDone, mainVars, requestVars, groupVars, sessionVars
<1>4. SolvedInv'
  BY DEF TypeOK, SolvedInv, AtInv, LoopInv, DepsDone, mainVars, requestVars, groupVars, sessionVars
<1>5. LoopInv'
  BY Zenon DEF TypeOK, LoopInv, AtInv, Requests, DepsDone, mainVars, requestVars, groupVars, sessionVars
<1>6. GroupInv'
  <2>1. ~ Ended(r)
    BY Zenon DEF DepsDone, Ended, AtInv, TypeOK
  <2>2. \A x \in Keys : Ended(x) => pc'[x] = pc[x]
    BY <2>1, Zenon DEF TypeOK, Ended, DepsDone
  <2>3. \A t \in Targets : \A n2 \in drivers[t] : <<t, n2>> \in Keys
    BY DEF TypeOK
  <2> QED BY <2>1, <2>2, <2>3 DEF TypeOK, GroupInv, GroupEnded, Ended, DepsDone, mainVars, groupVars
<1>7. SessionsCounted'
  <2>1. UNCHANGED <<drivers, wg>> /\ \A x \in Keys : Active(x)' = Active(x)
    BY Zenon DEF TypeOK, Active, Ended, DepsDone, mainVars, requestVars, groupVars, sessionVars
  <2> QED BY <2>1, CountKept, Zenon
<1> QED BY <1>1, <1>2, <1>3, <1>4, <1>5, <1>6, <1>7, Zenon

\* The result is published once.
LEMMA SolveStep ==
  ASSUME IInv, NEW r \in Keys, Solve(r)
  PROVE  IInv'
<1> USE ConstantsAssumption DEF IInv, Keys
<1>a. childTargets(r) \subseteq Keys
  BY Zenon DEF childTargets, Requests
<1>1. TypeOK'
  BY <1>a, Zenon DEF TypeOK, Solve, Results!Set, mainVars, requestVars, groupVars, sessionVars
<1>2. ChInv' /\ AtInv'
  BY Zenon DEF TypeOK, ChInv, AtInv, Solve, Results!Set, mainVars, requestVars, groupVars, sessionVars
<1>3. DepsInv'
  BY DEF TypeOK, DepsInv, ChInv, AtInv, Contexts, Solve, Results!Set, mainVars, requestVars, groupVars, sessionVars
<1>4. SolvedInv'
  BY Zenon DEF TypeOK, SolvedInv, AtInv, LoopInv, Solve, Results!Set, mainVars, requestVars, groupVars, sessionVars
<1>5. LoopInv'
  BY Zenon DEF TypeOK, LoopInv, AtInv, Requests, Solve, Results!Set, mainVars, requestVars, groupVars, sessionVars
<1>6. GroupInv'
  <2>1. ~ Ended(r)
    BY Zenon DEF Solve, Ended, AtInv, TypeOK
  <2>2. \A x \in Keys : Ended(x) => pc'[x] = pc[x]
    BY <2>1, Zenon DEF TypeOK, Ended, Solve
  <2>3. \A t \in Targets : \A n2 \in drivers[t] : <<t, n2>> \in Keys
    BY DEF TypeOK
  <2> QED BY <2>1, <2>2, <2>3 DEF TypeOK, GroupInv, GroupEnded, Ended, Solve, mainVars, groupVars
<1>7. SessionsCounted'
  <2>1. UNCHANGED <<drivers, wg>> /\ \A x \in Keys : Active(x)' = Active(x)
    BY Zenon DEF TypeOK, Active, Ended, Solve, Results!Set, mainVars, requestVars, groupVars, sessionVars
  <2> QED BY <2>1, CountKept, Zenon
<1> QED BY <1>1, <1>2, <1>3, <1>4, <1>5, <1>6, <1>7, Zenon

\* Waiting for the children changes no result.
LEMMA ChildrenDoneStep ==
  ASSUME IInv, NEW r \in Keys, ChildrenDone(r)
  PROVE  IInv'
<1> USE ConstantsAssumption DEF IInv, Keys
<1>1. TypeOK'
  BY Zenon DEF TypeOK, ChildrenDone, mainVars, requestVars, groupVars, sessionVars
<1>2. ChInv' /\ AtInv'
  BY Zenon DEF TypeOK, ChInv, AtInv, ChildrenDone, mainVars, requestVars, groupVars, sessionVars
<1>3. DepsInv'
  BY DEF TypeOK, DepsInv, ChInv, AtInv, Contexts, ChildrenDone, mainVars, requestVars, groupVars, sessionVars
<1>4. SolvedInv'
  BY DEF TypeOK, SolvedInv, AtInv, LoopInv, ChildrenDone, mainVars, requestVars, groupVars, sessionVars
<1>5. LoopInv'
  BY Zenon DEF TypeOK, LoopInv, AtInv, Requests, ChildrenDone, mainVars, requestVars, groupVars, sessionVars
<1>6. GroupInv'
  <2>1. ~ Ended(r)
    BY Zenon DEF ChildrenDone, Ended, AtInv, TypeOK
  <2>2. \A x \in Keys : Ended(x) => pc'[x] = pc[x]
    BY <2>1, Zenon DEF TypeOK, Ended, ChildrenDone
  <2>3. \A t \in Targets : \A n2 \in drivers[t] : <<t, n2>> \in Keys
    BY DEF TypeOK
  <2> QED BY <2>1, <2>2, <2>3 DEF TypeOK, GroupInv, GroupEnded, Ended, ChildrenDone, mainVars, groupVars
<1>7. SessionsCounted'
  <2>1. UNCHANGED <<drivers, wg>> /\ \A x \in Keys : Active(x)' = Active(x)
    BY Zenon DEF TypeOK, Active, Ended, ChildrenDone, mainVars, requestVars, groupVars, sessionVars
  <2> QED BY <2>1, CountKept, Zenon
<1> QED BY <1>1, <1>2, <1>3, <1>4, <1>5, <1>6, <1>7, Zenon

\* Evaluating changes no result.
LEMMA EvaluateStep ==
  ASSUME IInv, NEW r \in Keys, Evaluate(r)
  PROVE  IInv'
<1> USE ConstantsAssumption DEF IInv, Keys
<1>1. TypeOK'
  BY Zenon DEF TypeOK, Evaluate, mainVars, requestVars, groupVars, sessionVars
<1>2. ChInv' /\ AtInv'
  BY Zenon DEF TypeOK, ChInv, AtInv, Evaluate, mainVars, requestVars, groupVars, sessionVars
<1>3. DepsInv'
  BY DEF TypeOK, DepsInv, ChInv, AtInv, Contexts, Evaluate, mainVars, requestVars, groupVars, sessionVars
<1>4. SolvedInv'
  BY DEF TypeOK, SolvedInv, AtInv, LoopInv, Evaluate, mainVars, requestVars, groupVars, sessionVars
<1>5. LoopInv'
  BY Zenon DEF TypeOK, LoopInv, AtInv, Requests, Evaluate, mainVars, requestVars, groupVars, sessionVars
<1>6. GroupInv'
  <2>1. ~ Ended(r)
    BY Zenon DEF Evaluate, Ended, AtInv, TypeOK
  <2>2. \A x \in Keys : Ended(x) => pc'[x] = pc[x]
    BY <2>1, Zenon DEF TypeOK, Ended, Evaluate
  <2>3. \A t \in Targets : \A n2 \in drivers[t] : <<t, n2>> \in Keys
    BY DEF TypeOK
  <2> QED BY <2>1, <2>2, <2>3 DEF TypeOK, GroupInv, GroupEnded, Ended, Evaluate, mainVars, groupVars
<1>7. SessionsCounted'
  <2>1. UNCHANGED <<drivers, wg>> /\ \A x \in Keys : Active(x)' = Active(x)
    BY Zenon DEF TypeOK, Active, Ended, Evaluate, mainVars, requestVars, groupVars, sessionVars
  <2> QED BY <2>1, CountKept, Zenon
<1> QED BY <1>1, <1>2, <1>3, <1>4, <1>5, <1>6, <1>7, Zenon

\* The request is over and leaves the wait group.
LEMMA ExportStep ==
  ASSUME IInv, NEW r \in Keys, Export(r)
  PROVE  IInv'
<1> USE ConstantsAssumption DEF IInv, Keys
<1>a. Active(r)
  BY Zenon DEF Export, Active, Ended, AtInv
<1>b. SessionsCounted' /\ wg' \in [Nodes -> Nat]
  BY <1>a, CountDown, Zenon DEF Export
<1>1. TypeOK'
  BY <1>b, Zenon DEF TypeOK, Export, mainVars, groupVars
<1>2. ChInv' /\ AtInv'
  BY Zenon DEF TypeOK, ChInv, AtInv, Export, LeaveSessions, mainVars, requestVars, groupVars, sessionVars
<1>3. DepsInv'
  BY DEF TypeOK, DepsInv, ChInv, AtInv, Contexts, Export, LeaveSessions, mainVars, requestVars, groupVars, sessionVars
<1>4. SolvedInv'
  BY DEF TypeOK, SolvedInv, AtInv, LoopInv, Export, LeaveSessions, mainVars, requestVars, groupVars, sessionVars
<1>5. LoopInv'
  BY Zenon DEF TypeOK, LoopInv, AtInv, Requests, Export, LeaveSessions, mainVars, requestVars, groupVars, sessionVars
<1>6. GroupInv'
  <2>1. ~ Ended(r)
    BY Zenon DEF Export, Ended, AtInv, TypeOK
  <2>2. \A x \in Keys : Ended(x) => pc'[x] = pc[x]
    BY <2>1, Zenon DEF TypeOK, Ended, Export
  <2>3. \A t \in Targets : \A n2 \in drivers[t] : <<t, n2>> \in Keys
    BY DEF TypeOK
  <2> QED BY <2>1, <2>2, <2>3 DEF TypeOK, GroupInv, GroupEnded, Ended, Export, mainVars, groupVars
<1> QED BY <1>b, <1>1, <1>2, <1>3, <1>4, <1>5, <1>6, Zenon

\* A failed request is over, and its group has an error.
LEMMA RequestFailsStep ==
  ASSUME IInv, NEW r \in Keys, RequestFails(r)
  PROVE  IInv'
<1> USE ConstantsAssumption DEF IInv, Keys
<1>a. Active(r)
  BY Zenon DEF RequestFails, Active, Ended, AtInv
<1>b. SessionsCounted' /\ wg' \in [Nodes -> Nat]
  BY <1>a, CountDown, Zenon DEF RequestFails
<1>1. TypeOK'
  BY <1>b DEF TypeOK, RequestFails, mainVars, groupVars
<1>2. ChInv' /\ AtInv'
  BY Zenon DEF TypeOK, ChInv, AtInv, RequestFails, LeaveSessions, mainVars, requestVars, groupVars, sessionVars
<1>3. DepsInv'
  BY DEF TypeOK, DepsInv, ChInv, AtInv, Contexts, RequestFails, LeaveSessions, mainVars, requestVars, groupVars, sessionVars
<1>4. SolvedInv'
  BY Zenon DEF TypeOK, SolvedInv, AtInv, LoopInv, RequestFails, LeaveSessions, mainVars, requestVars, groupVars, sessionVars
<1>5. LoopInv'
  BY Zenon DEF TypeOK, LoopInv, AtInv, Requests, RequestFails, LeaveSessions, mainVars, requestVars, groupVars, sessionVars
<1>6. GroupInv'
  <2>1. ~ Ended(r)
    BY Zenon DEF RequestFails, Ended, AtInv, TypeOK
  <2>2. \A x \in Keys : Ended(x) => pc'[x] = pc[x]
    BY <2>1, Zenon DEF TypeOK, Ended, RequestFails
  <2>3. \A t \in Targets : \A n2 \in drivers[t] : <<t, n2>> \in Keys
    BY DEF TypeOK
  <2> QED BY <2>1, <2>2, <2>3 DEF TypeOK, GroupInv, GroupEnded, Ended, RequestFails, mainVars, groupVars
<1> QED BY <1>b, <1>1, <1>2, <1>3, <1>4, <1>5, <1>6, Zenon

\* Without an error all the requests of the group are done.
LEMMA TargetEndsStep ==
  ASSUME IInv, NEW t \in Targets, TargetEnds(t)
  PROVE  IInv'
<1> USE ConstantsAssumption DEF IInv, Keys
<1>1. TypeOK'
  BY Zenon DEF TypeOK, TargetEnds, mainVars, requestVars, groupVars, sessionVars
<1>2. ChInv' /\ AtInv'
  BY Zenon DEF TypeOK, ChInv, AtInv, TargetEnds, mainVars, requestVars, groupVars, sessionVars
<1>3. DepsInv'
  BY DEF TypeOK, DepsInv, ChInv, AtInv, Contexts, TargetEnds, mainVars, requestVars, groupVars, sessionVars
<1>4. SolvedInv'
  BY Zenon DEF TypeOK, SolvedInv, AtInv, LoopInv, TargetEnds, mainVars, requestVars, groupVars, sessionVars
<1>5. LoopInv'
  BY DEF TypeOK, LoopInv, AtInv, Requests, TargetEnds, mainVars, requestVars, groupVars, sessionVars
<1>6. GroupInv'
  BY DEF TypeOK, GroupInv, LoopInv, AtInv, GroupEnded, Ended, TargetEnds, mainVars, requestVars, groupVars, sessionVars
<1>7. SessionsCounted'
  <2>1. UNCHANGED <<drivers, wg>> /\ \A x \in Keys : Active(x)' = Active(x)
    BY Zenon DEF TypeOK, Active, Ended, TargetEnds, mainVars, requestVars, groupVars, sessionVars
  <2> QED BY <2>1, CountKept, Zenon
<1> QED BY <1>1, <1>2, <1>3, <1>4, <1>5, <1>6, <1>7, Zenon

\* Merging changes nothing but the waiter.
LEMMA MergeStep ==
  ASSUME IInv, NEW t \in Targets, Merge(t)
  PROVE  IInv'
<1> USE ConstantsAssumption DEF IInv, Keys
<1>1. TypeOK'
  BY Zenon DEF TypeOK, Merge, mainVars, requestVars, groupVars, sessionVars
<1>2. ChInv' /\ AtInv'
  BY Zenon DEF TypeOK, ChInv, AtInv, Merge, mainVars, requestVars, groupVars, sessionVars
<1>3. DepsInv'
  BY DEF TypeOK, DepsInv, ChInv, AtInv, Contexts, Merge, mainVars, requestVars, groupVars, sessionVars
<1>4. SolvedInv'
  BY Zenon DEF TypeOK, SolvedInv, AtInv, LoopInv, Merge, mainVars, requestVars, groupVars, sessionVars
<1>5. LoopInv'
  BY DEF TypeOK, LoopInv, AtInv, Requests, Merge, mainVars, requestVars, groupVars, sessionVars
<1>6. GroupInv'
  BY DEF TypeOK, GroupInv, LoopInv, AtInv, GroupEnded, Ended, Merge, mainVars, requestVars, groupVars, sessionVars
<1>7. SessionsCounted'
  <2>1. UNCHANGED <<drivers, wg>> /\ \A x \in Keys : Active(x)' = Active(x)
    BY Zenon DEF TypeOK, Active, Ended, Merge, mainVars, requestVars, groupVars, sessionVars
  <2> QED BY <2>1, CountKept, Zenon
<1> QED BY <1>1, <1>2, <1>3, <1>4, <1>5, <1>6, <1>7, Zenon

\* The error of a group becomes the error of the build.
LEMMA TargetFailsStep ==
  ASSUME IInv, NEW t \in Targets, TargetFails(t)
  PROVE  IInv'
<1> USE ConstantsAssumption DEF IInv, Keys
<1>1. TypeOK'
  BY Zenon DEF TypeOK, TargetFails, mainVars, requestVars, groupVars, sessionVars
<1>2. ChInv' /\ AtInv'
  BY Zenon DEF TypeOK, ChInv, AtInv, TargetFails, mainVars, requestVars, groupVars, sessionVars
<1>3. DepsInv'
  BY DEF TypeOK, DepsInv, ChInv, AtInv, Contexts, TargetFails, mainVars, requestVars, groupVars, sessionVars
<1>4. SolvedInv'
  BY Zenon DEF TypeOK, SolvedInv, AtInv, LoopInv, TargetFails, mainVars, requestVars, groupVars, sessionVars
<1>5. LoopInv'
  BY DEF TypeOK, LoopInv, AtInv, Requests, TargetFails, mainVars, requestVars, groupVars, sessionVars
<1>6. GroupInv'
  BY DEF TypeOK, GroupInv, LoopInv, AtInv, GroupEnded, Ended, TargetFails, mainVars, requestVars, groupVars, sessionVars
<1>7. SessionsCounted'
  <2>1. UNCHANGED <<drivers, wg>> /\ \A x \in Keys : Active(x)' = Active(x)
    BY Zenon DEF TypeOK, Active, Ended, TargetFails, mainVars, requestVars, groupVars, sessionVars
  <2> QED BY <2>1, CountKept, Zenon
<1> QED BY <1>1, <1>2, <1>3, <1>4, <1>5, <1>6, <1>7, Zenon

\* The goroutine of the sessions only touches the sessions.
LEMMA WaitGroupEmptyStep ==
  ASSUME IInv, NEW n \in Nodes, WaitGroupEmpty(n)
  PROVE  IInv'
<1> USE ConstantsAssumption DEF IInv, Keys
<1>1. TypeOK'
  BY Zenon DEF TypeOK, WaitGroupEmpty, mainVars, requestVars, groupVars, sessionVars
<1>2. ChInv' /\ AtInv'
  BY Zenon DEF TypeOK, ChInv, AtInv, WaitGroupEmpty, mainVars, requestVars, groupVars, sessionVars
<1>3. DepsInv'
  BY DEF TypeOK, DepsInv, ChInv, AtInv, Contexts, WaitGroupEmpty, mainVars, requestVars, groupVars, sessionVars
<1>4. SolvedInv'
  BY Zenon DEF TypeOK, SolvedInv, AtInv, LoopInv, WaitGroupEmpty, mainVars, requestVars, groupVars, sessionVars
<1>5. LoopInv'
  BY Zenon DEF TypeOK, LoopInv, AtInv, Requests, WaitGroupEmpty, mainVars, requestVars, groupVars, sessionVars
<1>6. GroupInv'
  BY DEF TypeOK, GroupInv, LoopInv, AtInv, GroupEnded, Ended, WaitGroupEmpty, mainVars, requestVars, groupVars, sessionVars
<1>7. SessionsCounted'
  <2>1. UNCHANGED <<drivers, wg>> /\ \A x \in Keys : Active(x)' = Active(x)
    BY Zenon DEF TypeOK, Active, Ended, WaitGroupEmpty, mainVars, requestVars, groupVars, sessionVars
  <2> QED BY <2>1, CountKept, Zenon
<1> QED BY <1>1, <1>2, <1>3, <1>4, <1>5, <1>6, <1>7, Zenon

\* Closing only touches the sessions.
LEMMA CloseSessionsStep ==
  ASSUME IInv, NEW n \in Nodes, CloseSessions(n)
  PROVE  IInv'
<1> USE ConstantsAssumption DEF IInv, Keys
<1>1. TypeOK'
  BY Zenon DEF TypeOK, CloseSessions, mainVars, requestVars, groupVars, sessionVars
<1>2. ChInv' /\ AtInv'
  BY Zenon DEF TypeOK, ChInv, AtInv, CloseSessions, mainVars, requestVars, groupVars, sessionVars
<1>3. DepsInv'
  BY Zenon DEF TypeOK, DepsInv, ChInv, AtInv, Contexts, CloseSessions, mainVars, requestVars, groupVars, sessionVars
<1>4. SolvedInv'
  BY Zenon DEF TypeOK, SolvedInv, AtInv, LoopInv, CloseSessions, mainVars, requestVars, groupVars, sessionVars
<1>5. LoopInv'
  BY Zenon DEF TypeOK, LoopInv, AtInv, Requests, CloseSessions, mainVars, requestVars, groupVars, sessionVars
<1>6. GroupInv'
  BY DEF TypeOK, GroupInv, LoopInv, AtInv, GroupEnded, Ended, CloseSessions, mainVars, requestVars, groupVars, sessionVars
<1>7. SessionsCounted'
  <2>1. UNCHANGED <<drivers, wg>> /\ \A x \in Keys : Active(x)' = Active(x)
    BY Zenon DEF TypeOK, Active, Ended, CloseSessions, mainVars, requestVars, groupVars, sessionVars
  <2> QED BY <2>1, CountKept, Zenon
<1> QED BY <1>1, <1>2, <1>3, <1>4, <1>5, <1>6, <1>7, Zenon

\* The end of a session only touches the sessions.
LEMMA SessionEndsStep ==
  ASSUME IInv, NEW n \in Nodes, SessionEnds(n)
  PROVE  IInv'
<1> USE ConstantsAssumption DEF IInv, Keys
<1>1. TypeOK'
  BY Zenon DEF TypeOK, SessionEnds, mainVars, requestVars, groupVars, sessionVars
<1>2. ChInv' /\ AtInv'
  BY Zenon DEF TypeOK, ChInv, AtInv, SessionEnds, mainVars, requestVars, groupVars, sessionVars
<1>3. DepsInv'
  BY Zenon DEF TypeOK, DepsInv, ChInv, AtInv, Contexts, SessionEnds, mainVars, requestVars, groupVars, sessionVars
<1>4. SolvedInv'
  BY Zenon DEF TypeOK, SolvedInv, AtInv, LoopInv, SessionEnds, mainVars, requestVars, groupVars, sessionVars
<1>5. LoopInv'
  BY Zenon DEF TypeOK, LoopInv, AtInv, Requests, SessionEnds, mainVars, requestVars, groupVars, sessionVars
<1>6. GroupInv'
  BY DEF TypeOK, GroupInv, LoopInv, AtInv, GroupEnded, Ended, SessionEnds, mainVars, requestVars, groupVars, sessionVars
<1>7. SessionsCounted'
  <2>1. UNCHANGED <<drivers, wg>> /\ \A x \in Keys : Active(x)' = Active(x)
    BY Zenon DEF TypeOK, Active, Ended, SessionEnds, mainVars, requestVars, groupVars, sessionVars
  <2> QED BY <2>1, CountKept, Zenon
<1> QED BY <1>1, <1>2, <1>3, <1>4, <1>5, <1>6, <1>7, Zenon

\* A session that fails is an error of the build.
LEMMA SessionFailsStep ==
  ASSUME IInv, NEW n \in Nodes, SessionFails(n)
  PROVE  IInv'
<1> USE ConstantsAssumption DEF IInv, Keys
<1>1. TypeOK'
  BY Zenon DEF TypeOK, SessionFails, mainVars, requestVars, groupVars, sessionVars
<1>2. ChInv' /\ AtInv'
  BY Zenon DEF TypeOK, ChInv, AtInv, SessionFails, mainVars, requestVars, groupVars, sessionVars
<1>3. DepsInv'
  BY Zenon DEF TypeOK, DepsInv, ChInv, AtInv, Contexts, SessionFails, mainVars, requestVars, groupVars, sessionVars
<1>4. SolvedInv'
  BY Zenon DEF TypeOK, SolvedInv, AtInv, LoopInv, SessionFails, mainVars, requestVars, groupVars, sessionVars
<1>5. LoopInv'
  BY Zenon DEF TypeOK, LoopInv, AtInv, Requests, SessionFails, mainVars, requestVars, groupVars, sessionVars
<1>6. GroupInv'
  BY DEF TypeOK, GroupInv, LoopInv, AtInv, GroupEnded, Ended, SessionFails, mainVars, requestVars, groupVars, sessionVars
<1>7. SessionsCounted'
  <2>1. UNCHANGED <<drivers, wg>> /\ \A x \in Keys : Active(x)' = Active(x)
    BY Zenon DEF TypeOK, Active, Ended, SessionFails, mainVars, requestVars, groupVars, sessionVars
  <2> QED BY <2>1, CountKept, Zenon
<1> QED BY <1>1, <1>2, <1>3, <1>4, <1>5, <1>6, <1>7, Zenon

\* Cancelling stops no goroutine by itself.
LEMMA CancelBuildStep ==
  ASSUME IInv, CancelBuild
  PROVE  IInv'
<1> USE ConstantsAssumption DEF IInv, Keys
<1>1. TypeOK'
  BY Zenon DEF TypeOK, CancelBuild, mainVars, requestVars, groupVars, sessionVars
<1>2. ChInv' /\ AtInv'
  BY Zenon DEF TypeOK, ChInv, AtInv, CancelBuild, mainVars, requestVars, groupVars, sessionVars
<1>3. DepsInv'
  BY DEF TypeOK, DepsInv, ChInv, AtInv, Contexts, CancelBuild, mainVars, requestVars, groupVars, sessionVars
<1>4. SolvedInv'
  BY Zenon DEF TypeOK, SolvedInv, AtInv, LoopInv, CancelBuild, mainVars, requestVars, groupVars, sessionVars
<1>5. LoopInv'
  BY Zenon DEF TypeOK, LoopInv, AtInv, Requests, CancelBuild, mainVars, requestVars, groupVars, sessionVars
<1>6. GroupInv'
  BY DEF TypeOK, GroupInv, LoopInv, AtInv, GroupEnded, Ended, CancelBuild, mainVars, requestVars, groupVars, sessionVars
<1>7. SessionsCounted'
  <2>1. UNCHANGED <<drivers, wg>> /\ \A x \in Keys : Active(x)' = Active(x)
    BY Zenon DEF TypeOK, Active, Ended, CancelBuild, mainVars, requestVars, groupVars, sessionVars
  <2> QED BY <2>1, CountKept, Zenon
<1> QED BY <1>1, <1>2, <1>3, <1>4, <1>5, <1>6, <1>7, Zenon
-----------------------------------------------------------------------------
\* Every step of BuildWithResultHandler preserves the inductive invariant.
LEMMA NextIInv == IInv /\ [Next]_vars => IInv'
<1> SUFFICES ASSUME IInv, [Next]_vars PROVE IInv'
  BY Zenon
<1>1. CASE Main
  BY <1>1, ValidateStep, SetupFailsStep, StartFailsStep, StartWaiterStep,
     AllStartedStep, ReturnStep, NextTargetStep, StartRequestStep, Zenon DEF Main
<1>2. ASSUME NEW r \in Keys, Request(r) PROVE IInv'
  BY <1>2, GetKeyStep, WakeStep, DepsDoneStep, SolveStep, ChildrenDoneStep,
     EvaluateStep, ExportStep, RequestFailsStep, Zenon DEF Request
<1>3. ASSUME NEW t \in Targets, Waiter(t) PROVE IInv'
  BY <1>3, TargetEndsStep, MergeStep, TargetFailsStep, Zenon DEF Waiter
<1>4. ASSUME NEW n \in Nodes, Sessions(n) \/ SessionFails(n) PROVE IInv'
  BY <1>4, WaitGroupEmptyStep, CloseSessionsStep, SessionEndsStep,
     SessionFailsStep, Zenon DEF Sessions
<1>5. CASE UNCHANGED vars
  <2> USE <1>5 DEF vars, mainVars, requestVars, groupVars, sessionVars, IInv
  <2>1. TypeOK' /\ ChInv' /\ DepsInv' /\ SolvedInv' /\ AtInv'
    BY Zenon DEF TypeOK, ChInv, DepsInv, SolvedInv, AtInv, Contexts, Keys
  <2>2. LoopInv' /\ GroupInv'
    BY Zenon DEF LoopInv, GroupInv, GroupEnded, Ended, Keys
  <2>3. SessionsCounted'
    BY CountKept, Zenon DEF Active, Ended
  <2> QED BY <2>1, <2>2, <2>3, Zenon
<1> QED
  BY <1>1, <1>2, <1>3, <1>4, <1>5, CancelBuildStep, Zenon DEF Next

\* The inductive invariant holds in every state of a build.
LEMMA AlwaysIInv == Spec => []IInv
  BY InitIInv, NextIInv, PTL DEF Spec

\* The variables of BuildWithResultHandler keep their types; in particular no
\* wait group of shared sessions is released more often than it was taken.
THEOREM TypeCorrect == Spec => []TypeOK
<1>1. IInv => TypeOK
  BY Zenon DEF IInv
<1> QED BY AlwaysIInv, <1>1, PTL

\* Add and Done of the wait groups are paired on every path of a request.
THEOREM SessionsCountedHolds == Spec => []SessionsCounted
<1>1. IInv => SessionsCounted
  BY Zenon DEF IInv
<1> QED BY AlwaysIInv, <1>1, PTL

\* A successful build has every response, and once eg.Wait has returned no
\* goroutine of a request is left.
THEOREM WaitCoversAllHolds == Spec => []WaitCoversAll
<1>1. IInv => WaitCoversAll
  <2> SUFFICES ASSUME IInv PROVE WaitCoversAll
    BY Zenon
  <2> USE DEF IInv
  <2>1. \A r \in Requests : r[1] \in Targets /\ r[2] \in drivers[r[1]] /\ r = <<r[1], r[2]>>
    BY DEF Requests, Keys
  <2>2. main = "ok" => resp = Targets /\ \A r \in Requests : pc[r] = "done"
    <3> SUFFICES ASSUME main = "ok" PROVE resp = Targets /\ \A r \in Requests : pc[r] = "done"
      BY Zenon
    <3>1. \A t \in Targets : t \in resp /\ \A n \in drivers[t] : pc[<<t, n>>] = "done"
      BY Zenon DEF GroupInv
    <3>2. \A r \in Requests : pc[<<r[1], r[2]>>] = "done"
      BY <3>1, <2>1, Zenon
    <3>3. \A r \in Requests : pc[r] = "done"
      BY <3>2, <2>1, Zenon
    <3> QED BY <3>1, <3>3, Zenon DEF TypeOK
  <2>3. ASSUME main \in {"ok", "error"}, \A t \in Targets : waiter[t] # "none"
        PROVE  \A r \in Requests : Ended(r)
    <3>1. \A t \in Targets : waiter[t] \in {"done", "failed"}
      BY <2>3, Zenon DEF GroupInv
    <3>2. \A t \in Targets : \A n \in drivers[t] : Ended(<<t, n>>)
      BY <3>1, Zenon DEF GroupInv, GroupEnded, Ended
    <3> QED BY <3>2, <2>1, Zenon
  <2> QED BY <2>2, <2>3, Zenon DEF WaitCoversAll
<1> QED BY AlwaysIInv, <1>1, PTL

\* The concurrent build implements the order of its target graph: a request is
\* solved once, after its contexts, and success means that all are solved.
THEOREM Implements == Spec => ImplementsGraph
<1>1. Init => Graph!Init
  BY Zenon DEF Init, Graph!Init, Results!New
<1>2. IInv /\ [Next]_vars => [Graph!Next]_(Graph!vars)
  <2> SUFFICES ASSUME IInv, [Next]_vars PROVE [Graph!Next]_(Graph!vars)
    BY Zenon
  <2> USE DEF Graph!vars, Requests
  <2>1. ASSUME NEW r \in Keys, Solve(r) PROVE Graph!Next
    <3>1. r \in Requests /\ r \notin m /\ Contexts(r) \subseteq m /\ main # "ok"
      BY <2>1 DEF Solve, IInv, SolvedInv, DepsInv, LoopInv, GroupInv, Requests, Keys
    <3>2. Graph!Solve(r)
      BY <2>1, <3>1, Zenon DEF Solve, Graph!Solve, Graph!Contexts, Contexts, Results!Set, mainVars
    <3> QED BY <3>1, <3>2, Zenon DEF Graph!Next
  <2>2. CASE Return
    <3>1. CASE buildErr
      BY <2>2, <3>1, Zenon DEF Return, Graph!Next, Graph!Fail, requestVars
    <3>2. CASE ~ buildErr
      <4>1. \A t \in Targets : \A n \in drivers[t] : <<t, n>> \in Keys /\ pc[<<t, n>>] = "done"
        <5>1. \A t \in Targets : waiter[t] = "done"
          BY <2>2, <3>2, Zenon DEF Return, IInv, GroupInv
        <5>2. \A t \in Targets : \A n \in drivers[t] : <<t, n>> \in Keys
          BY ConstantsAssumption DEF IInv, TypeOK, Keys
        <5> QED BY <5>1, <5>2, Zenon DEF IInv, GroupInv
      <4>2. Requests \subseteq m
        BY <4>1 DEF Requests, Keys, IInv, SolvedInv
      <4>3. m \subseteq Requests
        BY Zenon DEF Requests, Keys, IInv, SolvedInv, LoopInv, TypeOK
      <4> QED BY <2>2, <3>2, <4>2, <4>3, Zenon DEF Return, Graph!Next, Graph!Succeed, requestVars
    <3> QED BY <3>1, <3>2, Zenon
  <2>3. CASE Validate \/ SetupFails \/ StartFails
    BY <2>3, Zenon DEF Validate, SetupFails, StartFails, Graph!Next, Graph!Fail, requestVars
  <2>4. CASE StartWaiter \/ AllStarted
    BY <2>4, Zenon DEF StartWaiter, AllStarted, requestVars
  <2>5. ASSUME NEW t \in Targets, NextTarget(t) PROVE UNCHANGED Graph!vars
    BY <2>5, Zenon DEF NextTarget, requestVars
  <2>6. ASSUME NEW n \in Nodes, StartRequest(n) PROVE UNCHANGED Graph!vars
    BY <2>6, Zenon DEF StartRequest
  <2>7. ASSUME NEW r \in Keys, NEW k \in Keys, GetKey(r, k) PROVE UNCHANGED Graph!vars
    BY <2>7, Zenon DEF GetKey, Results!GetReturns, Results!GetBlocks, Results!waitMapVars, mainVars
  <2>8. ASSUME NEW r \in Keys,
               Wake(r) \/ DepsDone(r) \/ ChildrenDone(r) \/ Evaluate(r) \/ Export(r) \/ RequestFails(r)
        PROVE  UNCHANGED Graph!vars
    BY <2>8, Zenon DEF Wake, DepsDone, ChildrenDone, Evaluate, Export, RequestFails,
                Results!GetReturns, Results!waitMapVars, mainVars
  <2>9. ASSUME NEW t \in Targets, Waiter(t) PROVE UNCHANGED Graph!vars
    BY <2>9, Zenon DEF Waiter, TargetEnds, Merge, TargetFails, requestVars, mainVars
  <2>10. ASSUME NEW n \in Nodes, Sessions(n) \/ SessionFails(n) PROVE UNCHANGED Graph!vars
    BY <2>10, Zenon DEF Sessions, WaitGroupEmpty, CloseSessions, SessionEnds, SessionFails,
                 requestVars, mainVars
  <2>11. CASE CancelBuild \/ UNCHANGED vars
    BY <2>11, Zenon DEF CancelBuild, vars, requestVars, mainVars
  <2> QED
    BY <2>1, <2>2, <2>3, <2>4, <2>5, <2>6, <2>7, <2>8, <2>9, <2>10, <2>11, Zenon
    DEF Next, Main, Request
<1> QED BY AlwaysIInv, <1>1, <1>2, PTL DEF Spec, ImplementsGraph, Graph!Spec
=============================================================================
