------------------------------ MODULE Targets ------------------------------
(***************************************************************************)
(* BuildWithResultHandler (build/build.go): one goroutine per target and   *)
(* node, which first waits for the results of the targets it uses as named *)
(* contexts, then solves, publishes its result in the wait map and, when   *)
(* other targets use it, waits until these have published theirs.  One     *)
(* error group per target (eg2) and one for the build (eg) carry errors    *)
(* back and cancel what is left.  Requests on one node that read the same  *)
(* local directory share a session, which a wait group keeps open.         *)
(***************************************************************************)
EXTENDS Naturals, FiniteSets

CONSTANTS
  Targets,      \* the names of the targets of the build
  Nodes,        \* the driver indexes of the builder's nodes
  Needs,        \* per target, the targets it has as "context:x" = "target:y"
  Assignments,  \* the possible results of resolveDrivers: target -> nodes
  Mounts,       \* per target, the local directories it sends
  None          \* no target, no key

ASSUME ConstantsAssumption ==
  /\ Needs \in [Targets -> SUBSET Targets]
  /\ Assignments \subseteq [Targets -> SUBSET Nodes \ {{}}]
  /\ None \notin Targets \cup Targets \X Nodes
  /\ IsFiniteSet(Targets) /\ IsFiniteSet(Nodes)

VARIABLES
  drivers,      \* target -> the nodes it is built on
  main,         \* "start", "loop", "wait" or how the call returned: "ok", "error"
  todo,         \* the targets that the loop has not reached
  cur,          \* the target of this iteration of the loop
  left,         \* its nodes without a request yet
  pc,           \* request -> where its goroutine is
  pending,      \* request -> the keys its call of Get has not returned yet
  at,           \* request -> the key it is blocked on
  m, ch,        \* the wait map of the results
  waiter,       \* target -> the goroutine that waits for the target's group
  targetErr,    \* the targets whose group has an error: its context is cancelled
  buildErr,     \* the group of the build has an error
  cancelled,    \* the context of the build is cancelled
  resp,         \* the targets with a response
  wg,           \* node -> the count of the wait group of its shared sessions
  session       \* node -> "none", "running", "closing", "closed" or "ended"

requestVars == <<pc, pending, at, m, ch>>
sessionVars == <<wg, session>>
groupVars == <<waiter, targetErr, buildErr, cancelled, resp>>
mainVars == <<main, todo, cur, left>>
vars == <<drivers, mainVars, requestVars, groupVars, sessionVars>>

Keys == Targets \X Nodes

Results == INSTANCE WaitMap

Requests == {r \in Keys : r[2] \in drivers[r[1]]}

\* waitContextDeps: the keys of the results that the request reads.
Contexts(r) == {<<d, r[2]>> : d \in Needs[r[1]]}

\* calculateChildTargets: the requests that read the result of r.
childTargets(r) == {c \in Requests : r \in Contexts(c)}

\* The links are valid when both ends are built on the same nodes.
LinksUseSameDrivers == \A r \in Requests : Contexts(r) \subseteq Requests

\* detectSharedMounts: two requests to the node send the same directory.
Shared(n) ==
  \E t1, t2 \in Targets :
    /\ t1 # t2
    /\ n \in drivers[t1] \cap drivers[t2]
    /\ Mounts[t1] \cap Mounts[t2] # {}

\* The context of the request's error group.
CtxDone(r) == cancelled \/ r[1] \in targetErr

Ended(r) == pc[r] \in {"done", "failed"}
Active(r) == pc[r] # "idle" /\ ~ Ended(r)

Init ==
  /\ drivers \in Assignments
  /\ main = "start"
  /\ todo = Targets
  /\ cur = None
  /\ left = {}
  /\ pc = [r \in Keys |-> "idle"]
  /\ pending = [r \in Keys |-> {}]
  /\ at = [r \in Keys |-> None]
  /\ Results!New
  /\ waiter = [t \in Targets |-> "none"]
  /\ targetErr = {}
  /\ buildErr = FALSE
  /\ cancelled = FALSE
  /\ resp = {}
  /\ wg = [n \in Nodes |-> 0]
  /\ session = [n \in Nodes |-> "none"]

-----------------------------------------------------------------------------
(* The calling goroutine.                                                  *)

\* Options of every target and the links between them are validated first.
Validate ==
  /\ main = "start"
  /\ main' = IF LinksUseSameDrivers THEN "loop" ELSE "error"
  /\ UNCHANGED <<drivers, todo, cur, left, requestVars, groupVars, sessionVars>>

\* getting the options of a node, converting or saving them fails
SetupFails ==
  /\ main = "start"
  /\ main' = "error"
  /\ UNCHANGED <<drivers, todo, cur, left, requestVars, groupVars, sessionVars>>

NextTarget(t) ==
  /\ main = "loop"
  /\ cur = None
  /\ t \in todo
  /\ cur' = t
  /\ left' = drivers[t]
  /\ UNCHANGED <<drivers, main, todo, requestVars, groupVars, sessionVars>>

\* The first request on a node with shared sessions runs them and starts the
\* goroutine that closes them when the wait group is empty.
JoinSessions(n) ==
  IF Shared(n)
  THEN /\ wg' = [wg EXCEPT ![n] = @ + 1]
       /\ session' = [session EXCEPT ![n] = IF @ = "none" THEN "running" ELSE @]
  ELSE UNCHANGED sessionVars

StartRequest(n) ==
  /\ main = "loop"
  /\ cur # None
  /\ n \in left
  /\ left' = left \ {n}
  /\ pc' = [pc EXCEPT ![<<cur, n>>] = "deps"]
  /\ pending' = [pending EXCEPT ![<<cur, n>>] = Contexts(<<cur, n>>)]
  /\ JoinSessions(n)
  /\ UNCHANGED <<drivers, main, todo, cur, at, m, ch, groupVars>>

\* An exporter that several nodes cannot share, or a client that does not
\* connect: the call returns without waiting for what it started.
StartFails ==
  /\ main = "loop"
  /\ cur # None
  /\ left # {}
  /\ main' = "error"
  /\ UNCHANGED <<drivers, todo, cur, left, requestVars, groupVars, sessionVars>>

StartWaiter ==
  /\ main = "loop"
  /\ cur # None
  /\ left = {}
  /\ waiter' = [waiter EXCEPT ![cur] = "waiting"]
  /\ todo' = todo \ {cur}
  /\ cur' = None
  /\ UNCHANGED <<drivers, main, left, requestVars, targetErr, buildErr,
                 cancelled, resp, sessionVars>>

AllStarted ==
  /\ main = "loop"
  /\ cur = None
  /\ todo = {}
  /\ main' = "wait"
  /\ UNCHANGED <<drivers, todo, cur, left, requestVars, groupVars, sessionVars>>

\* eg.Wait returns when every goroutine of the group has, and cancels its context.
Return ==
  /\ main = "wait"
  /\ \A t \in Targets : waiter[t] \in {"done", "failed"}
  /\ \A n \in Nodes : session[n] \in {"none", "ended"}
  /\ main' = IF buildErr THEN "error" ELSE "ok"
  /\ cancelled' = TRUE
  /\ UNCHANGED <<drivers, todo, cur, left, requestVars, waiter, targetErr,
                 buildErr, resp, sessionVars>>

Main ==
  \/ Validate \/ SetupFails \/ StartFails \/ StartWaiter \/ AllStarted \/ Return
  \/ \E t \in Targets : NextTarget(t)
  \/ \E n \in Nodes : StartRequest(n)

-----------------------------------------------------------------------------
(* The goroutine of a request.                                             *)

leavesOnlyOnce(r) ==       \* mutant: done is only called by requests without contexts
  IF Shared(r[2]) /\ Contexts(r) = {}
  THEN wg' = [wg EXCEPT ![r[2]] = @ - 1]
  ELSE UNCHANGED wg

LeaveSessions(r) ==
  IF Shared(r[2])
  THEN wg' = [wg EXCEPT ![r[2]] = @ - 1]
  ELSE UNCHANGED wg

\* Get for one of the keys left: of the contexts, or of the child targets.
GetKey(r, k) ==
  /\ pc[r] \in {"deps", "children"}
  /\ at[r] = None
  /\ k \in pending[r]
  /\ \/ /\ Results!GetReturns(k)
        /\ pending' = [pending EXCEPT ![r] = @ \ {k}]
        /\ UNCHANGED at
     \/ /\ Results!GetBlocks(k)
        /\ at' = [at EXCEPT ![r] = k]
        /\ UNCHANGED pending
  /\ UNCHANGED <<drivers, mainVars, pc, groupVars, sessionVars>>

Wake(r) ==
  /\ at[r] # None
  /\ Results!GetReturns(at[r])
  /\ pending' = [pending EXCEPT ![r] = @ \ {at[r]}]
  /\ at' = [at EXCEPT ![r] = None]
  /\ UNCHANGED <<drivers, mainVars, pc, groupVars, sessionVars>>

depsUnchecked(r) ==        \* mutant: waitContextDeps does not wait
  /\ pc[r] = "deps"
  /\ at[r] = None
  /\ pc' = [pc EXCEPT ![r] = "solve"]
  /\ UNCHANGED <<drivers, mainVars, pending, at, m, ch, groupVars, sessionVars>>

\* waitContextDeps has every result and turns them into inputs.
DepsDone(r) ==
  /\ pc[r] = "deps"
  /\ pending[r] = {}
  /\ pc' = [pc EXCEPT ![r] = "solve"]
  /\ UNCHANGED <<drivers, mainVars, pending, at, m, ch, groupVars, sessionVars>>

publishesLast(r) ==        \* mutant: the children are waited for before Set
  /\ pc[r] = "solve"
  /\ IF childTargets(r) = {} THEN Results!Set(r) ELSE UNCHANGED <<m, ch>>
  /\ pending' = [pending EXCEPT ![r] = childTargets(r)]
  /\ pc' = [pc EXCEPT ![r] = IF childTargets(r) = {} THEN "export" ELSE "children"]
  /\ UNCHANGED <<drivers, mainVars, at, groupVars, sessionVars>>

\* The frontend returns (at the first or the fallback request), the result is
\* published, and a target that others use waits for them before it goes on.
Solve(r) ==
  /\ pc[r] = "solve"
  /\ Results!Set(r)
  /\ pending' = [pending EXCEPT ![r] = childTargets(r)]
  /\ pc' = [pc EXCEPT ![r] = IF childTargets(r) = {} THEN "export" ELSE "children"]
  /\ UNCHANGED <<drivers, mainVars, at, groupVars, sessionVars>>

ChildrenDone(r) ==
  /\ pc[r] = "children"
  /\ pending[r] = {}
  /\ pc' = [pc EXCEPT ![r] = "evaluate"]
  /\ UNCHANGED <<drivers, mainVars, pending, at, m, ch, groupVars, sessionVars>>

\* The refs are evaluated beside a second Get of the same children.
Evaluate(r) ==
  /\ pc[r] = "evaluate"
  /\ \A c \in childTargets(r) : ch[c] = "nil"
  /\ pc' = [pc EXCEPT ![r] = "export"]
  /\ UNCHANGED <<drivers, mainVars, pending, at, m, ch, groupVars, sessionVars>>

\* The build call returns: buildFunc is over and its result is exported.
Export(r) ==
  /\ pc[r] = "export"
  /\ pc' = [pc EXCEPT ![r] = "done"]
  /\ LeaveSessions(r)
  /\ UNCHANGED <<drivers, mainVars, pending, at, m, ch, groupVars, session>>

\* An error of the builder, or of a cancelled context, at any of the calls; a
\* blocked Get only returns one when the context is done.
RequestFails(r) ==
  /\ \/ pc[r] \in {"solve", "evaluate", "export"}
     \/ pc[r] = "deps" /\ pending[r] = {}
     \/ at[r] # None /\ CtxDone(r)
  /\ pc' = [pc EXCEPT ![r] = "failed"]
  /\ at' = [at EXCEPT ![r] = None]
  /\ targetErr' = targetErr \cup {r[1]}
  /\ LeaveSessions(r)
  /\ UNCHANGED <<drivers, mainVars, pending, m, ch, waiter, buildErr,
                 cancelled, resp, session>>

Request(r) ==
  \/ \E k \in Keys : GetKey(r, k)
  \/ Wake(r) \/ DepsDone(r) \/ Solve(r) \/ ChildrenDone(r) \/ Evaluate(r)
  \/ Export(r) \/ RequestFails(r)

-----------------------------------------------------------------------------
(* The goroutines of a target's group and of the shared sessions.          *)

someEnded(t) == \E n \in drivers[t] : Ended(<<t, n>>)  \* mutant: eg2.Wait returns early

GroupEnded(t) == \A n \in drivers[t] : Ended(<<t, n>>)

\* eg2.Wait returned; the response is the one of the first node, and with
\* several nodes and an image to push a manifest list is merged.
TargetEnds(t) ==
  /\ waiter[t] = "waiting"
  /\ GroupEnded(t)
  /\ t \notin targetErr
  /\ resp' = resp \cup {t}
  /\ waiter' = [waiter EXCEPT ![t] =
       IF Cardinality(drivers[t]) = 1 THEN "done" ELSE "merge"]
  /\ UNCHANGED <<drivers, mainVars, requestVars, targetErr, buildErr,
                 cancelled, sessionVars>>

Merge(t) ==
  /\ waiter[t] = "merge"
  /\ waiter' = [waiter EXCEPT ![t] = "done"]
  /\ UNCHANGED <<drivers, mainVars, requestVars, targetErr, buildErr,
                 cancelled, resp, sessionVars>>

\* The first error of the build's group cancels every other target.
TargetFails(t) ==
  /\ \/ waiter[t] = "waiting" /\ GroupEnded(t) /\ t \in targetErr
     \/ waiter[t] = "merge"
  /\ waiter' = [waiter EXCEPT ![t] = "failed"]
  /\ buildErr' = TRUE
  /\ cancelled' = TRUE
  /\ UNCHANGED <<drivers, mainVars, requestVars, targetErr, resp, sessionVars>>

Waiter(t) == TargetEnds(t) \/ Merge(t) \/ TargetFails(t)

\* wg.Wait returns, and later the sessions are closed.
WaitGroupEmpty(n) ==
  /\ session[n] = "running"
  /\ wg[n] = 0
  /\ session' = [session EXCEPT ![n] = "closing"]
  /\ UNCHANGED <<drivers, mainVars, requestVars, groupVars, wg>>

CloseSessions(n) ==
  /\ session[n] = "closing"
  /\ session' = [session EXCEPT ![n] = "closed"]
  /\ UNCHANGED <<drivers, mainVars, requestVars, groupVars, wg>>

\* Run of the sessions returns when they are closed or the context is done.
SessionEnds(n) ==
  /\ \/ session[n] = "closed"
     \/ session[n] \in {"running", "closing"} /\ cancelled
  /\ session' = [session EXCEPT ![n] = "ended"]
  /\ UNCHANGED <<drivers, mainVars, requestVars, groupVars, wg>>

Sessions(n) == WaitGroupEmpty(n) \/ CloseSessions(n) \/ SessionEnds(n)

\* Run fails to connect to the node.
SessionFails(n) ==
  /\ session[n] \in {"running", "closing"}
  /\ session' = [session EXCEPT ![n] = "ended"]
  /\ buildErr' = TRUE
  /\ cancelled' = TRUE
  /\ UNCHANGED <<drivers, mainVars, requestVars, waiter, targetErr, resp, wg>>

\* The context of the caller is cancelled.
CancelBuild ==
  /\ ~ cancelled
  /\ cancelled' = TRUE
  /\ UNCHANGED <<drivers, mainVars, requestVars, waiter, targetErr, buildErr,
                 resp, sessionVars>>

Next ==
  \/ Main
  \/ \E r \in Keys : Request(r)
  \/ \E t \in Targets : Waiter(t)
  \/ \E n \in Nodes : Sessions(n) \/ SessionFails(n)
  \/ CancelBuild

Spec == Init /\ [][Next]_vars

\* Every goroutine runs; the builder answers each call, if only with an error.
FairSpec ==
  /\ Spec
  /\ WF_vars(Main)
  /\ \A r \in Keys : WF_vars(Request(r))
  /\ \A t \in Targets : WF_vars(Waiter(t))
  /\ \A n \in Nodes : WF_vars(Sessions(n))

-----------------------------------------------------------------------------
TypeOK ==
  /\ drivers \in Assignments
  /\ main \in {"start", "loop", "wait", "ok", "error"}
  /\ todo \subseteq Targets
  /\ cur \in Targets \cup {None}
  /\ left \subseteq Nodes
  /\ pc \in [Keys -> {"idle", "deps", "solve", "children", "evaluate", "export",
                      "done", "failed"}]
  /\ pending \in [Keys -> SUBSET Keys]
  /\ at \in [Keys -> Keys \cup {None}]
  /\ m \subseteq Keys
  /\ ch \in [Keys -> {"none", "open", "nil"}]
  /\ waiter \in [Targets -> {"none", "waiting", "merge", "done", "failed"}]
  /\ targetErr \subseteq Targets
  /\ buildErr \in BOOLEAN
  /\ cancelled \in BOOLEAN
  /\ resp \subseteq Targets
  /\ wg \in [Nodes -> Nat]
  /\ session \in [Nodes -> {"none", "running", "closing", "closed", "ended"}]

\* The goroutines, the wait map and the error groups of BuildWithResultHandler
\* implement TargetGraph: a request is solved once, after its contexts, and the
\* call succeeds only when every request is solved.
Graph == INSTANCE TargetGraph WITH
  requests <- Requests,
  solved <- m,
  outcome <- IF main \in {"ok", "error"} THEN main ELSE "running"

ImplementsGraph == Graph!Spec

\* When the call succeeds it has a response of every target, and when eg.Wait
\* has returned, with or without an error, no goroutine of a request is left.
WaitCoversAll ==
  /\ main = "ok" => resp = Targets /\ \A r \in Requests : pc[r] = "done"
  /\ main \in {"ok", "error"} /\ (\A t \in Targets : waiter[t] # "none")
       => \A r \in Requests : Ended(r)

\* wg.Add and wg.Done of a node's wait group are paired on every path of a
\* request, so that it counts the requests that still use the shared sessions.
SessionsCounted ==
  \A n \in Nodes :
    wg[n] = IF Shared(n) THEN Cardinality({r \in Keys : r[2] = n /\ Active(r)}) ELSE 0

\* A target that others use waits for them and they wait for it; whatever
\* fails, in whichever order the targets were started, the call returns.
BuildReturns == <>(main \in {"ok", "error"})

\* "we need to wait until the child targets have completed before we can
\* release": buildFunc of a request does not return before those of the
\* requests that read its result.
HeldForChildren ==
  \A r \in Requests :
    pc[r] \in {"export", "done"} => \A c \in childTargets(r) : pc[c] \in {"export", "done", "failed"}

\* detectSharedMounts creates "a separate session that will be used by all
\* detected requests": it is not closed before the last of them is over.
SessionOpenWhileUsed ==
  \A r \in Requests :
    /\ ~ cancelled /\ targetErr = {}
    /\ Shared(r[2])
    /\ Active(r)
    => session[r[2]] # "closed"
=============================================================================
