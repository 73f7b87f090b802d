---------------------------- MODULE TargetGraph ----------------------------
(***************************************************************************)
(* What a build of several linked targets promises (build/build.go): every *)
(* request (one target on one node) is solved at most once and only after  *)
(* the requests whose results it uses as a context, and the build succeeds *)
(* only when all its requests are solved.  Targets.tla implements this     *)
(* with goroutines, a wait map, error groups and contexts.                 *)
(***************************************************************************)
CONSTANT Needs        \* per target, the targets it uses as a named context

VARIABLES
  requests,           \* the requests of this build, fixed at its start
  solved,             \* the requests with a result
  outcome             \* "running", "ok" or "error"

vars == <<requests, solved, outcome>>

\* The requests whose results request r = <<target, node>> reads.
Contexts(r) == {<<d, r[2]>> : d \in Needs[r[1]]}

Init ==
  /\ solved = {}
  /\ outcome = "running"

Solve(r) ==
  /\ r \in requests \ solved
  /\ Contexts(r) \cap requests \subseteq solved
  /\ outcome # "ok"
  /\ solved' = solved \cup {r}
  /\ UNCHANGED <<requests, outcome>>

Succeed ==
  /\ outcome = "running"
  /\ solved = requests
  /\ outcome' = "ok"
  /\ UNCHANGED <<requests, solved>>

Fail ==
  /\ outcome = "running"
  /\ outcome' = "error"
  /\ UNCHANGED <<requests, solved>>

Next == Succeed \/ Fail \/ \E r \in requests : Solve(r)

Spec == Init /\ [][Next]_vars
=============================================================================
