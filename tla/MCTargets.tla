----------------------------- MODULE MCTargets -----------------------------
(* Linked targets on two nodes, for TLC. *)
EXTENDS Targets, TLC

\* app reads lib, which reads base
MCNeeds == "app" :> {"lib"} @@ "lib" :> {"base"} @@ "base" :> {}

\* one node; base on both; an invalid one, where lib has no base on its node
MCAssignments ==
  { "app" :> {1} @@ "lib" :> {1} @@ "base" :> {1},
    "app" :> {1} @@ "lib" :> {1} @@ "base" :> {1, 2},
    "app" :> {1} @@ "lib" :> {2} @@ "base" :> {1} }

\* app and base are built from the same directory
MCMounts == "app" :> {"src"} @@ "lib" :> {"lib"} @@ "base" :> {"src"}
=============================================================================
