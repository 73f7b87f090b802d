------------------------------ MODULE WaitMap ------------------------------
(***************************************************************************)
(* util/waitmap: a map whose readers wait for keys that are not set yet.   *)
(* The mutex makes Set and each half of Get one step; a Get of several     *)
(* keys is a Get of one key after another.                                 *)
(***************************************************************************)
CONSTANT Keys

VARIABLES
  m,   \* the keys that are set
  ch   \* per key: "none" (no entry), "open" (a channel readers wait on), "nil"

waitMapVars == <<m, ch>>

New ==
  /\ m = {}
  /\ ch = [k \in Keys |-> "none"]

\* A channel that readers hold is closed, which wakes them all.
Set(k) ==
  /\ m' = m \cup {k}
  /\ ch' = [ch EXCEPT ![k] = "nil"]

\* The key is set (its entry is nil, or the channel waited on is closed): the
\* value is read under the lock.
GetReturns(k) ==
  /\ ch[k] = "nil"
  /\ UNCHANGED waitMapVars

\* The key is not set: make the channel if there is none, unlock and wait.
GetBlocks(k) ==
  /\ ch[k] # "nil"
  /\ ch' = [ch EXCEPT ![k] = "open"]
  /\ UNCHANGED m
=============================================================================
