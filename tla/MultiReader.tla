---------------------------- MODULE MultiReader ----------------------------
(***************************************************************************)
(* SyncMultiReader (build/replicatedstream.go): the nodes of a build read   *)
(* one standard input, each with a reader of its own, through one buffer    *)
(* that is refilled when every open reader has caught up.                   *)
(*                                                                         *)
(* A byte is its position in the source.  Read holds the mutex from its     *)
(* call to its return or to cond.Wait, so each way through its loop is one  *)
(* action.  Its outer variable end is left out: when it is stale, Read only *)
(* runs the same tests again on the same state.                             *)
(***************************************************************************)
EXTENDS Integers, FiniteSets

CONSTANTS Reader,
          Size,         \* bytes in the source
          Cap           \* capacity of the buffer

VARIABLES taken,        \* bytes read from the source
          base,         \* the position of the first byte of the buffer
          length,       \* len(mr.buffer)
          offset,       \* mr.offset
          err,          \* mr.err is set
          at,           \* the offset of each reader
          state,        \* "none", "open", "closed", or "static" readers
          waiting,      \* readers in cond.Wait
          ended,        \* readers whose Read has returned the error
          garbled,      \* readers that were given a byte out of place, or whose
                        \* slice of the buffer does not exist
          static        \* mr.static: how many bytes it has, or -1 for nil

vars == <<taken, base, length, offset, err, at, state, waiting, ended, garbled,
          static>>

open(r) == state[r] = "open"
last == offset + length
behind == {r \in Reader : open(r) /\ at[r] < last}

(* Readers are made before any of them reads, or after the whole input was  *)
(* read and kept: toSolveOpt runs for every node before the first solve.    *)
NewReadCloser(r) ==
    /\ state[r] = "none"
    /\ static >= 0 \/ (taken = 0 /\ ~err)
    /\ state' = [state EXCEPT ![r] = IF static >= 0 THEN "static" ELSE "open"]
    /\ UNCHANGED <<taken, base, length, offset, err, at, waiting, ended, garbled,
                   static>>

-----------------------------------------------------------------------------
(* Read, when the error is set and the reader has everything.               *)
ReturnsErr(r) ==
    /\ open(r) /\ r \notin waiting /\ r \notin ended
    /\ err /\ at[r] = last
    /\ ended' = ended \cup {r}
    /\ UNCHANGED <<taken, base, length, offset, err, at, state, waiting, garbled,
                   static>>

(* Where the bytes of a reader begin in the buffer.  Go refuses to slice it  *)
(* from a negative index.                                                   *)
start(r) == at[r] - offset

(* Read, when the buffer has bytes for the reader.                          *)
Copies(r) ==
    /\ open(r) /\ r \notin waiting /\ r \notin ended
    /\ at[r] < last
    /\ \E n \in 1..(last - at[r]) : at' = [at EXCEPT ![r] = @ + n]
    /\ garbled' = IF start(r) >= 0 /\ base + start(r) = at[r] THEN garbled
                  ELSE garbled \cup {r}
    /\ waiting' = {}
    /\ UNCHANGED <<taken, base, length, offset, err, state, ended, static>>

(* Read, when another open reader has not caught up.                        *)
Waits(r) ==
    /\ open(r) /\ r \notin waiting /\ r \notin ended
    /\ ~err /\ at[r] = last /\ behind # {}
    /\ waiting' = waiting \cup {r}
    /\ UNCHANGED <<taken, base, length, offset, err, at, state, ended, garbled,
                   static>>

fillsEarly(r) ==                \* mutant: readers that are behind are not waited for
    /\ open(r) /\ r \notin waiting /\ r \notin ended
    /\ ~err /\ at[r] = last

mayFill(r) ==
    /\ open(r) /\ r \notin waiting /\ r \notin ended
    /\ ~err /\ at[r] = last /\ behind = {}

(* Read, when all have caught up: the buffer is filled again and the reader *)
(* takes the first part of it.                                              *)
Fills(r) ==
    /\ mayFill(r)
    /\ \E n \in 1..Cap :
          /\ n <= Size - taken
          /\ offset' = offset + length
          /\ base' = taken
          /\ length' = n
          /\ taken' = taken + n
          /\ \E k \in 1..n : at' = [at EXCEPT ![r] = @ + k]
    /\ garbled' = IF taken = at[r] THEN garbled ELSE garbled \cup {r}
    /\ waiting' = {}
    /\ UNCHANGED <<err, state, ended, static>>

(* The source ends or fails.  Files and pipes, the sources buildx has, do   *)
(* so without data; an error may come before all Size bytes have.           *)
SourceEnds(r) ==
    /\ mayFill(r)
    /\ offset' = offset + length
    /\ base' = taken
    /\ length' = 0
    /\ err' = TRUE
    /\ ended' = ended \cup {r}
    /\ waiting' = {}
    /\ UNCHANGED <<taken, at, state, garbled, static>>

Read(r) ==
    ReturnsErr(r) \/ Copies(r) \/ Waits(r) \/ Fills(r) \/ SourceEnds(r)

closesSilently(r) ==            \* mutant: no Broadcast
    /\ open(r)
    /\ state' = [state EXCEPT ![r] = "closed"]
    /\ waiting' = waiting \ {r}
    /\ UNCHANGED <<taken, base, length, offset, err, at, ended, garbled, static>>

(* Close, by the reader's owner, also while its Read waits.                 *)
Close(r) ==
    /\ open(r)
    /\ state' = [state EXCEPT ![r] = "closed"]
    /\ waiting' = {}
    /\ UNCHANGED <<taken, base, length, offset, err, at, ended, garbled, static>>

-----------------------------------------------------------------------------
(* createTempDockerfile: the input is a Dockerfile.  The reader of the      *)
(* first node reads all of it and the readers of later nodes get a copy.    *)
Reset(r) ==
    /\ r \in ended /\ static = -1
    /\ \A q \in Reader \ {r} : state[q] = "none"
    /\ static' = at[r]
    /\ UNCHANGED <<taken, base, length, offset, err, at, state, waiting, ended,
                   garbled>>

Init ==
    /\ taken = 0 /\ base = 0 /\ length = 0 /\ offset = 0
    /\ err = FALSE
    /\ at = [r \in Reader |-> 0]
    /\ state = [r \in Reader |-> "none"]
    /\ waiting = {} /\ ended = {} /\ garbled = {}
    /\ static = -1

Next ==
    \/ \E r \in Reader : NewReadCloser(r) \/ Read(r) \/ Close(r) \/ Reset(r)

(* A session copies from its reader until the end: its Read calls go on.    *)
Fairness == \A r \in Reader : WF_vars(Read(r))

Spec == Init /\ [][Next]_vars
FairSpec == Spec /\ Fairness

-----------------------------------------------------------------------------
(* Positions, readers and the copy are in known states, and what the source *)
(* gave is what the buffer has passed on or holds.                          *)
TypeOK ==
    /\ taken \in Nat /\ base \in Nat /\ length \in Nat /\ offset \in Nat
    /\ err \in BOOLEAN
    /\ at \in [Reader -> Nat]
    /\ state \in [Reader -> {"none", "open", "closed", "static"}]
    /\ waiting \subseteq Reader /\ ended \subseteq Reader /\ garbled \subseteq Reader
    /\ static \in Int
    /\ taken = last

(* The slice of the buffer that Read takes always exists: no open reader is *)
(* before the buffer, whose bytes it would have missed, or past its end.    *)
InWindow == \A r \in Reader : open(r) => offset <= at[r] /\ at[r] <= last

(* "Reader %d mismatch": each reader gets the bytes of the source, in their *)
(* order and without a gap, although the others read and close as they like *)
(* and the buffer is overwritten in place.                                  *)
SameBytes == garbled = {}

(* "Reader %d EOF mismatch": a reader is told of the end only after it has  *)
(* received every byte the source has given.                                *)
EndIsComplete == \A r \in ended : open(r) => at[r] = taken

(* Each reader gets the whole input and then its end: what it has not read  *)
(* yet is in the buffer or still in the source, never overwritten.          *)
WholeInput == InWindow /\ SameBytes /\ EndIsComplete

(* A reader that waits has someone to wait for: an open reader whose next   *)
(* Read or Close wakes it.  No wake-up is lost.                             *)
WaitsForSomeone == waiting # {} => behind # {}

(* Every reader finishes, if the others read on or are closed.              *)
ReadersFinish == \A r \in Reader : open(r) ~> (r \in ended \/ ~open(r))
=============================================================================
