----------------------------- MODULE MCResults ------------------------------
(* What a session keeps of a build: the reader that replays its context and  *)
(* the handle of its result.  They share no state, so a behaviour of the two *)
(* is one of either while the other rests.                                   *)
EXTENDS Integers

CONSTANTS Reader, Size, Cap,               \* of the reader
          Callers, Cleanups, MaxStatus     \* of the result handle

(* The source has a size and the buffer has room.                           *)
ASSUME ReaderAssumption == Size \in Nat /\ Cap \in Nat \ {0}

(* A caller inside doneOnce is told from the two other states of it.        *)
ASSUME CallersAssumption == {"free", "finished"} \cap Callers = {}

VARIABLES part,    \* the component that runs
          taken, base, length, offset, err, at, state, parked, ended, garbled, static,
          baseDone, ctxDone, done, first, watcher, main, build, respHandle, respErr, ret, ch, baseCh,
          forwarder, statuses, handleDone, once, caller, registered, promised, ran

R == INSTANCE MultiReader WITH waiting <- parked
H == INSTANCE ResultHandle

ofReader == <<taken, base, length, offset, err, at, state, parked, ended, garbled, static>>
ofHandle == <<baseDone, ctxDone, done, first, watcher, main, build, respHandle, respErr, ret, ch, baseCh,
              forwarder, statuses, handleDone, once, caller, registered, promised, ran>>
all == <<part, ofReader, ofHandle>>

MCInit == part \in {"reader", "handle"} /\ R!Init /\ H!Init

inReader == part = "reader" /\ UNCHANGED <<part, ofHandle>>
inHandle == part = "handle" /\ UNCHANGED <<part, ofReader>>

MCNext == (inReader /\ R!Next) \/ (inHandle /\ H!Next)

\* The fairness of each; the part never changes.
MCFairness ==
    /\ \A r \in Reader : WF_all(inReader /\ R!Read(r))
    /\ WF_all(inHandle /\ H!WatcherCancels) /\ WF_all(inHandle /\ H!BuildSteps)
    /\ WF_all(inHandle /\ H!MainSteps) /\ WF_all(inHandle /\ H!ForwarderSteps)
    /\ \A c \in Callers : WF_all(inHandle /\ H!DoneSteps(c))

MCSpec == MCInit /\ [][MCNext]_all /\ MCFairness

\* Each reader gets the bytes of the source in order, and its end after all of
\* them, although they share one buffer: Read never fills it while an open reader
\* has bytes of it to copy.
WholeInput == R!WholeInput

\* Every reader finishes, if the others read on or are closed.
ReadersFinish == R!ReadersFinish

\* A session whose handle was recorded before the caller's context ended stays
\* open until Done, and is over, its cleanups run, when Done returns.
OpenUntilDone == H!OpenUntilDone

\* NewResultHandle returns a handle or an error, a handle that it did not return
\* does not keep its session, and Done returns.
HandleEnds == part = "handle" => H!HandleEnds
=============================================================================
