--------------------------- MODULE SessionProofs ---------------------------
(***************************************************************************)
(* Proofs about what a session keeps of a build: the reader that replays   *)
(* its input (MultiReader), the handle of its result (ResultHandle) and    *)
(* the processes started from it (Processes), for any number of readers,   *)
(* callers, processes and sessions.  The three share no state.             *)
(***************************************************************************)
EXTENDS Processes, MCResults, TLAPS

(* What the properties rest on: the buffer begins where mr.offset says,     *)
(* readers that do not exist have read nothing, and Read reports an error   *)
(* only to existing readers and only once it is set.                        *)
Aligned ==
    /\ base = offset
    /\ \A r \in Reader : state[r] = "none" => at[r] = 0
    /\ \A r \in ended : err /\ state[r] # "none"

ReaderSafe == R!InWindow /\ R!SameBytes /\ R!EndIsComplete /\ R!WaitsForSomeone
ReaderInv == R!TypeOK /\ Aligned /\ ReaderSafe

-----------------------------------------------------------------------------
LEMMA ReaderInitially == R!Init => ReaderInv
<1> SUFFICES ASSUME R!Init PROVE ReaderInv
  BY Zenon
<1>1. taken = R!last /\ static \in Int /\ R!last = 0
  BY DEF R!Init, R!last
<1>2. R!TypeOK
  <2>1. err \in BOOLEAN
        /\ parked \subseteq Reader /\ ended \subseteq Reader /\ garbled \subseteq Reader
    BY Zenon DEF R!Init
  <2>2. at \in [Reader -> Nat]
    BY Zenon DEF R!Init
  <2>3. state \in [Reader -> {"none", "open", "closed", "static"}]
    BY Zenon DEF R!Init
  <2>4. taken \in Nat /\ base \in Nat /\ length \in Nat /\ offset \in Nat
    BY Zenon DEF R!Init
  <2>5. QED
    BY <1>1, <2>1, <2>2, <2>3, <2>4, Zenon DEF R!TypeOK
<1>3. Aligned
  BY Zenon DEF R!Init, Aligned
<1>4. ReaderSafe
  BY <1>1 DEF R!Init, ReaderSafe, R!InWindow, R!SameBytes, R!EndIsComplete, R!WaitsForSomeone
<1>5. QED
  BY <1>2, <1>3, <1>4, Zenon DEF ReaderInv

(* Copying moves the reader within the buffer and wakes everybody.          *)
LEMMA CopiesOK == ASSUME ReaderInv, NEW r \in Reader, R!Copies(r) PROVE ReaderInv'
<1>1. PICK n \in 1..(R!last - at[r]) : at' = [at EXCEPT ![r] = @ + n]
  BY Zenon DEF R!Copies
<1>2. at'[r] = at[r] + n /\ at'[r] <= R!last /\ \A q \in Reader : q # r => at'[q] = at[q]
  BY <1>1 DEF ReaderInv, R!TypeOK, R!last
<1>3. UNCHANGED <<taken, base, length, offset, err, state, ended, static>>
      /\ parked' = {} /\ garbled' = {} /\ r \notin ended /\ R!open(r)
  <2>1. R!start(r) >= 0 /\ base + R!start(r) = at[r]
    BY DEF R!Copies, R!start, ReaderInv, Aligned, R!TypeOK, ReaderSafe, R!InWindow
  <2>2. garbled' = {}
    BY <2>1, Zenon DEF R!Copies, ReaderInv, ReaderSafe, R!SameBytes
  <2>3. QED
    BY <2>2, Zenon DEF R!Copies
<1>4. R!TypeOK'
  BY <1>1, <1>2, <1>3 DEF ReaderInv, R!TypeOK, R!last
<1>5. Aligned'
  BY <1>2, <1>3, Zenon DEF ReaderInv, Aligned, R!open
<1>6. ReaderSafe'
  BY <1>2, <1>3 DEF ReaderInv, R!TypeOK, ReaderSafe, R!InWindow, R!SameBytes, R!EndIsComplete,
                    R!WaitsForSomeone, R!last, R!open
<1>7. QED
  BY <1>4, <1>5, <1>6, Zenon DEF ReaderInv

(* Filling happens when every open reader is at the end of the buffer, so   *)
(* each is at the beginning of the new one.                                 *)
LEMMA FillsOK == ASSUME ReaderInv, NEW r \in Reader, R!Fills(r) PROVE ReaderInv'
<1>1. PICK n \in 1..Cap :
        /\ n <= Size - taken
        /\ offset' = R!last /\ base' = taken /\ length' = n /\ taken' = taken + n
        /\ \E k \in 1..n : at' = [at EXCEPT ![r] = @ + k]
  BY Zenon DEF R!Fills, R!last
<1>2. PICK k \in 1..n : at' = [at EXCEPT ![r] = @ + k]
  BY <1>1, Zenon
<1>3. /\ R!open(r) /\ ~err /\ at[r] = R!last /\ parked' = {}
      /\ \A q \in Reader : R!open(q) => at[q] = R!last
      /\ UNCHANGED <<err, state, ended, static>>
  BY DEF R!Fills, R!mayFill, R!behind, ReaderInv, R!TypeOK, ReaderSafe, R!InWindow, R!last
<1>4. taken = R!last /\ garbled' = {}
  BY <1>3, Zenon DEF R!Fills, ReaderInv, R!TypeOK, ReaderSafe, R!SameBytes
<1>5. n \in Nat /\ k \in Nat /\ 1 <= k /\ k <= n
  BY ReaderAssumption
<1>6. at'[r] = R!last + k /\ \A q \in Reader : q # r => at'[q] = at[q]
  BY <1>2, <1>3, Zenon DEF ReaderInv, R!TypeOK
<1>7. R!TypeOK'
  BY <1>1, <1>2, <1>3, <1>4, <1>5 DEF ReaderInv, R!TypeOK, R!last
<1>8. Aligned'
  BY <1>1, <1>3, <1>4, <1>6, Zenon DEF ReaderInv, Aligned, R!open
<1>9. R!last' = R!last + n /\ offset' = R!last /\ R!last \in Nat
  BY <1>1, <1>5, Zenon DEF ReaderInv, R!TypeOK, R!last
<1>10. ReaderSafe'
  <2>1. R!InWindow'
    BY <1>3, <1>5, <1>6, <1>9 DEF R!InWindow, R!open
  <2>2. R!EndIsComplete'
    BY <1>3, Zenon DEF ReaderInv, Aligned, R!EndIsComplete
  <2>3. QED
    BY <1>3, <1>4, <2>1, <2>2, Zenon DEF ReaderSafe, R!SameBytes, R!WaitsForSomeone
<1>11. QED
  BY <1>7, <1>8, <1>10, Zenon DEF ReaderInv

(* The end of the source empties the buffer when nobody is behind.          *)
LEMMA SourceEndsOK == ASSUME ReaderInv, NEW r \in Reader, R!SourceEnds(r) PROVE ReaderInv'
<1>1. /\ R!open(r) /\ at[r] = R!last /\ parked' = {} /\ ended' = ended \cup {r}
      /\ \A q \in Reader : R!open(q) => at[q] = R!last
      /\ offset' = R!last /\ base' = taken /\ length' = 0 /\ err' = TRUE
      /\ UNCHANGED <<taken, at, state, garbled, static>>
  BY DEF R!SourceEnds, R!mayFill, R!behind, ReaderInv, R!TypeOK, ReaderSafe, R!InWindow, R!last
<1>2. R!last' = R!last /\ taken = R!last /\ R!last \in Nat
  BY <1>1 DEF ReaderInv, R!TypeOK, R!last
<1>3. R!TypeOK'
  BY <1>1, <1>2, Zenon DEF ReaderInv, R!TypeOK, R!last
<1>4. Aligned'
  BY <1>1, <1>2, Zenon DEF ReaderInv, Aligned, R!open
<1>5. ReaderSafe'
  BY <1>1, <1>2, Zenon DEF ReaderInv, ReaderSafe, R!InWindow, R!SameBytes, R!EndIsComplete, R!WaitsForSomeone,
                    R!open
<1>6. QED
  BY <1>3, <1>4, <1>5, Zenon DEF ReaderInv

LEMMA ReaderInductive == ReaderInv /\ [R!Next]_(R!vars) => ReaderInv'
<1> SUFFICES ASSUME ReaderInv, [R!Next]_(R!vars) PROVE ReaderInv'
  BY Zenon
<1> USE DEF ReaderInv, ReaderSafe
<1>1. ASSUME NEW r \in Reader, R!NewReadCloser(r) PROVE ReaderInv'
  <2>1. state' = [state EXCEPT ![r] = IF static >= 0 THEN "static" ELSE "open"]
        /\ UNCHANGED <<taken, base, length, offset, err, at, parked, ended, garbled,
                       static>>
        /\ state[r] = "none" /\ (static >= 0 \/ taken = 0)
    BY <1>1, Zenon DEF R!NewReadCloser
  <2>2. R!TypeOK'
    BY <2>1, Zenon DEF R!TypeOK, R!last
  <2>3. Aligned' /\ R!SameBytes' /\ R!EndIsComplete'
    BY <2>1, Zenon DEF R!TypeOK, Aligned, R!SameBytes, R!EndIsComplete, R!open
  <2>4. R!InWindow'
    BY <2>1 DEF R!TypeOK, Aligned, R!InWindow, R!open, R!last
  <2>5. R!WaitsForSomeone'
    BY <2>1, Zenon DEF R!TypeOK, R!WaitsForSomeone, R!behind, R!open, R!last
  <2>6. QED
    BY <2>2, <2>3, <2>4, <2>5, Zenon
<1>2. ASSUME NEW r \in Reader, R!ReturnsErr(r) PROVE ReaderInv'
  BY <1>2, Zenon DEF R!ReturnsErr, R!TypeOK, Aligned, R!InWindow, R!SameBytes, R!EndIsComplete,
              R!WaitsForSomeone, R!behind, R!open, R!last
<1>3. ASSUME NEW r \in Reader, R!Waits(r) PROVE ReaderInv'
  BY <1>3, Zenon DEF R!Waits, R!TypeOK, Aligned, R!InWindow, R!SameBytes, R!EndIsComplete,
              R!WaitsForSomeone, R!behind, R!open, R!last
<1>4. ASSUME NEW r \in Reader, R!Close(r) PROVE ReaderInv'
  BY <1>4, Zenon DEF R!Close, R!TypeOK, Aligned, R!InWindow, R!SameBytes, R!EndIsComplete,
              R!WaitsForSomeone, R!open, R!last
<1>5. ASSUME NEW r \in Reader, R!Reset(r) PROVE ReaderInv'
  BY <1>5 DEF R!Reset, R!TypeOK, Aligned, R!InWindow, R!SameBytes, R!EndIsComplete,
              R!WaitsForSomeone, R!behind, R!open, R!last
<1>6. ASSUME UNCHANGED R!vars PROVE ReaderInv'
  BY <1>6, Zenon DEF R!vars, R!TypeOK, Aligned, R!InWindow, R!SameBytes, R!EndIsComplete,
              R!WaitsForSomeone, R!behind, R!open, R!last
<1>7. QED
  BY <1>1, <1>2, <1>3, <1>4, <1>5, <1>6, CopiesOK, FillsOK, SourceEndsOK, Zenon
  DEF R!Next, R!Read

(* The bookkeeping of the buffer is consistent for any input and readers.   *)
THEOREM ReaderTypeCorrect == R!Spec => []R!TypeOK
<1>1. ReaderInv => R!TypeOK
  BY Zenon DEF ReaderInv
<1>2. QED
  BY ReaderInitially, ReaderInductive, <1>1, PTL DEF R!Spec

(* Read never slices outside the buffer, and no reader misses bytes.        *)
THEOREM NoReaderMisses == R!Spec => []R!InWindow
<1>1. ReaderInv => R!InWindow
  BY Zenon DEF ReaderInv, ReaderSafe
<1>2. QED
  BY ReaderInitially, ReaderInductive, <1>1, PTL DEF R!Spec

(* Every reader receives the bytes of the source in order, and the end only *)
(* after all of them.                                                       *)
THEOREM ReadersAgree == R!Spec => []WholeInput
<1>1. ReaderInv => WholeInput
  BY Zenon DEF ReaderInv, ReaderSafe, WholeInput, R!WholeInput
<1>2. QED
  BY ReaderInitially, ReaderInductive, <1>1, PTL DEF R!Spec

(* No wake-up is lost: a waiting reader has an open reader to wait for.     *)
THEOREM NoLostWakeUp == R!Spec => []R!WaitsForSomeone
<1>1. ReaderInv => R!WaitsForSomeone
  BY Zenon DEF ReaderInv, ReaderSafe
<1>2. QED
  BY ReaderInitially, ReaderInductive, <1>1, PTL DEF R!Spec

-----------------------------------------------------------------------------
(* The result handle: what ties its contexts, its build and Done together.  *)
BuildPcs == {"solving", "record", "fails", "second", "announce", "announceError",
             "open", "returns", "ended"}
CallerPcs == {"idle", "called", "closing", "waits", "returned"}

(* The first of the two events wakes the watcher, and a context that has    *)
(* ended was cancelled by the caller or ended with the build.               *)
Woken ==
    /\ build \in BuildPcs /\ ctxDone \in BOOLEAN /\ handleDone \in BOOLEAN
    /\ first = "none" <=> watcher = "waiting"
    /\ watcher = "cancels" => first = "base"
    /\ ctxDone => first = "base" \/ build = "ended"

(* The handle exists only past the steps that record it, the channel done   *)
(* is closed only after them, and a session that was open when it closed is *)
(* ended by Done.                                                           *)
Announced ==
    /\ build \in {"solving", "fails", "second", "announceError"} => respHandle = "none"
    /\ build \notin {"open", "returns", "ended"} => first # "done"
    /\ build \in {"returns", "ended"} /\ respHandle # "none" /\ first = "done" => handleDone

(* Done: one caller at a time is inside doneOnce, and it leaves with the    *)
(* cleanups run, the handle's channel closed and the context ended.         *)
OneInside ==
    /\ caller \in [Callers -> CallerPcs]
    /\ \A c \in Callers :
          /\ caller[c] \in {"closing", "waits"} => once = c
          /\ caller[c] = "waits" => handleDone /\ promised \subseteq ran
          /\ caller[c] = "returned" => once = "finished"
    /\ once = "finished" => ctxDone /\ handleDone /\ promised \subseteq ran

HandleInv == Woken /\ Announced /\ OneInside /\ OpenUntilDone

LEMMA HandleInitially == H!Init => HandleInv
BY Zenon DEF H!Init, HandleInv, Woken, Announced, OneInside, OpenUntilDone, H!OpenUntilDone,
   BuildPcs, CallerPcs

(* Every step of the watcher, the build, NewResultHandle, the forwarder and *)
(* the callers of Done keeps the invariant of the handle.                   *)
LEMMA HandleInductive == HandleInv /\ [H!Next]_(H!vars) => HandleInv'
<1> SUFFICES ASSUME HandleInv, [H!Next]_(H!vars) PROVE HandleInv'
  BY Zenon
<1>1. ASSUME H!CancelBase PROVE HandleInv'
    BY <1>1, Zenon DEF HandleInv, Woken, Announced, OneInside, OpenUntilDone, H!OpenUntilDone,
     BuildPcs, CallerPcs, H!CancelBase, H!wakeWatcher, H!wakeMain, H!firstEvent,
     H!buildVars, H!statusVars, H!doneVars
<1>2. ASSUME H!WatcherCancels PROVE HandleInv'
    BY <1>2, Zenon DEF HandleInv, Woken, Announced, OneInside, OpenUntilDone, H!OpenUntilDone,
     BuildPcs, CallerPcs, H!WatcherCancels, H!buildVars, H!statusVars, H!doneVars
<1>3. ASSUME H!SolveFails PROVE HandleInv'
    BY <1>3, Zenon DEF HandleInv, Woken, Announced, OneInside, OpenUntilDone, H!OpenUntilDone,
     BuildPcs, CallerPcs, H!SolveFails, H!Goto, H!contextSame, H!statusVars, H!doneVars
<1>4. ASSUME H!RecordError PROVE HandleInv'
    BY <1>4, Zenon DEF HandleInv, Woken, Announced, OneInside, OpenUntilDone, H!OpenUntilDone,
     BuildPcs, CallerPcs, H!RecordError, H!Goto, H!contextSame, H!statusVars, H!doneVars
<1>5. ASSUME H!BuildFails PROVE HandleInv'
    BY <1>5, Zenon DEF HandleInv, Woken, Announced, OneInside, OpenUntilDone, H!OpenUntilDone,
     BuildPcs, CallerPcs, H!BuildFails, H!Goto, H!contextSame, H!doneVars
<1>6. ASSUME H!BuildSucceeds PROVE HandleInv'
    BY <1>6, Zenon DEF HandleInv, Woken, Announced, OneInside, OpenUntilDone, H!OpenUntilDone,
     BuildPcs, CallerPcs, H!BuildSucceeds, H!Goto, H!contextSame, H!doneVars
<1>7. ASSUME H!SecondFails PROVE HandleInv'
    BY <1>7, Zenon DEF HandleInv, Woken, Announced, OneInside, OpenUntilDone, H!OpenUntilDone,
     BuildPcs, CallerPcs, H!SecondFails, H!Goto, H!contextSame, H!statusVars, H!doneVars
<1>8. ASSUME H!SecondOpens PROVE HandleInv'
    BY <1>8, Zenon DEF HandleInv, Woken, Announced, OneInside, OpenUntilDone, H!OpenUntilDone,
     BuildPcs, CallerPcs, H!SecondOpens, H!Goto, H!contextSame, H!statusVars, H!doneVars
<1>9. ASSUME H!CloseDone PROVE HandleInv'
    BY <1>9, Zenon DEF HandleInv, Woken, Announced, OneInside, OpenUntilDone, H!OpenUntilDone,
     BuildPcs, CallerPcs, H!CloseDone, H!Announce, H!Goto, H!wakeWatcher, H!wakeMain,
     H!firstEvent, H!statusVars, H!doneVars
<1>10. ASSUME H!SessionEnds PROVE HandleInv'
    BY <1>10, Zenon DEF HandleInv, Woken, Announced, OneInside, OpenUntilDone, H!OpenUntilDone,
     BuildPcs, CallerPcs, H!SessionEnds, H!Goto, H!contextSame, H!doneVars
<1>11. ASSUME H!BuildReturns PROVE HandleInv'
    BY <1>11, Zenon DEF HandleInv, Woken, Announced, OneInside, OpenUntilDone, H!OpenUntilDone,
     BuildPcs, CallerPcs, H!BuildReturns, H!Goto, H!statusVars, H!doneVars
<1>12. ASSUME H!ReadError PROVE HandleInv'
    BY <1>12, Zenon DEF HandleInv, Woken, Announced, OneInside, OpenUntilDone, H!OpenUntilDone,
     BuildPcs, CallerPcs, H!ReadError, H!contextVars, H!statusVars, H!doneVars
<1>13. ASSUME H!Return PROVE HandleInv'
    BY <1>13, Zenon DEF HandleInv, Woken, Announced, OneInside, OpenUntilDone, H!OpenUntilDone,
     BuildPcs, CallerPcs, H!Return, H!contextVars, H!buildVars, H!doneVars
<1>14. ASSUME H!ReceiveStatus PROVE HandleInv'
    BY <1>14, Zenon DEF HandleInv, Woken, Announced, OneInside, OpenUntilDone, H!OpenUntilDone,
     BuildPcs, CallerPcs, H!ReceiveStatus, H!contextVars, H!buildVars, H!doneVars
<1>15. ASSUME H!TestBase PROVE HandleInv'
    BY <1>15, Zenon DEF HandleInv, Woken, Announced, OneInside, OpenUntilDone, H!OpenUntilDone,
     BuildPcs, CallerPcs, H!TestBase, H!contextVars, H!buildVars, H!doneVars
<1>16. ASSUME H!SendStatus PROVE HandleInv'
    BY <1>16, Zenon DEF HandleInv, Woken, Announced, OneInside, OpenUntilDone, H!OpenUntilDone,
     BuildPcs, CallerPcs, H!SendStatus, H!contextVars, H!buildVars, H!doneVars
<1>17. ASSUME H!ForwarderEnds PROVE HandleInv'
    BY <1>17, Zenon DEF HandleInv, Woken, Announced, OneInside, OpenUntilDone, H!OpenUntilDone,
     BuildPcs, CallerPcs, H!ForwarderEnds, H!contextVars, H!buildVars, H!doneVars
<1>18. ASSUME NEW f \in Cleanups, H!RegisterCleanup(f) PROVE HandleInv'
    BY <1>18, Zenon DEF HandleInv, Woken, Announced, OneInside, OpenUntilDone, H!OpenUntilDone,
     BuildPcs, CallerPcs, H!RegisterCleanup, H!outside, H!contextVars, H!buildVars,
     H!statusVars
<1>19. ASSUME NEW c \in Callers, H!Done(c) PROVE HandleInv'
    BY <1>19, Zenon DEF HandleInv, Woken, Announced, OneInside, OpenUntilDone, H!OpenUntilDone,
     BuildPcs, CallerPcs, H!Done, H!outside, H!contextVars, H!buildVars, H!statusVars
<1>20. ASSUME NEW c \in Callers, H!EnterOnce(c) PROVE HandleInv'
    BY <1>20, CallersAssumption, Zenon DEF HandleInv, Woken, Announced, OneInside,
     OpenUntilDone, H!OpenUntilDone, BuildPcs, CallerPcs, H!EnterOnce, H!outside,
     H!contextVars, H!buildVars, H!statusVars
<1>21. ASSUME NEW c \in Callers, H!CloseHandle(c) PROVE HandleInv'
    BY <1>21, CallersAssumption, Zenon DEF HandleInv, Woken, Announced, OneInside,
     OpenUntilDone, H!OpenUntilDone, BuildPcs, CallerPcs, H!CloseHandle, H!outside,
     H!contextVars, H!buildVars, H!statusVars
<1>22. ASSUME NEW c \in Callers, H!LeaveOnce(c) PROVE HandleInv'
    BY <1>22, CallersAssumption, Zenon DEF HandleInv, Woken, Announced, OneInside,
     OpenUntilDone, H!OpenUntilDone, BuildPcs, CallerPcs, H!LeaveOnce, H!outside,
     H!contextVars, H!buildVars, H!statusVars
<1>23. ASSUME NEW c \in Callers, H!SkipOnce(c) PROVE HandleInv'
    BY <1>23, CallersAssumption, Zenon DEF HandleInv, Woken, Announced, OneInside,
     OpenUntilDone, H!OpenUntilDone, BuildPcs, CallerPcs, H!SkipOnce, H!outside,
     H!contextVars, H!buildVars, H!statusVars
<1>24. ASSUME NEW c \in Callers, NEW f \in Cleanups, H!RunCleanup(c, f) PROVE HandleInv'
    BY <1>24, Zenon DEF HandleInv, Woken, Announced, OneInside, OpenUntilDone, H!OpenUntilDone,
     BuildPcs, CallerPcs, H!RunCleanup, H!outside, H!contextVars, H!buildVars,
     H!statusVars
<1>25. ASSUME UNCHANGED H!vars PROVE HandleInv'
    BY <1>25, Zenon DEF HandleInv, Woken, Announced, OneInside, OpenUntilDone, H!OpenUntilDone,
     BuildPcs, CallerPcs, H!vars
<1>26. QED
  BY <1>1, <1>2, <1>3, <1>4, <1>5, <1>6, <1>7, <1>8, <1>9, <1>10, <1>11, <1>12, <1>13,
     <1>14, <1>15, <1>16, <1>17, <1>18, <1>19, <1>20, <1>21, <1>22, <1>23, <1>24, <1>25, Zenon
     DEF H!Next, H!BuildSteps, H!MainSteps, H!ForwarderSteps, H!DoneSteps

(* A session whose handle was recorded before the caller's context ended is *)
(* kept open until Done, and Done returns to no caller before the session   *)
(* is over and its cleanups have run.                                       *)
THEOREM HeldUntilDone == H!Spec => []OpenUntilDone
<1>1. HandleInv => OpenUntilDone
  BY Zenon DEF HandleInv
<1>2. QED
  BY HandleInitially, HandleInductive, <1>1, PTL DEF H!Spec

-----------------------------------------------------------------------------
Begun == {"exec", "run", "exited", "send", "done"}

(* What the two invariants rest on: only processes that were registered are *)
(* cancelled or collected, what is collected is no longer registered, and   *)
(* a sweep that has not collected yet, or has not begun, holds nothing that *)
(* starting it again would lose.                                            *)
Swept ==
    /\ \A p \in Start : p \in cancelled => pc[p] \in Begun
    /\ \A by \in canceller : \A p \in sweep[by].collected :
          pc[p] \in Begun /\ p \notin processes
    /\ \A by \in canceller : sweep[by].state # "cancel" => sweep[by].collected = {}
    /\ \A p \in Start : pc[p] = "idle" => sweep[p].state = "no"

ProcsSafe == Swept /\ RunningCancellable /\ ListsRunning
ProcsInv == TypeOK /\ ProcsSafe

-----------------------------------------------------------------------------
LEMMA ProcsInitially == Init => ProcsInv
  BY ProcessesAssumption DEF Init, ProcsInv, TypeOK, ProcsSafe, Swept,
       RunningCancellable, ListsRunning, Begun, Phases, Sweeps, Sweep, canceller

(* Every step of StartProcess, of a process, of a cancellation and of Done  *)
(* keeps the state well-typed.                                              *)
LEMMA ProcsTyped ==
    TypeOK /\ [Next]_vars => TypeOK'
<1> SUFFICES ASSUME TypeOK, [Next]_vars PROVE TypeOK'
  BY Zenon
<1>1. ASSUME NEW p \in Start, StartProcess(p) PROVE TypeOK'
  <2>1. CASE needsContainer(p)
    <3>1. sweep' \in [canceller -> Sweeps]
      BY <1>1, <2>1 DEF StartProcess, TypeOK, Phases, Sweeps, Sweep, canceller
    <3>2. pc' = [pc EXCEPT ![p] = "create"] /\ uses' = uses /\ retiring' \subseteq Start
      BY <1>1, <2>1 DEF StartProcess, TypeOK
    <3>3. QED
      BY <1>1, <3>1, <3>2, Zenon DEF StartProcess, ctrs, TypeOK, Phases
  <2>2. CASE ~needsContainer(p)
    BY <1>1, <2>2 DEF StartProcess, needsContainer, ctrs, TypeOK, Phases
  <2>3. QED
    BY <2>1, <2>2, Zenon
<1>2. ASSUME NEW p \in Start, NewContainer(p) PROVE TypeOK'
  BY <1>2, Zenon DEF NewContainer, TypeOK, Phases
<1>3. ASSUME NEW p \in Start, StoreContainer(p) PROVE TypeOK'
  BY <1>3, ProcessesAssumption, Zenon DEF StoreContainer, ctrs, TypeOK, Phases
<1>4. ASSUME NEW p \in Start, Register(p) PROVE TypeOK'
  BY <1>4, Zenon DEF Register, ctrs, TypeOK, Phases
<1>5. ASSUME NEW p \in Start, ExecStarts(p) PROVE TypeOK'
  BY <1>5, Zenon DEF ExecStarts, becomesInit, TypeOK, Phases
<1>6. ASSUME NEW p \in Start, ExecFails(p) PROVE TypeOK'
  BY <1>6, Zenon DEF ExecFails, becomesInit, TypeOK, Phases
<1>7. ASSUME NEW p \in Start, ExecEnds(p) PROVE TypeOK'
  BY <1>7, Zenon DEF ExecEnds, mustEnd, TypeOK, Phases
<1>8. ASSUME NEW p \in Start, Exited(p) PROVE TypeOK'
  BY <1>8, Zenon DEF Exited, ctrs, TypeOK, Phases
<1>9. ASSUME NEW p \in Start, SendError(p) PROVE TypeOK'
  BY <1>9, Zenon DEF SendError, ctrs, TypeOK, Phases
<1>10. ASSUME NEW p \in Start, Detach(p) PROVE TypeOK'
  BY <1>10, Zenon DEF Detach, ctrs, TypeOK
<1>11. ASSUME NEW p \in Start, Attach(p) PROVE TypeOK'
  BY <1>11, Zenon DEF Attach, ctrs, TypeOK
<1>12. ASSUME NEW p \in Start, DeleteProcess(p) PROVE TypeOK'
  BY <1>12, Zenon DEF DeleteProcess, ctrs, TypeOK
<1>13. ASSUME NEW p \in Start, CancelContainer(p) PROVE TypeOK'
  BY <1>13, Zenon DEF CancelContainer, Cancel, TypeOK
<1>14. ASSUME NEW p \in Start, DoneCleans(p) PROVE TypeOK'
  BY <1>14, Zenon DEF DoneCleans, Cancel, TypeOK
<1>15. ASSUME NEW by \in canceller, SweepCollects(by) PROVE TypeOK'
  BY <1>15, Zenon DEF SweepCollects, ctrs, TypeOK, Sweeps, Sweep
<1>16. ASSUME NEW by \in canceller, SweepCancels(by) PROVE TypeOK'
  BY <1>16, Zenon DEF SweepCancels, ctrs, TypeOK, Sweeps, Sweep
<1>17. ASSUME NEW o \in Owner, CancelRunningProcesses(o) PROVE TypeOK'
  BY <1>17, Zenon DEF CancelRunningProcesses, ctrs, TypeOK, Sweeps, Sweep, canceller
<1>18. ASSUME DoneTakes PROVE TypeOK'
  BY <1>18, Zenon DEF DoneTakes, ctrs, TypeOK
<1>19. ASSUME DoneCloses PROVE TypeOK'
  BY <1>19, Zenon DEF DoneCloses, TypeOK
<1>20. ASSUME UNCHANGED vars PROVE TypeOK'
  BY <1>20, Zenon DEF vars, ctrs, TypeOK
<1>21. QED
  BY <1>1, <1>2, <1>3, <1>4, <1>5, <1>6, <1>7, <1>8, <1>9, <1>10,
     <1>11, <1>12, <1>13, <1>14, <1>15, <1>16, <1>17, <1>18, <1>19, <1>20, Zenon DEF Next, ProcessStep

(* A call or its process goes on to s and the registered, collected and     *)
(* cancelled processes stay what they are.                                  *)
LEMMA GoesOn ==
    ASSUME TypeOK, ProcsSafe, NEW p \in Start, NEW s, s # "idle",
           pc' = [pc EXCEPT ![p] = s], UNCHANGED <<processes, cancelled, sweep>>,
           pc[p] \in Begun => s \in Begun,
           s \in {"exec", "run"} => pc[p] \in {"exec", "run"},
           pc[p] \in {"exec", "run", "exited"} => s \in {"exec", "run", "exited"}
    PROVE  ProcsSafe'
<1>1. pc'[p] = s /\ \A q \in Start : q # p => pc'[q] = pc[q]
  BY Zenon DEF TypeOK
<1>2. \A q \in Start : pc[q] \in Begun => pc'[q] \in Begun
  BY <1>1, Zenon
<1>3. \A q \in Start : pc'[q] = "idle" => pc[q] = "idle"
  BY <1>1, Zenon
<1>4. \A by \in canceller : sweep[by].collected \subseteq Start
  BY Zenon DEF TypeOK, Sweeps
<1>5. Swept'
  BY <1>2, <1>3, <1>4, Zenon DEF ProcsSafe, Swept
<1>6. \A q \in Start : pc'[q] \in {"exec", "run"} => pc[q] \in {"exec", "run"}
  BY <1>1, Zenon
<1>7. RunningCancellable'
  BY <1>6, Zenon DEF ProcsSafe, RunningCancellable
<1>8. ListsRunning'
  BY <1>1, Zenon DEF ProcsSafe, ListsRunning, TypeOK
<1> QED BY <1>5, <1>7, <1>8, Zenon DEF ProcsSafe

(* Every step keeps the registered, collected and cancelled processes       *)
(* apart and accounted for.                                                 *)
LEMMA ProcsAccounted ==
    ProcsInv /\ [Next]_vars => ProcsSafe'
<1> SUFFICES ASSUME TypeOK, TypeOK', ProcsSafe, [Next]_vars
    PROVE ProcsSafe'
  BY ProcsTyped, Zenon DEF ProcsInv
<1>1. ASSUME NEW p \in Start, StartProcess(p) PROVE ProcsSafe'
  <2>1. CASE needsContainer(p)
    <3>1. sweep[p].collected = {} /\ pc[p] = "idle"
      BY <1>1, Zenon DEF StartProcess, ProcsSafe, Swept, TypeOK, Sweeps, canceller
    <3>2. /\ sweep' = [sweep EXCEPT ![p] = Sweep("due", {})]
          /\ pc' = [pc EXCEPT ![p] = "create"]
          /\ UNCHANGED <<processes, cancelled>>
      BY <1>1, <2>1, Zenon DEF StartProcess
    <3>3. \A by \in canceller : sweep'[by].collected = sweep[by].collected
      BY <3>1, <3>2, Zenon DEF TypeOK, Sweep
    <3>4. \A by \in canceller : sweep'[by].state # "cancel" => sweep'[by].collected = {}
      BY <3>2, Zenon DEF TypeOK, Sweep, ProcsSafe, Swept
    <3>5. \A q \in Start : q # p => sweep'[q] = sweep[q] /\ pc'[q] = pc[q]
      BY <3>2, Zenon DEF TypeOK, canceller
    <3>6. QED
      <4>1. pc'[p] = "create" /\ \A q \in Start : pc[q] \in Begun <=> pc'[q] \in Begun
        BY <3>1, <3>2, <3>5, Zenon DEF TypeOK, Begun
      <4>2. \A by \in canceller : sweep[by].collected \subseteq Start
        BY Zenon DEF TypeOK, Sweeps
      <4>3. \A q \in Start : pc'[q] = "idle" => q # p /\ sweep'[q].state = "no"
        BY <3>5, <4>1, Zenon DEF ProcsSafe, Swept
      <4>4. /\ \A q \in Start : q \in cancelled' => pc'[q] \in Begun
            /\ \A by \in canceller : \A q \in sweep'[by].collected :
                  pc'[q] \in Begun /\ q \notin processes'
        BY <3>2, <3>3, <4>1, <4>2, Zenon DEF ProcsSafe, Swept
      <4>5. Swept'
        BY <3>4, <4>3, <4>4, Zenon DEF Swept
      <4>6. RunningCancellable'
        BY <3>2, <3>3, <3>5, <4>1, Zenon DEF ProcsSafe, RunningCancellable, canceller
      <4>7. ListsRunning'
        BY <3>1, <3>2, <3>5, <4>1, Zenon DEF ProcsSafe, ListsRunning, TypeOK
      <4>8. QED
        BY <4>5, <4>6, <4>7, Zenon DEF ProcsSafe
  <2>2. CASE ~needsContainer(p)
    <3>1. /\ pc[p] = "idle" /\ pc' = [pc EXCEPT ![p] = "register"]
          /\ UNCHANGED <<processes, cancelled, sweep>>
      BY <1>1, <2>2, Zenon DEF StartProcess
    <3>2. QED
      BY <3>1, GoesOn, Zenon DEF Begun
  <2>3. QED
    BY <2>1, <2>2, Zenon
<1>2. ASSUME NEW p \in Start, NewContainer(p) PROVE ProcsSafe'
  <2>1. PICK end \in {"store", "failed"} : pc' = [pc EXCEPT ![p] = end]
    BY <1>2, Zenon DEF NewContainer
  <2>2. pc[p] = "create" /\ UNCHANGED <<processes, cancelled, sweep>>
    BY <1>2, Zenon DEF NewContainer
  <2>3. QED
    BY <2>1, <2>2, GoesOn, Zenon DEF Begun
<1>3. ASSUME NEW p \in Start, StoreContainer(p) PROVE ProcsSafe'
  <2>1. /\ pc[p] = "store" /\ pc' = [pc EXCEPT ![p] = "register"]
        /\ UNCHANGED <<processes, cancelled, sweep>>
    BY <1>3, Zenon DEF StoreContainer
  <2>2. QED
    BY <2>1, GoesOn, Zenon DEF Begun
<1>4. ASSUME NEW p \in Start, Register(p) PROVE ProcsSafe'
  <2>1. /\ pc[p] = "register" /\ pc' = [pc EXCEPT ![p] = "exec"] /\ sweep' = sweep
        /\ processes' = processes \cup {p} /\ cancelled' = cancelled
    BY <1>4, Zenon DEF Register
  <2>2. pc'[p] = "exec" /\ \A q \in Start : q # p => pc'[q] = pc[q]
    BY <2>1, Zenon DEF TypeOK
  <2>3. pc[p] \notin Begun /\ p \notin cancelled
    BY <2>1, Zenon DEF ProcsSafe, Swept, Begun
  <2>4. \A by \in canceller : sweep[by].collected \subseteq Start /\ p \notin sweep[by].collected
    BY <2>3, Zenon DEF ProcsSafe, Swept, TypeOK, Sweeps
  <2>5. \A q \in Start : pc[q] \in Begun => pc'[q] \in Begun
    BY <2>2, Zenon DEF Begun
  <2>6. Swept'
    BY <2>1, <2>2, <2>4, <2>5, Zenon DEF ProcsSafe, Swept
  <2>7. RunningCancellable' /\ ListsRunning'
    BY <2>1, <2>2, <2>3, Zenon DEF ProcsSafe, RunningCancellable, ListsRunning, TypeOK
  <2>8. QED
    BY <2>6, <2>7, Zenon DEF ProcsSafe
<1>5. ASSUME NEW p \in Start, ExecStarts(p) PROVE ProcsSafe'
  <2>1. /\ pc[p] = "exec" /\ pc' = [pc EXCEPT ![p] = "run"]
        /\ UNCHANGED <<processes, cancelled, sweep>>
    BY <1>5, Zenon DEF ExecStarts
  <2>2. QED
    BY <2>1, GoesOn, Zenon DEF Begun
<1>6. ASSUME NEW p \in Start, ExecFails(p) PROVE ProcsSafe'
  <2>1. /\ pc[p] = "exec" /\ pc' = [pc EXCEPT ![p] = "exited"]
        /\ UNCHANGED <<processes, cancelled, sweep>>
    BY <1>6, Zenon DEF ExecFails
  <2>2. QED
    BY <2>1, GoesOn, Zenon DEF Begun
<1>7. ASSUME NEW p \in Start, ExecEnds(p) PROVE ProcsSafe'
  <2>1. /\ pc[p] = "run" /\ pc' = [pc EXCEPT ![p] = "exited"]
        /\ UNCHANGED <<processes, cancelled, sweep>>
    BY <1>7, Zenon DEF ExecEnds
  <2>2. QED
    BY <2>1, GoesOn, Zenon DEF Begun
<1>8. ASSUME NEW p \in Start, Exited(p) PROVE ProcsSafe'
  <2>1. /\ pc[p] = "exited" /\ pc' = [pc EXCEPT ![p] = "send"] /\ sweep' = sweep
        /\ processes' = processes \ {p} /\ cancelled' = cancelled \cup {p}
    BY <1>8, Zenon DEF Exited
  <2>2. pc'[p] = "send" /\ \A q \in Start : q # p => pc'[q] = pc[q]
    BY <2>1, Zenon DEF TypeOK
  <2>3. Swept'
    BY <2>1, <2>2 DEF ProcsSafe, Swept, Begun, TypeOK, Sweeps, canceller
  <2>4. RunningCancellable' /\ ListsRunning'
    BY <2>1, <2>2, Zenon DEF ProcsSafe, RunningCancellable, ListsRunning, TypeOK, canceller
  <2>5. QED
    BY <2>3, <2>4, Zenon DEF ProcsSafe
<1>9. ASSUME NEW p \in Start, SendError(p) PROVE ProcsSafe'
  <2>1. /\ pc[p] = "send" /\ pc' = [pc EXCEPT ![p] = "done"]
        /\ UNCHANGED <<processes, cancelled, sweep>>
    BY <1>9, Zenon DEF SendError
  <2>2. QED
    BY <2>1, GoesOn, Zenon DEF Begun
<1>10. ASSUME NEW p \in Start, Detach(p) PROVE ProcsSafe'
  <2>1. UNCHANGED <<pc, processes, cancelled, sweep>>
    BY <1>10, Zenon DEF Detach
  <2>2. QED
    BY <2>1, Zenon DEF ProcsSafe, Swept, RunningCancellable, ListsRunning, Begun
<1>11. ASSUME NEW p \in Start, Attach(p) PROVE ProcsSafe'
  <2>1. UNCHANGED <<pc, processes, cancelled, sweep>>
    BY <1>11, Zenon DEF Attach
  <2>2. QED
    BY <2>1, Zenon DEF ProcsSafe, Swept, RunningCancellable, ListsRunning, Begun
<1>12. ASSUME NEW p \in Start, DeleteProcess(p) PROVE ProcsSafe'
  BY <1>12, Zenon DEF DeleteProcess, ProcsSafe, Swept, RunningCancellable,
       ListsRunning, Begun, TypeOK, Sweeps, Sweep, canceller
<1>13. ASSUME NEW p \in Start, CancelContainer(p) PROVE ProcsSafe'
  <2>1. UNCHANGED <<pc, processes, cancelled, sweep>>
    BY <1>13, Zenon DEF CancelContainer
  <2>2. QED
    BY <2>1, Zenon DEF ProcsSafe, Swept, RunningCancellable, ListsRunning, Begun
<1>14. ASSUME NEW p \in Start, DoneCleans(p) PROVE ProcsSafe'
  <2>1. UNCHANGED <<pc, processes, cancelled, sweep>>
    BY <1>14, Zenon DEF DoneCleans
  <2>2. QED
    BY <2>1, Zenon DEF ProcsSafe, Swept, RunningCancellable, ListsRunning, Begun
<1>15. ASSUME NEW by \in canceller, SweepCollects(by) PROVE ProcsSafe'
  BY <1>15, Zenon DEF SweepCollects, ProcsSafe, Swept, RunningCancellable,
       ListsRunning, Begun, TypeOK, Sweeps, Sweep, canceller
<1>16. ASSUME NEW by \in canceller, SweepCancels(by) PROVE ProcsSafe'
  BY <1>16, Zenon DEF SweepCancels, ProcsSafe, Swept, RunningCancellable,
       ListsRunning, Begun, TypeOK, Sweeps, Sweep, canceller
<1>17. ASSUME NEW o \in Owner, CancelRunningProcesses(o) PROVE ProcsSafe'
  <2>1. /\ sweep[o].state = "no" /\ sweep' = [sweep EXCEPT ![o] = Sweep("due", {})]
        /\ UNCHANGED <<processes, pc, cancelled>>
    BY <1>17, Zenon DEF CancelRunningProcesses
  <2>2. sweep[o].collected = {}
    BY <2>1, Zenon DEF ProcsSafe, Swept, canceller
  <2>3. \A by \in canceller :
           /\ sweep'[by].collected = sweep[by].collected
           /\ sweep'[by].state # "cancel" => sweep'[by].collected = {}
    BY <2>1, <2>2, Zenon DEF TypeOK, Sweep, ProcsSafe, Swept
  <2>4. \A p \in Start : sweep'[p] = sweep[p]
    BY <2>1, ProcessesAssumption DEF TypeOK, canceller
  <2>5. QED
    BY <2>1, <2>3, <2>4 DEF ProcsSafe, Swept, RunningCancellable, ListsRunning, Begun,
       canceller
<1>18. ASSUME DoneTakes PROVE ProcsSafe'
  <2>1. UNCHANGED <<pc, processes, cancelled, sweep>>
    BY <1>18, Zenon DEF DoneTakes
  <2>2. QED
    BY <2>1, Zenon DEF ProcsSafe, Swept, RunningCancellable, ListsRunning, Begun
<1>19. ASSUME DoneCloses PROVE ProcsSafe'
  <2>1. UNCHANGED <<pc, processes, cancelled, sweep>>
    BY <1>19, Zenon DEF DoneCloses
  <2>2. QED
    BY <2>1, Zenon DEF ProcsSafe, Swept, RunningCancellable, ListsRunning, Begun
<1>20. ASSUME UNCHANGED vars PROVE ProcsSafe'
  <2>1. UNCHANGED <<pc, processes, cancelled, sweep>>
    BY <1>20, Zenon DEF vars
  <2>2. QED
    BY <2>1, Zenon DEF ProcsSafe, Swept, RunningCancellable, ListsRunning, Begun
<1>21. QED
  BY <1>1, <1>2, <1>3, <1>4, <1>5, <1>6, <1>7, <1>8, <1>9, <1>10,
     <1>11, <1>12, <1>13, <1>14, <1>15, <1>16, <1>17, <1>18, <1>19, <1>20, Zenon DEF Next, ProcessStep

LEMMA ProcsInductive == Spec => []ProcsInv
<1>1. ProcsInv /\ [Next]_vars => ProcsInv'
  BY ProcsTyped, ProcsAccounted, Zenon DEF ProcsInv
<1>2. QED
  BY ProcsInitially, <1>1, PTL DEF Spec

(* The manager, its containers and its sweeps stay well-typed, and a        *)
(* registered process always has a container.                               *)
THEOREM ProcsTypeCorrect == Spec => []TypeOK
<1>1. ProcsInv => TypeOK
  BY Zenon DEF ProcsInv
<1>2. QED
  BY ProcsInductive, <1>1, PTL

(* However StartProcess, exits, DeleteProcess and CancelRunningProcesses    *)
(* interleave, no running process escapes cancellation.                     *)
THEOREM NoneEscapes == Spec => []RunningCancellable
<1>1. ProcsInv => RunningCancellable
  BY Zenon DEF ProcsInv, ProcsSafe
<1>2. QED
  BY ProcsInductive, <1>1, PTL

(* ListProcesses never lists a process that was cancelled or whose          *)
(* goroutine has finished.                                                  *)
THEOREM ListedRun == Spec => []ListsRunning
<1>1. ProcsInv => ListsRunning
  BY Zenon DEF ProcsInv, ProcsSafe
<1>2. QED
  BY ProcsInductive, <1>1, PTL
=============================================================================
