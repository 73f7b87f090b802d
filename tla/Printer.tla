------------------------------- MODULE Printer -------------------------------
(***************************************************************************)
(* The progress printer (util/progress/printer.go), the channels that feed *)
(* it (NewChannel in util/progress/writer.go) and the log output that is   *)
(* held back while it draws (util/logutil/pause.go).                       *)
(*                                                                         *)
(* The goroutine of NewPrinter runs one display after another.  Its users  *)
(* are the build command (commands/build.go), which builds, prints an      *)
(* error, runs the monitor and waits, and the reloads of the monitor       *)
(* (monitor/commands/reload.go): a terminal of the monitor that is left    *)
(* goes on with its reload beside those of later terminals and beside the  *)
(* end of the monitor.  The fields status, done, closeOnce, ready and      *)
(* paused are shared without a lock.                                       *)
(*                                                                         *)
(* The context of the display is cancelled when the command returns, and   *)
(* then the process ends: until then UpdateFrom has no error to report.    *)
(***************************************************************************)
EXTENDS Naturals, Sequences

CONSTANTS
    Sources,    \* channels made by NewChannel, all with logs of one vertex
    Terminals,  \* terminals of the monitor in which a reload may run
    MaxReloads, \* bound on the reloads
    MaxLogs     \* bound on the lines logged

VARIABLES
    printer,    \* where the goroutine of NewPrinter is
    status,     \* the channel pw.status is "open" or "closed"
    done,       \* which channel pw.done is
    finished,   \* the last of these channels that has been closed
    once,       \* closeOnce: "fresh", "used" or the user whose call runs
    ready,      \* which channel pw.ready is
    announced,  \* the last of these channels that has been closed
    paused,     \* which channel pw.paused is, 0 for nil
    pauses,     \* channels made by Pause
    released,   \* those that Unpause has closed
    parked,     \* the one the goroutine waits for
    user,       \* where each user is
    awaited,    \* the done or ready channel that its call waits for
    phase,      \* of the command: "build", "error", "monitor" or "end"
    reloads,    \* reloads so far
    early,      \* Unpause has found the ready channel of the display before
    overlapped, \* a reload was running when another began or the monitor ended
    crashed,    \* a panic has ended the process
    claim,      \* logSourceMap at the vertex: a source or Nobody
    source,     \* the goroutine of each channel: "none", "idle", "logs", "bare", "closing" or "ended"
    owner,      \* the user whose build made it
    shown,      \* sources whose logs the display has shown
    buffers,    \* the chain of bufferedWriters: <<active, lines>>
    stderr,     \* lines that have reached the terminal
    logged      \* lines logged

Nobody == "nobody"
Main == "command"
Users == {Main} \cup Terminals

ASSUME NamesAssumption ==
    /\ Nobody \notin Sources
    /\ Main \notin Terminals /\ "fresh" \notin Terminals /\ "used" \notin Terminals

loopVars == <<printer, status, done, finished, once, ready, announced, parked>>
userVars == <<pauses, released, user, awaited, phase, reloads, early, overlapped>>
sourceVars == <<claim, source, owner, shown>>
logVars == <<buffers, stderr, logged>>
vars == <<loopVars, paused, userVars, crashed, sourceVars, logVars>>

\* The printer as NewPrinter returns it.
Init ==
    /\ printer = "display" /\ status = "open" /\ done = 1 /\ finished = 0 /\ once = "fresh"
    /\ ready = 1 /\ announced = 1 /\ parked = 0
    /\ paused = 0 /\ pauses = 0 /\ released = {} /\ awaited = [u \in Users |-> 0]
    /\ user = [u \in Users |-> IF u = Main THEN "building" ELSE "idle"] /\ phase = "build"
    /\ reloads = 0 /\ early = FALSE /\ overlapped = FALSE /\ crashed = FALSE
    /\ claim = Nobody /\ source = [s \in Sources |-> "none"] /\ owner = [s \in Sources |-> Nobody] /\ shown = {}
    /\ buffers = <<<<TRUE, <<>>>>>> /\ stderr = <<>> /\ logged = 0

-----------------------------------------------------------------------------
\* Log output.  A line goes down the chain of writers to the first that still
\* holds lines back.
Active(chain) == {i \in DOMAIN chain : chain[i][1]}

Deliver(chain, lines) ==
    \/ Active(chain) = {} /\ stderr' = stderr \o lines /\ buffers' = chain
    \/ \E i \in Active(chain) :
          /\ \A j \in Active(chain) : j <= i
          /\ buffers' = [chain EXCEPT ![i] = <<TRUE, @[2] \o lines>>] /\ UNCHANGED stderr

Log ==
    /\ logged < MaxLogs /\ logged' = logged + 1
    /\ Deliver(buffers, <<logged + 1>>)
    /\ UNCHANGED <<loopVars, paused, userVars, crashed, sourceVars>>

-----------------------------------------------------------------------------
\* The goroutine of NewPrinter: each store to a field that the users read is a
\* step of its own.
Goto(here, there) == printer = here /\ printer' = there
loopOthers == <<userVars, crashed, source, owner>>

RenewStatus ==
    /\ Goto("renew", "renewDone") /\ status' = "open"
    /\ UNCHANGED <<done, finished, once, ready, announced, parked, paused, loopOthers, claim, shown, logVars>>

RenewDone ==
    /\ Goto("renewDone", "renewOnce") /\ done' = done + 1
    /\ UNCHANGED <<status, finished, once, ready, announced, parked, paused, loopOthers, claim, shown, logVars>>

RenewOnce ==
    /\ Goto("renewOnce", "renewMap") /\ once' = "fresh"
    /\ UNCHANGED <<status, done, finished, ready, announced, parked, paused, loopOthers, claim, shown, logVars>>

RenewMap ==
    /\ Goto("renewMap", "pauseLogs") /\ claim' = Nobody
    /\ UNCHANGED <<status, done, finished, once, ready, announced, parked, paused, loopOthers, shown, logVars>>

PauseLogs ==
    /\ Goto("pauseLogs", "ready") /\ buffers' = Append(buffers, <<TRUE, <<>>>>)
    /\ UNCHANGED <<status, done, finished, once, ready, announced, parked, paused, loopOthers, claim, shown, stderr, logged>>

CloseReady ==
    /\ Goto("ready", "display") /\ announced' = ready
    /\ UNCHANGED <<status, done, finished, once, ready, parked, paused, loopOthers, claim, shown, logVars>>

closesFirst == \* mutant: done is closed before the logs are resumed
    /\ Goto("display", "resumeLogs") /\ status = "closed" /\ finished' = done
    /\ UNCHANGED <<status, done, once, ready, announced, parked, paused, loopOthers, claim, shown, logVars>>

\* The display has drawn everything once its channel is closed.
DisplayEnds ==
    /\ Goto("display", "resumeLogs") /\ status = "closed"
    /\ UNCHANGED <<status, done, finished, once, ready, announced, parked, paused, loopOthers, claim, shown, logVars>>

ResumeLogs ==
    /\ Goto("resumeLogs", "done")
    /\ Deliver([buffers EXCEPT ![Len(buffers)] = <<FALSE, <<>>>>], buffers[Len(buffers)][2])
    /\ UNCHANGED <<status, done, finished, once, ready, announced, parked, paused, loopOthers, claim, shown, logged>>

leavesOpen == \* mutant: done is not closed
    /\ Goto("done", "test")
    /\ UNCHANGED <<status, done, finished, once, ready, announced, parked, paused, loopOthers, claim, shown, logVars>>

CloseDone ==
    /\ Goto("done", "test") /\ finished' = done
    /\ UNCHANGED <<status, done, once, ready, announced, parked, paused, loopOthers, claim, shown, logVars>>

TestPaused ==
    /\ Goto("test", IF paused = 0 THEN "ended" ELSE "again")
    /\ UNCHANGED <<status, done, finished, once, ready, announced, parked, paused, loopOthers, claim, shown, logVars>>

MakeReady ==
    /\ Goto("again", "park") /\ ready' = ready + 1
    /\ UNCHANGED <<status, done, finished, once, announced, parked, paused, loopOthers, claim, shown, logVars>>

Park ==
    /\ Goto("park", "parked") /\ parked' = paused
    /\ UNCHANGED <<status, done, finished, once, ready, announced, paused, loopOthers, claim, shown, logVars>>

Unpark ==
    /\ Goto("parked", "clear") /\ parked \in released
    /\ UNCHANGED <<status, done, finished, once, ready, announced, parked, paused, loopOthers, claim, shown, logVars>>

ClearPaused ==
    /\ Goto("clear", "renew") /\ paused' = 0 /\ shown' = {}
    /\ UNCHANGED <<status, done, finished, once, ready, announced, parked, loopOthers, claim, logVars>>

LoopSteps ==
    /\ ~crashed
    /\ \/ RenewStatus \/ RenewDone \/ RenewOnce \/ RenewMap \/ PauseLogs \/ CloseReady \/ DisplayEnds
       \/ ResumeLogs \/ CloseDone \/ TestPaused \/ MakeReady \/ Park \/ Unpark \/ ClearPaused

-----------------------------------------------------------------------------
\* The users.  The channels of a build are closed before its user goes on.
Quiet(u) == \A s \in Sources : owner[s] = u => source[s] \in {"closing", "ended"}
By(u, here, there) == user[u] = here /\ user' = [user EXCEPT ![u] = there]
Busy(u) == \E t \in Terminals \ {u} : user[t] # "idle"
printerOthers == <<printer, done, finished, ready, announced, parked, sourceVars, logVars>>

\* The command pauses to print an error and then to run the monitor, a reload
\* when its build has ended.
Pause(u) ==
    /\ By(u, "building", "waiting") /\ Quiet(u)
    /\ \/ u = Main /\ phase = "build" /\ phase' \in {"error", "monitor"}
       \/ u = Main /\ phase = "error" /\ phase' = "monitor"
       \/ u # Main /\ UNCHANGED phase
    /\ pauses' = pauses + 1 /\ paused' = pauses + 1
    /\ UNCHANGED <<printerOthers, status, once, released, awaited, reloads, early, overlapped, crashed>>

Wait ==
    /\ By(Main, "building", "waiting") /\ Quiet(Main)
    /\ phase' = "end"
    /\ UNCHANGED <<printerOthers, status, once, paused, pauses, released, awaited, reloads, early, overlapped, crashed>>

AfterWait(u) == IF u # Main THEN "idle" ELSE IF phase = "end" THEN "waited" ELSE "paused"

\* closeOnce: a call closes the channel and waits, the others wait for it to return.
WaitOnce(u) ==
    /\ \/ once = "used" /\ By(u, "waiting", AfterWait(u)) /\ UNCHANGED <<once, status, crashed>>
       \/ once = "fresh" /\ By(u, "waiting", "takeDone") /\ once' = u
          /\ status' = "closed" /\ crashed' = (status = "closed")
    /\ UNCHANGED <<printerOthers, paused, pauses, released, awaited, phase, reloads, early, overlapped>>

TakeDone(u) ==
    /\ By(u, "takeDone", "awaitDone") /\ awaited' = [awaited EXCEPT ![u] = done]
    /\ UNCHANGED <<printerOthers, status, once, paused, pauses, released, phase, reloads, early, overlapped, crashed>>

\* The end of the call unlocks closeOnce.  If it has been replaced and is not
\* locked, that is fatal.
WaitReturns(u) ==
    /\ By(u, "awaitDone", AfterWait(u)) /\ awaited[u] <= finished
    /\ once' = "used" /\ crashed' = (once \notin Users)
    /\ UNCHANGED <<printerOthers, status, paused, pauses, released, awaited, phase, reloads, early, overlapped>>

\* A reload begins in the terminal that the monitor serves.
Reload(t) ==
    /\ By(t, "idle", "issued") /\ user[Main] = "paused" /\ phase = "monitor"
    /\ reloads < MaxReloads /\ reloads' = reloads + 1
    /\ overlapped' = (overlapped \/ Busy(t))
    /\ UNCHANGED <<printerOthers, status, once, paused, pauses, released, awaited, phase, early, crashed>>

\* The command goes on when the error is printed or the monitor has ended, a
\* reload to build.  Closing a nil or a closed channel panics.
Unpause(u) ==
    /\ By(u, IF u = Main THEN "paused" ELSE "issued", "takeReady")
    /\ released' = released \cup {paused} /\ crashed' = (paused = 0 \/ paused \in released)
    /\ overlapped' = (overlapped \/ (u = Main /\ Busy(u)))
    /\ UNCHANGED <<printerOthers, status, once, paused, pauses, awaited, phase, reloads, early>>

TakeReady(u) ==
    /\ By(u, "takeReady", "awaitReady") /\ awaited' = [awaited EXCEPT ![u] = ready]
    /\ early' = (early \/ printer \in {"test", "again"})
    /\ UNCHANGED <<printerOthers, status, once, paused, pauses, released, phase, reloads, overlapped, crashed>>

ReadyReceived(u) ==
    /\ By(u, "awaitReady", "building") /\ awaited[u] <= announced
    /\ UNCHANGED <<printerOthers, status, once, paused, pauses, released, awaited, phase, reloads, early, overlapped, crashed>>

UserSteps(u) ==
    /\ ~crashed
    /\ WaitOnce(u) \/ TakeDone(u) \/ WaitReturns(u) \/ TakeReady(u) \/ ReadyReceived(u)

-----------------------------------------------------------------------------
\* The channels of builds.  The command builds before it prints errors.
Becomes(s, where) == source' = [source EXCEPT ![s] = where]
sourceOthers == <<loopVars, paused, userVars, logVars>>

NewChannel(s, u) ==
    /\ user[u] = "building" /\ (u = Main => phase = "build")
    /\ source[s] = "none" /\ Becomes(s, "idle") /\ owner' = [owner EXCEPT ![s] = u]
    /\ UNCHANGED <<sourceOthers, crashed, claim, shown>>

claimsAlways(s) == \* mutant: a claim does not exclude others
    /\ source[s] = "idle" /\ Becomes(s, "logs")
    /\ claim' = s
    /\ UNCHANGED <<sourceOthers, crashed, owner, shown>>

\* Logs of a vertex that another source has claimed are left out of the status
\* before it is written.
ValidateLogSource(s) ==
    /\ source[s] = "idle" /\ Becomes(s, IF claim \in {Nobody, s} THEN "logs" ELSE "bare")
    /\ claim' = IF claim = Nobody THEN s ELSE claim
    /\ UNCHANGED <<sourceOthers, crashed, owner, shown>>

NoLogs(s) ==
    /\ source[s] = "idle" /\ Becomes(s, "bare")
    /\ UNCHANGED <<sourceOthers, crashed, claim, owner, shown>>

\* The display receives the status, or the channel is closed already.
Write(s) ==
    /\ source[s] \in {"logs", "bare"}
    /\ \/ /\ status = "open" /\ printer = "display" /\ Becomes(s, "idle")
          /\ shown' = IF source[s] = "logs" THEN shown \cup {s} ELSE shown
          /\ UNCHANGED crashed
       \/ status = "closed" /\ crashed' = TRUE /\ UNCHANGED <<source, shown>>
    /\ UNCHANGED <<sourceOthers, claim, owner>>

CloseChannel(s) ==
    /\ source[s] = "idle" /\ Becomes(s, "closing")
    /\ UNCHANGED <<sourceOthers, crashed, claim, owner, shown>>

ClearLogSource(s) ==
    /\ source[s] = "closing" /\ Becomes(s, "ended")
    /\ claim' = IF claim = s THEN Nobody ELSE claim
    /\ UNCHANGED <<sourceOthers, crashed, owner, shown>>

SourceSteps(s) == ~crashed /\ (Write(s) \/ ClearLogSource(s))

Next ==
    /\ ~crashed
    /\ \/ LoopSteps \/ Log \/ Wait
       \/ \E u \in Users : Pause(u) \/ Unpause(u) \/ UserSteps(u)
       \/ \E t \in Terminals : Reload(t)
       \/ \E s \in Sources : \/ ValidateLogSource(s) \/ NoLogs(s) \/ CloseChannel(s) \/ SourceSteps(s)
                             \/ \E u \in Users : NewChannel(s, u)

Spec == Init /\ [][Next]_vars

\* The goroutine runs and calls that were begun go on; nothing makes a user call.
Fairness == WF_vars(LoopSteps) /\ WF_vars(\E u \in Users : UserSteps(u))

FairSpec == Spec /\ Fairness

-----------------------------------------------------------------------------
\* Unpause has not come before the goroutine has made the next ready channel,
\* and no reload has run beside another or beside the end of the monitor.
Orderly == ~early /\ ~overlapped

\* The printer is paused: the command prints or serves the monitor, or has
\* waited, and no reload is past its Unpause.
AtRest ==
    /\ user[Main] \in {"paused", "waited"}
    /\ \A t \in Terminals : user[t] \in {"idle", "issued"}

\* No line that is logged is lost, printed twice or out of order, whatever the
\* displays before and after it and however calls of Pause, Unpause and Wait
\* overlap: the lines on the terminal and, after them, those that the last writer
\* holds back are the lines logged, and no other writer holds any.  Nothing is
\* logged to the terminal while the display draws.  In an orderly use no line is
\* held back between Pause and Unpause or after Wait.
LogsKept ==
    /\ [](stderr \o buffers[Len(buffers)][2] = [n \in 1..logged |-> n])
    /\ [](\A i \in DOMAIN buffers : i # Len(buffers) => buffers[i][2] = <<>>)
    /\ [](Orderly /\ AtRest => Active(buffers) = {})
    /\ [][printer = "display" => stderr' = stderr]_vars

\* In an orderly use one display shows the logs of a vertex from one source, until
\* that source ends: what ValidateLogSource decided still holds when the status
\* reaches the display.
OneSource == Orderly => \A s, t \in shown : s = t \/ source[s] = "ended" \/ source[t] = "ended"

\* In an orderly use nothing panics: nobody writes to a closed channel, closes a
\* nil or a closed one, or unlocks a closeOnce that was replaced.
NoPanics == Orderly => ~crashed

\* The users that are in a call of Pause, Unpause or Wait.
Calling == {u \in Users : user[u] \in {"waiting", "takeDone", "awaitDone", "takeReady", "awaitReady"}}

\* In an orderly use every call of Pause, Unpause and Wait returns, those of
\* reloads too, and the printer ends after Wait.
PrinterLive ==
    /\ []NoPanics
    /\ (Calling # {}) ~> (Calling = {} \/ ~Orderly)
    /\ (phase = "end") ~> ((user[Main] = "waited" /\ printer = "ended") \/ ~Orderly)
=============================================================================
