----------------------------- MODULE ResultHandle -----------------------------
(***************************************************************************)
(* NewResultHandle (build/result.go) and the handle it returns: the caller *)
(* of the function, the goroutine that watches the caller's context, the   *)
(* one that forwards status messages and the one that runs the build and   *)
(* then keeps the gateway session open until Done.                         *)
(*                                                                         *)
(* A goroutine that is parked in a select is woken by the first of its     *)
(* events; which one that was is decided by the event (see Announce and    *)
(* CancelBase), not when the goroutine runs next.  The watcher is parked   *)
(* before the first request to the daemon is answered.                     *)
(***************************************************************************)
EXTENDS Naturals, FiniteSets

CONSTANTS
    Callers,      \* goroutines that call Done on the handle
    Cleanups,     \* functions given to registerCleanup
    MaxStatus     \* bound on the status messages of the build

VARIABLES
    baseDone,     \* the caller's context has ended
    ctxDone,      \* the context of the build, and of its sessions, has ended
    done,         \* the channel done is closed
    first,        \* which of the two came first: "none", "base" or "done"
    watcher,      \* the watcher: "waiting", "cancels" or "ended"
    main,         \* NewResultHandle: "waiting", "base", "done", "reading" or "returned"
    build,        \* where the build goroutine is
    respHandle,   \* "none", "failed" (of a solve error) or "ok"
    respErr,      \* "nil", "err" or "base"
    ret,          \* what NewResultHandle returned: <<handle, error>>
    ch, baseCh,   \* the two status channels, "open" or "closed"
    forwarder,    \* "idle", "got", "send", "ended" or "panic"
    statuses,     \* status messages sent so far
    handleDone,   \* the channel of the handle is closed
    once,         \* doneOnce: "free", "finished" or the caller inside
    caller,       \* each caller of Done: "idle", "called", "closing", "waits" or "returned"
    registered,   \* cleanups in the handle
    promised,     \* cleanups that were in the handle when Done began
    ran           \* cleanups that have run

vars == <<baseDone, ctxDone, done, first, watcher, main, build, respHandle, respErr, ret, ch, baseCh,
          forwarder, statuses, handleDone, once, caller, registered, promised, ran>>

contextVars == <<baseDone, ctxDone, done, first, watcher>>
buildVars == <<build, respHandle, respErr>>
statusVars == <<ch, baseCh, forwarder, statuses>>
doneVars == <<handleDone, once, caller, registered, promised, ran>>

Init ==
    /\ baseDone = FALSE /\ ctxDone = FALSE /\ done = FALSE /\ first = "none"
    /\ watcher = "waiting" /\ main = "waiting" /\ build = "solving"
    /\ respHandle = "none" /\ respErr = "nil" /\ ret = <<"none", "nil">>
    /\ ch = "open" /\ baseCh = "open" /\ forwarder = "idle" /\ statuses = 0
    /\ handleDone = FALSE /\ once = "free" /\ caller = [c \in Callers |-> "idle"]
    /\ registered = {} /\ promised = {} /\ ran = {}

-----------------------------------------------------------------------------
\* The two contexts and the channel done.
wakeWatcher(event) == IF watcher = "waiting" THEN event ELSE watcher
wakeMain(event) == IF main = "waiting" THEN event ELSE main
firstEvent(event) == IF first = "none" THEN event ELSE first

neverWakes == \* mutant: the watcher does not listen to done
    /\ done' = TRUE
    /\ first' = firstEvent("done")
    /\ watcher' = watcher
    /\ main' = wakeMain("done")

\* close(done)
Announce ==
    /\ done' = TRUE
    /\ first' = firstEvent("done")
    /\ watcher' = wakeWatcher("ended")
    /\ main' = wakeMain("done")

\* The caller's context is cancelled.
CancelBase ==
    /\ ~baseDone
    /\ baseDone' = TRUE
    /\ first' = firstEvent("base")
    /\ watcher' = wakeWatcher("cancels")
    /\ main' = wakeMain("base")
    /\ UNCHANGED <<ctxDone, done, buildVars, ret, statusVars, doneVars>>

\* The watcher cancels the build, in the branch it was woken in.
WatcherCancels ==
    /\ watcher = "cancels"
    /\ watcher' = "ended" /\ ctxDone' = TRUE
    /\ UNCHANGED <<baseDone, done, first, main, buildVars, ret, statusVars, doneVars>>

-----------------------------------------------------------------------------
\* The goroutine that builds.  Each assignment to a variable it shares with
\* NewResultHandle is a step: after a cancellation nothing orders them.
Goto(pc) == build' = pc

contextSame == UNCHANGED <<baseDone, ctxDone, done, first, watcher, main>>

\* The build fails with a solve error: scenario 1.
SolveFails ==
    /\ build = "solving"
    /\ respHandle' = "failed" /\ Goto("record")
    /\ UNCHANGED respErr /\ contextSame /\ UNCHANGED <<ret, statusVars, doneVars>>

RecordError ==
    /\ build \in {"record", "fails"}
    /\ respErr' = "err"
    /\ Goto(IF build = "record" THEN "announce" ELSE "announceError")
    /\ UNCHANGED respHandle /\ contextSame /\ UNCHANGED <<ret, statusVars, doneVars>>

\* The build, or the conversion of its result, fails otherwise; the client
\* closes the status channel when Build returns.
BuildFails ==
    /\ build = "solving"
    /\ Goto("fails") /\ ch' = "closed"
    /\ UNCHANGED <<respHandle, respErr, baseCh, forwarder, statuses>>
    /\ contextSame /\ UNCHANGED <<ret, doneVars>>

\* The build succeeds: scenario 2, a second session.
BuildSucceeds ==
    /\ build = "solving"
    /\ Goto("second") /\ ch' = "closed"
    /\ UNCHANGED <<respHandle, respErr, baseCh, forwarder, statuses>>
    /\ contextSame /\ UNCHANGED <<ret, doneVars>>

SecondFails ==
    /\ build = "second"
    /\ Goto("fails")
    /\ UNCHANGED <<respHandle, respErr>> /\ contextSame /\ UNCHANGED <<ret, statusVars, doneVars>>

SecondOpens ==
    /\ build = "second"
    /\ respHandle' = "ok" /\ Goto("announce")
    /\ UNCHANGED respErr /\ contextSame /\ UNCHANGED <<ret, statusVars, doneVars>>

CloseDone ==
    /\ build \in {"announce", "announceError"}
    /\ Announce
    /\ Goto(IF build = "announce" THEN "open" ELSE "returns")
    /\ UNCHANGED <<baseDone, ctxDone, respHandle, respErr, ret, statusVars, doneVars>>

\* Done, or the end of the context, ends the session: Build returns and, in
\* scenario 2, its error is assigned.
SessionEnds ==
    /\ build = "open" /\ (handleDone \/ ctxDone)
    /\ Goto("returns") /\ ch' = "closed"
    /\ respErr' = IF respHandle = "failed" THEN respErr ELSE IF ctxDone THEN "base" ELSE "nil"
    /\ UNCHANGED <<respHandle, baseCh, forwarder, statuses>> /\ contextSame /\ UNCHANGED <<ret, doneVars>>

returnsOpen == \* mutant: no deferred cancel
    /\ build = "returns"
    /\ Goto("ended")
    /\ UNCHANGED <<baseDone, ctxDone, done, first, watcher, main, respHandle, respErr, ret, statusVars, doneVars>>

\* The deferred cancel.
BuildReturns ==
    /\ build = "returns"
    /\ Goto("ended") /\ ctxDone' = TRUE
    /\ UNCHANGED <<baseDone, done, first, watcher, main, respHandle, respErr, ret, statusVars, doneVars>>

-----------------------------------------------------------------------------
\* NewResultHandle returns.  After a cancellation it first looks at the error.
ReadError ==
    /\ main = "base"
    /\ main' = "reading" /\ respErr' = IF respErr = "nil" THEN "base" ELSE respErr
    /\ UNCHANGED <<contextVars, build, respHandle, ret, statusVars, doneVars>>

Return ==
    /\ main \in {"done", "reading"}
    /\ main' = "returned" /\ ret' = <<respHandle, respErr>> /\ baseCh' = "closed"
    /\ UNCHANGED <<contextVars, buildVars, ch, forwarder, statuses, doneVars>>

\* The forwarder of status messages: it receives one, looks whether the base
\* channel is closed, and sends.  The other end of the base channel receives
\* whatever is sent.
ReceiveStatus ==
    /\ forwarder = "idle" /\ ch = "open" /\ build \in {"solving", "open"} /\ statuses < MaxStatus
    /\ forwarder' = "got" /\ statuses' = statuses + 1
    /\ UNCHANGED <<contextVars, main, buildVars, ret, ch, baseCh, doneVars>>

TestBase ==
    /\ forwarder = "got"
    /\ forwarder' = IF baseCh = "closed" THEN "idle" ELSE "send"
    /\ UNCHANGED <<contextVars, main, buildVars, ret, ch, baseCh, statuses, doneVars>>

SendStatus ==
    /\ forwarder = "send"
    /\ forwarder' = IF baseCh = "closed" THEN "panic" ELSE "idle"
    /\ UNCHANGED <<contextVars, main, buildVars, ret, ch, baseCh, statuses, doneVars>>

ForwarderEnds ==
    /\ forwarder = "idle" /\ ch = "closed"
    /\ forwarder' = "ended"
    /\ UNCHANGED <<contextVars, main, buildVars, ret, ch, baseCh, statuses, doneVars>>

-----------------------------------------------------------------------------
\* Done: the first caller takes the cleanups out and runs them, closes the
\* handle's channel and waits for the session; the others wait for the first.
outside == <<contextVars, main, buildVars, ret, statusVars>>

RegisterCleanup(f) ==
    /\ ret[1] # "none" /\ f \notin registered \cup promised \cup ran
    /\ registered' = registered \cup {f}
    /\ UNCHANGED <<outside, handleDone, once, caller, promised, ran>>

Done(c) ==
    /\ ret[1] # "none" /\ caller[c] = "idle"
    /\ caller' = [caller EXCEPT ![c] = "called"]
    /\ UNCHANGED <<outside, handleDone, once, registered, promised, ran>>

EnterOnce(c) ==
    /\ caller[c] = "called" /\ once = "free"
    /\ once' = c /\ caller' = [caller EXCEPT ![c] = "closing"]
    /\ promised' = registered /\ registered' = {}
    /\ UNCHANGED <<outside, handleDone, ran>>

RunCleanup(c, f) ==
    /\ caller[c] = "closing" /\ f \in promised \ ran
    /\ ran' = ran \cup {f}
    /\ UNCHANGED <<outside, handleDone, once, caller, registered, promised>>

CloseHandle(c) ==
    /\ caller[c] = "closing" /\ promised \subseteq ran
    /\ handleDone' = TRUE /\ caller' = [caller EXCEPT ![c] = "waits"]
    /\ UNCHANGED <<outside, once, registered, promised, ran>>

LeaveOnce(c) ==
    /\ caller[c] = "waits" /\ ctxDone
    /\ once' = "finished" /\ caller' = [caller EXCEPT ![c] = "returned"]
    /\ UNCHANGED <<outside, handleDone, registered, promised, ran>>

SkipOnce(c) ==
    /\ caller[c] = "called" /\ once = "finished"
    /\ caller' = [caller EXCEPT ![c] = "returned"]
    /\ UNCHANGED <<outside, handleDone, once, registered, promised, ran>>

-----------------------------------------------------------------------------
BuildSteps == SolveFails \/ RecordError \/ BuildFails \/ BuildSucceeds \/ SecondFails \/ SecondOpens
              \/ CloseDone \/ SessionEnds \/ BuildReturns
MainSteps == ReadError \/ Return
ForwarderSteps == TestBase \/ SendStatus \/ ForwarderEnds
DoneSteps(c) == EnterOnce(c) \/ CloseHandle(c) \/ LeaveOnce(c) \/ SkipOnce(c) \/ \E f \in Cleanups : RunCleanup(c, f)

Next ==
    \/ CancelBase \/ WatcherCancels \/ BuildSteps \/ MainSteps \/ ReceiveStatus \/ ForwarderSteps
    \/ \E f \in Cleanups : RegisterCleanup(f)
    \/ \E c \in Callers : Done(c) \/ DoneSteps(c)

Spec == Init /\ [][Next]_vars

\* Goroutines run, a build ends and a call of Done proceeds; nothing makes the
\* caller cancel, call Done or register a cleanup.
Fairness ==
    /\ WF_vars(WatcherCancels) /\ WF_vars(BuildSteps) /\ WF_vars(MainSteps) /\ WF_vars(ForwarderSteps)
    /\ \A c \in Callers : WF_vars(DoneSteps(c))

FairSpec == Spec /\ Fairness

-----------------------------------------------------------------------------
\* A session whose handle was recorded before the caller's context ended stays
\* open until Done: "once done is closed ... we shouldn't allow cancelling the
\* underlying build request anymore".  When Done returns, to its first caller or
\* another, the session is over and every cleanup that was registered before the
\* call has run.
OpenUntilDone ==
    /\ respHandle # "none" /\ first = "done" /\ ~handleDone => ~ctxDone
    /\ \A c \in Callers : caller[c] = "returned" => ctxDone /\ handleDone /\ promised \subseteq ran

\* NewResultHandle returns a handle or an error, however the end of the build and
\* of the caller's context interleave; a handle that it did not return does not
\* keep its session; and Done returns.
HandleEnds ==
    /\ <>(main = "returned" /\ (ret[1] # "none" \/ ret[2] # "nil"))
    /\ (main = "returned" /\ ret[1] = "none") ~> (build = "ended")
    /\ \A c \in Callers : (caller[c] = "called") ~> (caller[c] = "returned")

\* A status message that arrives once NewResultHandle has closed the base
\* channel is discarded.
LateStatusDiscarded == forwarder # "panic"
=============================================================================
