-------------------------------- MODULE Monitor --------------------------------
(***************************************************************************)
(* The monitor console (monitor/monitor.go) on top of MuxIO                *)
(* (util/ioset/mux.go).  Output 0 of the multiplexer is the monitor's      *)
(* command line, output 1 the container.  Four kinds of goroutine move     *)
(* between them: the one that reads the keyboard and toggles at C-a-c, the *)
(* loop of RunMonitor, the terminals that execute commands, and one        *)
(* goroutine per process that is invoked.                                  *)
(*                                                                         *)
(* The hooks of output 0 hand over to RunMonitor through unbuffered        *)
(* channels: a hook waits until the loop is ready for it.  The keyboard    *)
(* goroutine toggles without the mutex of MuxIO.  The hook of output 1,    *)
(* which writes a newline to a container, does not wait here.              *)
(***************************************************************************)
EXTENDS Naturals, FiniteSets

CONSTANTS
    Commands,    \* "exec" and "rollback" commands, each of which invokes a process
    MaxToggles   \* bound on the number of times C-a-c is pressed

(* A command is told from the process that RunMonitor starts by itself, the *)
(* keyboard goroutine and the loop.                                         *)
ASSUME CommandsAssumption == {"first", "keyboard", "loop", "nobody"} \cap Commands = {}

First == "first"   \* the process that RunMonitor starts by itself
Keyboard == "keyboard"
Processes == Commands \cup {First}
Threads == Processes \cup {Keyboard}
Nobody == "nobody"

VARIABLES
    cur,           \* MuxIO.cur
    enabled,       \* MuxIO.enabled
    muxMu,         \* who holds MuxIO.mu
    loop,          \* RunMonitor: "wait" (for monitorEnableCh), "serve", "detach", "await" or "returned"
    terminal,      \* how many times the loop has begun to serve: which terminal is current
    pc,            \* where the keyboard goroutine and the invoke goroutines are
    command,       \* where each command is
    issuedIn,      \* the terminal that executes the command
    attached,      \* a session is attached
    invokeCancel,  \* whose function monitor.invokeCancel is
    finishing,     \* whose invokeCancel a command, or the loop, is waiting for
    cancelled,     \* processes whose Invoke has been cancelled
    finished,      \* processes whose waitInvokeDoneCh is closed
    attachedPid,   \* monitor.attachedPid
    toggles,       \* C-a-c pressed so far
    collided       \* C-a-c was pressed while a process was switching outputs

muxVars == <<cur, enabled, muxMu>>
loopVars == <<loop, terminal>>
commandVars == <<command, issuedIn, finishing>>
processVars == <<invokeCancel, cancelled, finished, attachedPid>>
keyboardVars == <<toggles, collided>>
monitorVars == <<muxVars, loopVars, pc, commandVars, attached, processVars, keyboardVars>>

MonitorInit ==
    /\ cur = 1 /\ enabled = {0, 1} /\ muxMu = Nobody
    /\ loop = "wait" /\ terminal = 0
    /\ pc = [t \in Threads |-> IF t = First THEN "enable" ELSE "idle"]
    /\ command = [c \in Commands |-> "none"] /\ issuedIn = [c \in Commands |-> 0]
    /\ finishing = [c \in Commands \cup {"loop"} |-> Nobody]
    /\ attached = TRUE /\ invokeCancel = Nobody /\ cancelled = {} /\ finished = {}
    /\ attachedPid = First /\ toggles = 0
    /\ collided = FALSE

Goto(t, where) == pc' = [pc EXCEPT ![t] = where]

Toggling == {"hookOff", "advance", "check", "hookOn"}
Switching(t) == pc[t] \in Toggling \cup {"leave", "arrive"}
BeginSwitch == collided' = (collided \/ \E t \in Threads : Switching(t))

-----------------------------------------------------------------------------
\* toggleIO, by the keyboard goroutine or, under the mutex, by Disable.
\* The hooks of the monitor's output: the loop stops and starts to serve.
DisableHook == IF cur = 0 THEN loop = "serve" /\ loop' = "wait" ELSE UNCHANGED loop
EnableHook ==
    IF cur = 0 THEN loop = "wait" /\ loop' = "serve" /\ terminal' = terminal + 1
    ELSE UNCHANGED loopVars

HookOff(t) ==
    /\ pc[t] = "hookOff"
    /\ DisableHook /\ Goto(t, "advance")
    /\ UNCHANGED <<muxVars, terminal, commandVars, attached, processVars, keyboardVars>>

Advance(t) ==
    /\ pc[t] = "advance"
    /\ cur' = IF cur + 1 >= 2 THEN 0 ELSE cur + 1
    /\ Goto(t, "check")
    /\ UNCHANGED <<enabled, muxMu, loopVars, commandVars, attached, processVars, keyboardVars>>

takesAny(t) == \* mutant: a disabled output is not passed over
    /\ pc[t] = "check"
    /\ Goto(t, "hookOn")
    /\ UNCHANGED <<muxVars, loopVars, commandVars, attached, processVars, keyboardVars>>

CheckEnabled(t) ==
    /\ pc[t] = "check"
    /\ Goto(t, IF cur \in enabled THEN "hookOn" ELSE "advance")
    /\ UNCHANGED <<muxVars, loopVars, commandVars, attached, processVars, keyboardVars>>

HookOn(t) ==
    /\ pc[t] = "hookOn"
    /\ EnableHook
    /\ Goto(t, IF t = Keyboard THEN "idle" ELSE "clear")
    /\ muxMu' = IF muxMu = t THEN Nobody ELSE muxMu
    /\ UNCHANGED <<cur, enabled, commandVars, attached, processVars, keyboardVars>>

Toggle(t) == HookOff(t) \/ Advance(t) \/ CheckEnabled(t) \/ HookOn(t)

\* C-a-c is pressed.
PressToggle ==
    /\ pc[Keyboard] = "idle" /\ toggles < MaxToggles /\ loop \in {"wait", "serve"}
    /\ toggles' = toggles + 1 /\ BeginSwitch /\ Goto(Keyboard, "hookOff")
    /\ UNCHANGED <<muxVars, loopVars, commandVars, attached, processVars>>

-----------------------------------------------------------------------------
\* invoke: the goroutine of one process.
Enable(p) ==
    /\ pc[p] = "enable" /\ muxMu = Nobody
    /\ enabled' = enabled \cup {1} /\ Goto(p, "switch")
    /\ UNCHANGED <<cur, muxMu, loopVars, commandVars, attached, processVars, keyboardVars>>

\* SwitchTo(1): nothing to do, an error, or the mutex is held during the hooks.
SwitchTo(p) ==
    /\ pc[p] = "switch" /\ muxMu = Nobody
    /\ \/ cur = 1 /\ Goto(p, "session") /\ UNCHANGED <<muxMu, collided>>
       \/ cur # 1 /\ 1 \notin enabled /\ Goto(p, "disable") /\ UNCHANGED <<muxMu, collided>>
       \/ cur # 1 /\ 1 \in enabled /\ Goto(p, "leave") /\ muxMu' = p /\ BeginSwitch
    /\ UNCHANGED <<cur, enabled, loopVars, commandVars, attached, processVars, toggles>>

LeaveMonitor(p) ==
    /\ pc[p] = "leave"
    /\ DisableHook /\ Goto(p, "arrive")
    /\ UNCHANGED <<muxVars, terminal, commandVars, attached, processVars, keyboardVars>>

Arrive(p) ==
    /\ pc[p] = "arrive"
    /\ cur' = 1 /\ muxMu' = Nobody /\ Goto(p, "session")
    /\ UNCHANGED <<enabled, loopVars, commandVars, attached, processVars, keyboardVars>>

\* Without a session there is nothing to invoke; otherwise the process can be
\* cancelled from here on.
Attach(p) ==
    /\ pc[p] = "session"
    /\ \/ ~attached /\ Goto(p, "disable") /\ UNCHANGED invokeCancel
       \/ attached /\ Goto(p, "run") /\ invokeCancel' = p
    /\ UNCHANGED <<muxVars, loopVars, commandVars, attached, cancelled, finished, attachedPid, keyboardVars>>

\* Invoke returns because it was cancelled, or because the process has exited.
InvokeReturns(p) ==
    /\ pc[p] = "run"
    /\ finished' = finished \cup {p} /\ Goto(p, "disable")
    /\ UNCHANGED <<muxVars, loopVars, commandVars, attached, invokeCancel, cancelled, attachedPid, keyboardVars>>

InvokeCancelled(p) == p \in cancelled /\ InvokeReturns(p)
InvokeEnds(p) == p \notin cancelled /\ InvokeReturns(p)

\* Disable(1)
Disable(p) ==
    /\ pc[p] = "disable" /\ muxMu = Nobody
    /\ enabled' = enabled \ {1}
    /\ IF cur = 1 THEN muxMu' = p /\ BeginSwitch /\ Goto(p, "hookOff")
       ELSE UNCHANGED <<muxMu, collided>> /\ Goto(p, "clear")
    /\ UNCHANGED <<cur, loopVars, commandVars, attached, processVars, toggles>>

ClearPid(p) ==
    /\ pc[p] = "clear"
    /\ attachedPid' = IF attachedPid = p THEN "" ELSE attachedPid
    /\ Goto(p, "ended")
    /\ UNCHANGED <<muxVars, loopVars, commandVars, attached, invokeCancel, cancelled, finished, keyboardVars>>

-----------------------------------------------------------------------------
\* Commands.  A terminal executes one command at a time; a command that is
\* still running when its terminal is left goes on.
Busy(c) == command[c] \notin {"none", "done"}
Ready(c) == loop = "serve" /\ command[c] = "none" /\ \A d \in Commands : Busy(d) => issuedIn[d] # terminal

To(c, where) == command' = [command EXCEPT ![c] = where]

Issue(c, where) ==
    /\ Ready(c)
    /\ To(c, where) /\ issuedIn' = [issuedIn EXCEPT ![c] = terminal]
    /\ UNCHANGED <<muxVars, loopVars, pc, finishing, attached, processVars, keyboardVars>>

\* exec, rollback and attach to a process; attach to a session; reload.
Exec(c) == attached /\ Issue(c, "cancel")
AttachToSession(c) == Issue(c, "detach")
Reload(c) == Issue(c, "build")

\* The build of reload: without a new result there is no session any more.
Built(c) ==
    /\ command[c] = "build"
    /\ \/ attached' = FALSE /\ To(c, "done")
       \/ attached' = TRUE /\ To(c, "cancel")
    /\ UNCHANGED <<muxVars, loopVars, pc, issuedIn, finishing, processVars, keyboardVars>>

\* invokeCancel, by startInvoke or Detach: cancel, then wait for Invoke.
CancelInvoke(c) ==
    /\ command[c] \in {"cancel", "detach"}
    /\ LET after == IF command[c] = "cancel" THEN "spawn" ELSE "attach"
           await == IF command[c] = "cancel" THEN "awaitSpawn" ELSE "awaitAttach"
       IN  IF invokeCancel = Nobody THEN To(c, after) /\ UNCHANGED <<finishing, cancelled>>
           ELSE /\ To(c, await)
                /\ finishing' = [finishing EXCEPT ![c] = invokeCancel]
                /\ cancelled' = cancelled \cup {invokeCancel}
    /\ UNCHANGED <<muxVars, loopVars, pc, issuedIn, attached, invokeCancel, finished, attachedPid, keyboardVars>>

AwaitInvoke(c) ==
    /\ command[c] \in {"awaitSpawn", "awaitAttach"} /\ finishing[c] \in finished
    /\ To(c, IF command[c] = "awaitSpawn" THEN "spawn" ELSE "attach")
    /\ UNCHANGED <<muxVars, loopVars, pc, issuedIn, finishing, attached, processVars, keyboardVars>>

\* startInvoke starts the goroutine and stores the process afterwards.
Spawn(c) ==
    /\ command[c] = "spawn"
    /\ Goto(c, "enable") /\ To(c, "store")
    /\ UNCHANGED <<muxVars, loopVars, issuedIn, finishing, attached, processVars, keyboardVars>>

StorePid(c) ==
    /\ command[c] = "store"
    /\ attachedPid' = c /\ To(c, "done")
    /\ UNCHANGED <<muxVars, loopVars, pc, issuedIn, finishing, attached, invokeCancel, cancelled, finished, keyboardVars>>

AttachSession(c) ==
    /\ command[c] = "attach"
    /\ attached' = TRUE /\ To(c, "done")
    /\ UNCHANGED <<muxVars, loopVars, pc, issuedIn, finishing, processVars, keyboardVars>>

CommandSteps(c) == Built(c) \/ CancelInvoke(c) \/ AwaitInvoke(c) \/ Spawn(c) \/ StorePid(c) \/ AttachSession(c)

\* The command exit: RunMonitor detaches and returns.
Exit ==
    /\ loop = "serve" /\ \A d \in Commands : Busy(d) => issuedIn[d] # terminal
    /\ loop' = "detach"
    /\ UNCHANGED <<muxVars, terminal, pc, commandVars, attached, processVars, keyboardVars>>

waitsOnly == \* mutant: Detach waits for the process without cancelling it
    /\ loop = "detach"
    /\ IF invokeCancel = Nobody THEN loop' = "returned" /\ UNCHANGED finishing
       ELSE loop' = "await" /\ finishing' = [finishing EXCEPT !["loop"] = invokeCancel]
    /\ UNCHANGED <<muxVars, terminal, pc, command, issuedIn, attached, processVars, keyboardVars>>

Detach ==
    /\ loop = "detach"
    /\ IF invokeCancel = Nobody THEN loop' = "returned" /\ UNCHANGED <<finishing, cancelled>>
       ELSE /\ loop' = "await"
            /\ finishing' = [finishing EXCEPT !["loop"] = invokeCancel]
            /\ cancelled' = cancelled \cup {invokeCancel}
    /\ UNCHANGED <<muxVars, terminal, pc, command, issuedIn, attached, invokeCancel, finished, attachedPid, keyboardVars>>

ReturnFromMonitor ==
    /\ loop = "await" /\ finishing["loop"] \in finished
    /\ loop' = "returned"
    /\ UNCHANGED <<muxVars, terminal, pc, commandVars, attached, processVars, keyboardVars>>

-----------------------------------------------------------------------------
ProcessSteps(p) ==
    Enable(p) \/ SwitchTo(p) \/ LeaveMonitor(p) \/ Arrive(p) \/ Attach(p) \/ InvokeCancelled(p)
    \/ Disable(p) \/ Toggle(p) \/ ClearPid(p)

MonitorNext ==
    \/ PressToggle \/ Toggle(Keyboard) \/ Exit \/ Detach \/ ReturnFromMonitor
    \/ \E p \in Processes : ProcessSteps(p) \/ InvokeEnds(p)
    \/ \E c \in Commands : Exec(c) \/ AttachToSession(c) \/ Reload(c) \/ CommandSteps(c)

MonitorSpec == MonitorInit /\ [][MonitorNext]_monitorVars

\* Every goroutine runs; nothing makes the user act or a process exit.
MonitorFairness ==
    /\ WF_monitorVars(Toggle(Keyboard)) /\ WF_monitorVars(Detach \/ ReturnFromMonitor)
    /\ \A p \in Processes : WF_monitorVars(ProcessSteps(p))
    /\ \A c \in Commands : WF_monitorVars(CommandSteps(c))

MonitorFairSpec == MonitorSpec /\ MonitorFairness

-----------------------------------------------------------------------------
\* Nobody is between the two halves of a switch.
AtRest == \A t \in Threads : ~Switching(t)

\* The keyboard goes to an output that is enabled, although it toggles without
\* the mutex under which outputs are enabled and disabled, and the command line
\* is served exactly while the keyboard goes to it, as long as C-a-c is not
\* pressed in the middle of another switch.
KeyboardServed ==
    AtRest => /\ cur \in enabled
              /\ ~collided /\ loop \in {"wait", "serve"} => (loop = "serve" <=> cur = 0)

Stopped == loop \in {"detach", "await", "returned"}

\* exit returns: the process that is attached last ends when it is cancelled.
\* Every switch of outputs comes to its end, whoever makes it, as long as C-a-c
\* is not pressed in the middle of another one.
MonitorLive ==
    /\ (loop = "detach") ~> (loop = "returned")
    /\ [](~collided) => \A t \in Threads : Switching(t) ~> (~Switching(t) \/ Stopped)

\* C-a-c toggles: the keyboard goroutine is never stuck between two outputs.
ToggleFinishes == Switching(Keyboard) ~> (~Switching(Keyboard) \/ Stopped)

\* After exec has announced the process ("Press Ctrl-a-c to switch to that
\* process"), its output can be switched to while it is attached.
ProcessReachable ==
    \A c \in Commands : command[c] = "done" /\ pc[c] = "run" /\ c \notin cancelled => 1 \in enabled
=============================================================================
