----------------------------- MODULE Processes -----------------------------
(***************************************************************************)
(* The process manager of a session (controller/processes), the containers *)
(* it starts processes in (build/invoke.go) and the end of the build result *)
(* they come from (ResultHandle.Done in build/result.go).                   *)
(*                                                                         *)
(* p in Start is one call of StartProcess.  It also names the process it    *)
(* registers (the monitor gives every process a fresh ID) and the container *)
(* it creates, if any.                                                      *)
(***************************************************************************)
EXTENDS Naturals, FiniteSets

CONSTANTS Start,        \* calls of StartProcess
          Rollback,     \* those with cfg.Rollback
          Owner,        \* sessions that may cancel all processes
          Reattached,   \* processes whose Invoke calls may leave and come back
          None

(* Processes and sessions are told apart, and None is not a container.      *)
ASSUME ProcessesAssumption ==
    /\ Rollback \subseteq Start /\ Reattached \subseteq Start
    /\ None \notin Start /\ Owner \cap Start = {}

VARIABLES current,      \* m.container
          processes,    \* m.processes: the registered processes
          pc,           \* where each StartProcess and its process are
          uses,         \* the container each process runs in
          opened,       \* containers that exist
          unavailable,  \* containers marked unavailable
          init,         \* the process that started first in each container
          sweep,        \* CancelRunningProcesses runs: state and what they collected
          retiring,     \* containers with a `go ctr.Cancel()` to come
          cancelled,    \* processes whose processCancel was called
          waiting,      \* processes some Invoke call waits for on Done()
          result,       \* the handle: "open", "cleaning" or "done"
          cleanups      \* containers whose cleanup Done has to run

ctrs == <<opened, unavailable, init>>
vars == <<current, processes, pc, uses, ctrs, sweep, retiring, cancelled,
          waiting, result, cleanups>>

canceller == Start \cup Owner
Sweep(state, P) == [state |-> state, collected |-> P]

-----------------------------------------------------------------------------
(* StartProcess, up to the choice of the container.                         *)
needsContainer(p) ==
    p \in Rollback \/ current = None \/ current \in unavailable

StartProcess(p) ==
    /\ pc[p] = "idle"
    /\ IF needsContainer(p)
       THEN /\ sweep' = [sweep EXCEPT ![p] = Sweep("due", {})]
            /\ retiring' = retiring \cup ({current} \ {None})
            /\ pc' = [pc EXCEPT ![p] = "create"]
            /\ uses' = uses
       ELSE /\ uses' = [uses EXCEPT ![p] = current]
            /\ pc' = [pc EXCEPT ![p] = "register"]
            /\ UNCHANGED <<sweep, retiring>>
    /\ UNCHANGED <<current, processes, ctrs, cancelled, waiting, result,
                   cleanups>>

(* NewContainer: ask the gateway for a container and register its cleanup,  *)
(* which nobody runs once Done has taken the cleanups.                      *)
NewContainer(p) ==
    /\ pc[p] = "create"
    /\ \/ /\ result # "done"
          /\ opened' = opened \cup {p}
          /\ cleanups' = IF result = "open" THEN cleanups \cup {p} ELSE cleanups
          /\ pc' = [pc EXCEPT ![p] = "store"]
       \/ /\ pc' = [pc EXCEPT ![p] = "failed"]
          /\ UNCHANGED <<opened, cleanups>>
    /\ UNCHANGED <<current, processes, uses, unavailable, init, sweep, retiring, cancelled, waiting,
                   result>>

StoreContainer(p) ==
    /\ pc[p] = "store"
    /\ current' = p
    /\ uses' = [uses EXCEPT ![p] = p]
    /\ pc' = [pc EXCEPT ![p] = "register"]
    /\ UNCHANGED <<processes, ctrs, sweep, retiring, cancelled, waiting,
                   result, cleanups>>

(* The process is registered and its goroutine started; the Invoke call     *)
(* attaches its I/O and waits for the process.                              *)
Register(p) ==
    /\ pc[p] = "register"
    /\ processes' = processes \cup {p}
    /\ pc' = [pc EXCEPT ![p] = "exec"]
    /\ waiting' = waiting \cup {p}
    /\ UNCHANGED <<current, uses, ctrs, sweep, retiring, cancelled, result,
                   cleanups>>

(* Container.Exec: the first process of a container is its init.            *)
becomesInit(p) ==
    init' = [init EXCEPT ![uses[p]] = IF @ = None THEN p ELSE @]

ExecStarts(p) ==
    /\ pc[p] = "exec"
    /\ uses[p] \in opened /\ p \notin cancelled
    /\ becomesInit(p)
    /\ pc' = [pc EXCEPT ![p] = "run"]
    /\ UNCHANGED <<current, processes, uses, opened, unavailable, sweep, retiring,
                   cancelled, waiting, result, cleanups>>

ExecFails(p) ==
    /\ pc[p] = "exec"
    /\ becomesInit(p)
    /\ unavailable' = unavailable \cup {uses[p]}
    /\ pc' = [pc EXCEPT ![p] = "exited"]
    /\ UNCHANGED <<current, processes, uses, opened, sweep, retiring, cancelled,
                   waiting, result, cleanups>>

(* The process ends, by itself or because it or its container was           *)
(* cancelled; after an error or the end of init the container is not used   *)
(* again.                                                                   *)
mustEnd(p) == p \in cancelled \/ uses[p] \notin opened

ExecEnds(p) ==
    /\ pc[p] = "run"
    /\ \/ unavailable' = unavailable \cup {uses[p]}
       \/ /\ ~mustEnd(p) /\ init[uses[p]] # p
          /\ unavailable' = unavailable
    /\ pc' = [pc EXCEPT ![p] = "exited"]
    /\ UNCHANGED <<current, processes, uses, opened, init, sweep, retiring,
                   cancelled, waiting, result, cleanups>>

Exited(p) ==
    /\ pc[p] = "exited"
    /\ processes' = processes \ {p}
    /\ cancelled' = cancelled \cup {p}
    /\ pc' = [pc EXCEPT ![p] = "send"]
    /\ UNCHANGED <<current, uses, ctrs, sweep, retiring, waiting, result,
                   cleanups>>

(* errCh is unbuffered: the error is delivered to a waiting Invoke call.    *)
SendError(p) ==
    /\ pc[p] = "send" /\ p \in waiting
    /\ waiting' = waiting \ {p}
    /\ pc' = [pc EXCEPT ![p] = "done"]
    /\ UNCHANGED <<current, processes, uses, ctrs, sweep, retiring, cancelled,
                   result, cleanups>>

(* The Invoke call leaves, or another one finds the process and takes over. *)
Detach(p) ==
    /\ p \in waiting /\ p \in Reattached
    /\ waiting' = waiting \ {p}
    /\ UNCHANGED <<current, processes, pc, uses, ctrs, sweep, retiring,
                   cancelled, result, cleanups>>

Attach(p) ==
    /\ p \in processes /\ p \notin waiting /\ p \in Reattached
    /\ waiting' = waiting \cup {p}
    /\ UNCHANGED <<current, processes, pc, uses, ctrs, sweep, retiring,
                   cancelled, result, cleanups>>

-----------------------------------------------------------------------------
sweepForgets(by) ==             \* mutant: the functions collected are not called
    /\ sweep[by].state = "due"
    /\ sweep' = [sweep EXCEPT ![by] = Sweep("no", {})]
    /\ processes' = {}
    /\ UNCHANGED <<current, pc, uses, ctrs, retiring, cancelled, waiting,
                   result, cleanups>>

(* CancelRunningProcesses: unregister everything, then cancel it.           *)
SweepCollects(by) ==
    /\ sweep[by].state = "due"
    /\ sweep' = [sweep EXCEPT ![by] = Sweep("cancel", processes)]
    /\ processes' = {}
    /\ UNCHANGED <<current, pc, uses, ctrs, retiring, cancelled, waiting,
                   result, cleanups>>

SweepCancels(by) ==
    /\ sweep[by].state = "cancel"
    /\ cancelled' = cancelled \cup sweep[by].collected
    /\ sweep' = [sweep EXCEPT ![by] = Sweep("no", {})]
    /\ UNCHANGED <<current, processes, pc, uses, ctrs, retiring, waiting,
                   result, cleanups>>

(* Disconnect, Build and Close cancel the processes of the session's        *)
(* manager, the local controller's any number of times.                     *)
CancelRunningProcesses(o) ==
    /\ sweep[o].state = "no"
    /\ sweep' = [sweep EXCEPT ![o] = Sweep("due", {})]
    /\ UNCHANGED <<current, processes, pc, uses, ctrs, retiring, cancelled,
                   waiting, result, cleanups>>

DeleteProcess(p) ==
    /\ p \in processes
    /\ processes' = processes \ {p}
    /\ cancelled' = cancelled \cup {p}
    /\ UNCHANGED <<current, pc, uses, ctrs, sweep, retiring, waiting, result,
                   cleanups>>

(* Container.Cancel, and `go ctr.Cancel()` of a container that is replaced. *)
Cancel(c) ==
    /\ opened' = opened \ {c}
    /\ unavailable' = unavailable \cup {c}
    /\ init' = init

CancelContainer(c) ==
    /\ c \in retiring
    /\ Cancel(c)
    /\ retiring' = retiring \ {c}
    /\ UNCHANGED <<current, processes, pc, uses, sweep, cancelled, waiting, result,
                   cleanups>>

(* Done: take the cleanups registered so far; run each, which cancels a     *)
(* container and waits for its release; then close the gateway and with it  *)
(* the containers that were created meanwhile.                              *)
DoneTakes ==
    /\ result = "open"
    /\ result' = "cleaning"
    /\ UNCHANGED <<current, processes, pc, uses, ctrs, sweep, retiring,
                   cancelled, waiting, cleanups>>

DoneCleans(c) ==
    /\ result = "cleaning" /\ c \in cleanups
    /\ Cancel(c)
    /\ cleanups' = cleanups \ {c}
    /\ UNCHANGED <<current, processes, pc, uses, sweep, retiring, cancelled,
                   waiting, result>>

doneLeavesGateway ==            \* mutant: the gateway session stays open
    /\ result = "cleaning" /\ cleanups = {}
    /\ result' = "done"
    /\ UNCHANGED <<current, processes, pc, uses, ctrs, sweep, retiring,
                   cancelled, waiting, cleanups>>

DoneCloses ==
    /\ result = "cleaning" /\ cleanups = {}
    /\ result' = "done"
    /\ opened' = {}
    /\ UNCHANGED <<current, processes, pc, uses, unavailable, init, sweep, retiring, cancelled,
                   waiting, cleanups>>

Init ==
    /\ current = None
    /\ processes = {}
    /\ pc = [p \in Start |-> "idle"]
    /\ uses = [p \in Start |-> None]
    /\ opened = {} /\ unavailable = {}
    /\ init = [c \in Start |-> None]
    /\ sweep = [by \in canceller |-> Sweep("no", {})]
    /\ retiring = {} /\ cancelled = {} /\ waiting = {}
    /\ result = "open"
    /\ cleanups = {}

ProcessStep(p) ==
    \/ NewContainer(p) \/ StoreContainer(p) \/ Register(p)
    \/ ExecStarts(p) \/ ExecFails(p) \/ Exited(p) \/ SendError(p)

Next ==
    \/ \E p \in Start :
          \/ StartProcess(p) \/ ProcessStep(p) \/ ExecEnds(p)
          \/ Detach(p) \/ Attach(p) \/ DeleteProcess(p) \/ CancelContainer(p)
    \/ \E by \in canceller : SweepCollects(by) \/ SweepCancels(by)
    \/ \E c \in Start : DoneCleans(c)
    \/ \E o \in Owner : CancelRunningProcesses(o)
    \/ DoneTakes \/ DoneCloses

(* Goroutines run on; a killed process, or one whose container is gone,     *)
(* ends; whoever called Done waits for it to finish.  Nothing makes other   *)
(* processes end or a container be created.                                 *)
RunOn(p) ==
    \/ ExecStarts(p) \/ ExecFails(p)
    \/ pc[p] = "run" /\ mustEnd(p) /\ ExecEnds(p)

Fairness ==
    /\ \A p \in Start : WF_vars(RunOn(p))
    /\ WF_vars(DoneCloses \/ \E c \in Start : DoneCleans(c))

Spec == Init /\ [][Next]_vars
FairSpec == Spec /\ Fairness

-----------------------------------------------------------------------------
Phases == {"idle", "create", "store", "register", "exec", "run", "exited",
           "send", "done", "failed"}
Sweeps == [state : {"no", "due", "cancel"}, collected : SUBSET Start]

(* Calls, containers and sweeps are in known states, and a registered       *)
(* process has a container to run in.                                       *)
TypeOK ==
    /\ current \in Start \cup {None}
    /\ processes \subseteq Start
    /\ pc \in [Start -> Phases]
    /\ uses \in [Start -> Start \cup {None}]
    /\ opened \subseteq Start /\ unavailable \subseteq Start
    /\ init \in [Start -> Start \cup {None}]
    /\ sweep \in [canceller -> Sweeps]
    /\ retiring \subseteq Start /\ cancelled \subseteq Start
    /\ waiting \subseteq Start
    /\ result \in {"open", "cleaning", "done"}
    /\ cleanups \subseteq Start
    /\ \A p \in Start :
          pc[p] \in {"register", "exec", "run"} => uses[p] # None

(* No process escapes cancellation: one that runs and was not cancelled is  *)
(* registered, where DeleteProcess and CancelRunningProcesses find it, or   *)
(* was collected by a CancelRunningProcesses that will cancel it.           *)
RunningCancellable ==
    \A p \in Start :
        pc[p] \in {"exec", "run"} /\ p \notin cancelled =>
            \/ p \in processes
            \/ \E by \in canceller : p \in sweep[by].collected

(* "ListProcesses lists all running processes": what is registered has not  *)
(* been cancelled, and its goroutine has still to unregister it, whichever  *)
(* cancellations and exits raced.                                           *)
ListsRunning ==
    \A p \in processes : pc[p] \in {"exec", "run", "exited"} /\ p \notin cancelled

(* Done on the result returns and ends every process started from it, those *)
(* of containers whose cleanup was registered in time and those of          *)
(* containers created while the cleanups ran; no container is left in which *)
(* another could start.                                                     *)
DoneEndsProcesses ==
    result # "open" ~>
        result = "done" /\ opened = {} /\ \A p \in Start : pc[p] # "run"

(* StartProcess: "this method will start a new container and run the        *)
(* process in it".  The CancelRunningProcesses it starts is for the         *)
(* processes of the container it replaces, not for its own.                 *)
SparesOwnProcess == \A p \in Start : p \notin sweep[p].collected
=============================================================================
