----------------------------- MODULE MCTerminal -----------------------------
(* What stands between a build and the terminal: the progress printer and    *)
(* the forwarder of standard streams.  They share no state, so a behaviour   *)
(* of the two is one of either while the other rests.                        *)
EXTENDS Printer, Forwarder

VARIABLE part    \* the component that runs

all == <<part, vars, forwarderVars>>

MCInit == part \in {"printer", "forwarder"} /\ Init /\ ForwarderInit

\* Channels and terminals differ in their names only: the second of two is used
\* while the first is in use, or after it.
firstSource == CHOOSE s \in Sources : TRUE
firstTerminal == CHOOSE t \in Terminals : TRUE
inTurn ==
    /\ \A s \in Sources : source'[s] # "none" => source'[firstSource] # "none"
    /\ \A t \in Terminals : user[t] = "idle" /\ user'[t] = "issued" => t = firstTerminal \/ user[firstTerminal] # "idle"

\* After a use out of order the printer is followed with one reload at most, and
\* with one channel at most or log lines: of such a use the properties promise only
\* what becomes of the lines, in which channels have no part.
followed ==
    \/ Orderly
    \/ reloads <= 1 /\ \A s \in Sources : source[s] = "none" \/ (s = firstSource /\ logged = 0)

inPrinter == part = "printer" /\ followed /\ UNCHANGED <<part, forwarderVars>>
inForwarder == part = "forwarder" /\ UNCHANGED <<part, vars>>

MCNext == (inPrinter /\ Next /\ inTurn) \/ (inForwarder /\ ForwarderNext)

\* The fairness of each.  The part never changes, so fairness of a disjunction
\* with a step of either is fairness of both steps.
MCFairness ==
    /\ WF_all((inPrinter /\ LoopSteps) \/ (inForwarder /\ UpdateReader))
    /\ WF_all((inPrinter /\ \E u \in Users : UserSteps(u)) \/ (inForwarder /\ ForwardReturns))
    /\ WF_all(inForwarder /\ CloseSteps)
    /\ \A r \in Readers : WF_all(inForwarder /\ Copy(r))

MCSpec == MCInit /\ [][MCNext]_all /\ MCFairness
=============================================================================
