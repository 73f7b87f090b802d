---------------------------- MODULE PrinterProofs ----------------------------
(***************************************************************************)
(* The progress printer, for any channels, terminals, reloads and lines    *)
(* logged: lines come out in order however the calls of its users overlap; *)
(* and as long as Unpause finds the ready channel of the next display and  *)
(* no reload runs beside another or beside the end of the monitor, one     *)
(* source per vertex, no panic, and no lines held back at rest.            *)
(***************************************************************************)
EXTENDS Printer, TLAPS

States == {"idle", "issued", "building", "waiting", "takeDone", "awaitDone", "paused", "waited",
           "takeReady", "awaitReady"}

TypeInv ==
    /\ user \in [Users -> States] /\ awaited \in [Users -> Nat]
    /\ source \in [Sources -> {"none", "idle", "logs", "bare", "closing", "ended"}]
    /\ owner \in [Sources -> Users \cup {Nobody}] /\ shown \subseteq Sources
    /\ early \in BOOLEAN /\ overlapped \in BOOLEAN

(* Where the goroutine is while it holds lines back: in the last writer of  *)
(* the chain and in no other.                                               *)
Holding == {"ready", "display", "resumeLogs"}
LogsInv ==
    /\ buffers \in Seq(BOOLEAN \X Seq(Nat)) /\ Len(buffers) # 0 /\ logged \in Nat
    /\ Active(buffers) = IF printer \in Holding THEN {Len(buffers)} ELSE {}

(* A writer that does not hold lines back has none, so all lines are on the *)
(* terminal or in the last writer.                                          *)
LinesInv ==
    /\ stderr \in Seq(Nat)
    /\ \A i \in DOMAIN buffers : buffers[i][1] \/ buffers[i][2] = <<>>
    /\ stderr \o buffers[Len(buffers)][2] = [n \in 1..logged |-> n]

(* The ready channel is new from MakeReady to CloseReady, the done channel  *)
(* from RenewDone to CloseDone; a display that begins has shown nothing.    *)
Resting == {"test", "again", "park", "parked"}
Renewing == {"renew", "renewDone", "renewOnce", "renewMap", "pauseLogs", "ready"}
Ending == {"display", "resumeLogs", "done"}
CountsInv ==
    /\ announced \in Nat /\ finished \in Nat
    /\ pauses \in Nat /\ paused \in 0..pauses /\ released \subseteq 0..pauses
    /\ ready = IF printer \in {"park", "parked", "clear"} \cup Renewing THEN announced + 1 ELSE announced
    /\ done = IF printer \in Ending \cup (Renewing \ {"renew", "renewDone"}) THEN finished + 1 ELSE finished
    /\ printer \in Renewing => shown = {}

(* A display that draws and has not been told to end.                       *)
Open == printer = "display" /\ status = "open" /\ once = "fresh"
Held == paused # 0 /\ paused \notin released

(* Where the goroutine may be while a user is in Unpause.                   *)
Awaits(where) ==
    \/ printer \in where /\ paused # 0
    \/ /\ printer \in Renewing /\ paused = 0
       /\ printer # "renew" => status = "open"
       /\ printer \in {"renewMap", "pauseLogs", "ready"} => once = "fresh"
    \/ Open /\ paused = 0

(* The user that drives the printer: the command, or the one reload while   *)
(* the command serves the monitor.                                          *)
Driver(d) ==
    /\ \A u \in Users : u # d => user[u] = IF u = Main THEN "paused" ELSE "idle"
    /\ d # Main => user[d] # "idle" /\ phase = "monitor"

Pausing(d) == d # Main \/ phase # "end"

(* The goroutine of NewPrinter and the driver keep in step.                 *)
Drives(d) ==
    /\ user[d] # "idle"
    /\ user[d] = "building" => Open /\ paused = 0
    /\ user[d] = "waiting" => Open /\ (IF Pausing(d) THEN Held ELSE paused = 0)
    /\ user[d] \in {"takeDone", "awaitDone"} =>
          /\ once = d /\ status = "closed"
          /\ IF Pausing(d) THEN Held /\ printer \in Ending \cup Resting
             ELSE paused = 0 /\ printer \in Ending \cup {"test", "ended"}
    /\ user[d] = "awaitDone" => awaited[d] = done
    /\ user[d] \in {"paused", "issued"} => Held /\ printer \in Resting
    /\ user[d] = "waited" => paused = 0 /\ printer \in {"test", "ended"}
    /\ user[d] = "takeReady" => Awaits(Resting \cup {"clear"})
    /\ user[d] = "awaitReady" => awaited[d] = ready /\ Awaits({"park", "parked", "clear"})

(* Only the channels of the build of the driver are fed.                    *)
Feeding == {"idle", "logs", "bare"}
Feeds(d) == \A s \in Sources : source[s] \in Feeding => owner[s] = d /\ user[d] = "building"

(* Logs on their way to the display, and those it has shown, are those of   *)
(* the source that has claimed the vertex or of sources that have ended.    *)
Claims ==
    \A s \in Sources : /\ source[s] = "logs" => claim = s
                       /\ s \in shown => claim = s \/ source[s] = "ended"

StepInv ==
    /\ ~crashed /\ (printer = "parked" => parked = paused) /\ Claims
    /\ \E d \in Users : Driver(d) /\ Drives(d) /\ Feeds(d)

PrinterInv == TypeInv /\ LogsInv /\ LinesInv /\ CountsInv /\ (Orderly => StepInv)

-----------------------------------------------------------------------------
(* The steps, by what they change.                                          *)
Loop == \/ RenewStatus \/ RenewDone \/ RenewOnce \/ RenewMap \/ PauseLogs \/ CloseReady \/ DisplayEnds
        \/ ResumeLogs \/ CloseDone \/ TestPaused \/ MakeReady \/ Park \/ Unpark \/ ClearPaused
Call(u) == \/ Pause(u) \/ Unpause(u) \/ WaitOnce(u) \/ TakeDone(u) \/ WaitReturns(u) \/ TakeReady(u)
           \/ ReadyReceived(u)
Feed(s) == ValidateLogSource(s) \/ NoLogs(s) \/ CloseChannel(s) \/ Write(s) \/ ClearLogSource(s)

LEMMA Steps ==
    ASSUME [Next]_vars
    PROVE  \/ Loop \/ Log \/ Wait \/ UNCHANGED vars
           \/ \E u \in Users : Call(u)
           \/ \E t \in Terminals : Reload(t)
           \/ \E s \in Sources : Feed(s) \/ \E u \in Users : NewChannel(s, u)
BY Zenon DEF Next, LoopSteps, UserSteps, SourceSteps, Loop, Call, Feed

LEMMA LoopRests == ASSUME Loop PROVE UNCHANGED loopOthers
BY Zenon DEF Loop, RenewStatus, RenewDone, RenewOnce, RenewMap, PauseLogs, CloseReady, DisplayEnds,
   ResumeLogs, CloseDone, TestPaused, MakeReady, Park, Unpark, ClearPaused

LEMMA CallRests ==
    ASSUME Wait \/ (\E u \in Users : Call(u)) \/ \E t \in Terminals : Reload(t)
    PROVE  UNCHANGED printerOthers
<1>1. ASSUME NEW u \in Users, Call(u) PROVE UNCHANGED printerOthers
  BY <1>1, Zenon DEF Call, Pause, Unpause, WaitOnce, TakeDone, WaitReturns, TakeReady, ReadyReceived
<1> QED BY <1>1, Zenon DEF Wait, Reload

LEMMA FeedRests ==
    ASSUME NEW s \in Sources, Feed(s) \/ \E u \in Users : NewChannel(s, u) PROVE UNCHANGED sourceOthers
BY Zenon DEF Feed, ValidateLogSource, NoLogs, CloseChannel, Write, ClearLogSource, NewChannel

LEMMA LogsRest ==
    ASSUME [Next]_vars, ~Log, ~PauseLogs, ~ResumeLogs
    PROVE  UNCHANGED logVars /\ (printer' \in Holding <=> printer \in Holding)
<1>1. CASE Loop
  BY <1>1, Zenon DEF Loop, RenewStatus, RenewDone, RenewOnce, RenewMap, CloseReady, DisplayEnds,
     CloseDone, TestPaused, MakeReady, Park, Unpark, ClearPaused, Goto, Holding
<1>2. CASE UNCHANGED vars
  BY <1>2, Zenon DEF vars, loopVars
<1>3. CASE Wait \/ (\E u \in Users : Call(u)) \/ \E t \in Terminals : Reload(t)
  BY <1>3, CallRests, Zenon DEF printerOthers
<1>4. ASSUME NEW s \in Sources, Feed(s) \/ \E u \in Users : NewChannel(s, u)
      PROVE  UNCHANGED logVars /\ printer' = printer
  BY <1>4, FeedRests, Zenon DEF sourceOthers, loopVars
<1> QED BY <1>1, <1>2, <1>3, <1>4, Steps, Zenon

-----------------------------------------------------------------------------
(* The ready and done channels, and the channels of Pause.                  *)
LEMMA CountsKept == ASSUME CountsInv, [Next]_vars PROVE CountsInv'
<1> USE DEF CountsInv, Renewing, Ending
<1>1. ASSUME Loop PROVE CountsInv'
  <2>0. pauses' = pauses /\ released' = released
    BY <1>1, LoopRests, Zenon DEF loopOthers, userVars
  <2>1. CASE RenewStatus \/ RenewOnce \/ RenewMap \/ PauseLogs \/ DisplayEnds \/ ResumeLogs
             \/ TestPaused \/ Park \/ Unpark
    BY <2>0, <2>1, Zenon DEF RenewStatus, RenewOnce, RenewMap, PauseLogs, DisplayEnds, ResumeLogs,
       TestPaused, Park, Unpark, Goto
  <2>2. CASE RenewDone
    BY <2>0, <2>2, Zenon DEF RenewDone, Goto
  <2>3. CASE CloseReady
    BY <2>0, <2>3 DEF CloseReady, Goto
  <2>4. CASE CloseDone
    BY <2>0, <2>4 DEF CloseDone, Goto
  <2>5. CASE MakeReady
    BY <2>0, <2>5, Zenon DEF MakeReady, Goto
  <2>6. CASE ClearPaused
    BY <2>0, <2>6 DEF ClearPaused, Goto
  <2> QED BY <1>1, <2>1, <2>2, <2>3, <2>4, <2>5, <2>6, Zenon DEF Loop
<1>2. CASE Log \/ UNCHANGED vars
  BY <1>2, Zenon DEF Log, vars, loopVars, userVars, sourceVars
<1>3. ASSUME NEW u \in Users, Pause(u) PROVE CountsInv'
  <2>1. /\ pauses' = pauses + 1 /\ paused' = pauses + 1 /\ released' = released
        /\ UNCHANGED <<announced, finished, ready, done, printer, shown>>
    BY <1>3, Zenon DEF Pause, printerOthers, sourceVars
  <2>2. pauses + 1 \in 0..(pauses + 1) /\ 0..pauses \subseteq 0..(pauses + 1) /\ pauses + 1 \in Nat
    OBVIOUS
  <2> QED BY <2>1, <2>2, Zenon
<1>4. ASSUME NEW u \in Users, Unpause(u) PROVE CountsInv'
  BY <1>4, Zenon DEF Unpause, printerOthers, sourceVars
<1>5. ASSUME NEW u \in Users, WaitOnce(u) \/ TakeDone(u) \/ WaitReturns(u) \/ TakeReady(u) \/ ReadyReceived(u)
      PROVE  CountsInv'
  BY <1>5, Zenon DEF WaitOnce, TakeDone, WaitReturns, TakeReady, ReadyReceived, printerOthers, sourceVars
<1>6. CASE Wait \/ \E t \in Terminals : Reload(t)
  BY <1>6, Zenon DEF Wait, Reload, printerOthers, sourceVars
<1>7. ASSUME NEW s \in Sources, Feed(s) \/ \E u \in Users : NewChannel(s, u) PROVE CountsInv'
  <2>1. UNCHANGED <<announced, finished, ready, done, printer, pauses, paused, released>>
    BY <1>7, FeedRests, Zenon DEF sourceOthers, loopVars, userVars
  <2>2. printer \in Renewing => shown' = shown
    BY <1>7, Zenon DEF Feed, ValidateLogSource, NoLogs, CloseChannel, Write, ClearLogSource, NewChannel
  <2> QED BY <2>1, <2>2, Zenon
<1> QED BY <1>1, <1>2, <1>3, <1>4, <1>5, <1>6, <1>7, Steps, Zenon DEF Call

(* A use that is out of order stays so.                                     *)
LEMMA OrderlyBefore == ASSUME TypeInv, [Next]_vars, Orderly' PROVE Orderly
<1> USE DEF Orderly, TypeInv
<1>1. CASE Loop
  BY <1>1, LoopRests, Zenon DEF loopOthers, userVars
<1>2. CASE Log \/ Wait \/ UNCHANGED vars \/ \E t \in Terminals : Reload(t)
  BY <1>2, Zenon DEF Log, Wait, vars, Reload, userVars
<1>3. ASSUME NEW u \in Users, Call(u) PROVE Orderly
  BY <1>3, Zenon DEF Call, Pause, Unpause, WaitOnce, TakeDone, WaitReturns, TakeReady, ReadyReceived
<1>4. ASSUME NEW s \in Sources, Feed(s) \/ \E u \in Users : NewChannel(s, u) PROVE Orderly
  BY <1>4, FeedRests, Zenon DEF sourceOthers, userVars
<1> QED BY <1>1, <1>2, <1>3, <1>4, Steps, Zenon

LEMMA TypeKept == ASSUME TypeInv, CountsInv, [Next]_vars PROVE TypeInv'
<1> USE DEF TypeInv
<1>0. done \in Nat /\ ready \in Nat
  BY DEF CountsInv
<1>1. CASE Loop
  <2>1. UNCHANGED <<user, awaited, source, owner, early, overlapped>>
    BY <1>1, LoopRests, Zenon DEF loopOthers, userVars
  <2>2. shown' \subseteq Sources
    BY <1>1, Zenon DEF Loop, RenewStatus, RenewDone, RenewOnce, RenewMap, PauseLogs, CloseReady,
       DisplayEnds, ResumeLogs, CloseDone, TestPaused, MakeReady, Park, Unpark, ClearPaused
  <2> QED BY <2>1, <2>2, Zenon
<1>2. CASE Log \/ UNCHANGED vars
  BY <1>2, Zenon DEF Log, vars, userVars, sourceVars
<1>3. CASE Wait \/ (\E u \in Users : Call(u)) \/ \E t \in Terminals : Reload(t)
  <2>1. UNCHANGED <<source, owner, shown>>
    BY <1>3, CallRests, Zenon DEF printerOthers, sourceVars
  <2>2. ASSUME NEW u \in Users, NEW here, NEW there \in States, By(u, here, there)
        PROVE  user' \in [Users -> States]
    BY <2>2, Zenon DEF By
  <2>3. user' \in [Users -> States]
    <3>1. Main \in Users /\ Terminals \subseteq Users
      BY Zenon DEF Users
    <3>2. \A u \in Users : AfterWait(u) \in States
      BY Zenon DEF AfterWait, States
    <3>3. {"waiting", "takeReady", "takeDone", "awaitDone", "awaitReady", "building", "issued"} \subseteq States
      BY Zenon DEF States
    <3>4. CASE Wait \/ \E t \in Terminals : Reload(t)
      BY <2>2, <3>1, <3>3, <3>4, Zenon DEF Wait, Reload
    <3>5. ASSUME NEW u \in Users, Call(u) PROVE user' \in [Users -> States]
      <4>1. \E here : \E there \in States : By(u, here, there)
        BY <3>2, <3>3, <3>5, Zenon DEF Call, Pause, Unpause, WaitOnce, TakeDone, WaitReturns, TakeReady,
           ReadyReceived
      <4> QED BY <2>2, <4>1, Zenon
    <3> QED BY <1>3, <3>4, <3>5, Zenon
  <2>4. awaited' \in [Users -> Nat]
    BY <1>0, <1>3, Zenon DEF Call, Wait, Reload, Pause, Unpause, WaitOnce, TakeDone, WaitReturns, TakeReady,
       ReadyReceived
  <2>5. early' \in BOOLEAN /\ overlapped' \in BOOLEAN
    BY <1>3, Zenon DEF Call, Wait, Reload, Pause, Unpause, WaitOnce, TakeDone, WaitReturns, TakeReady,
       ReadyReceived
  <2> QED BY <2>1, <2>3, <2>4, <2>5, Zenon
<1>4. ASSUME NEW s \in Sources, Feed(s) \/ \E u \in Users : NewChannel(s, u) PROVE TypeInv'
  <2>1. UNCHANGED <<user, awaited, early, overlapped>>
    BY <1>4, FeedRests, Zenon DEF sourceOthers, userVars
  <2>2. CASE Feed(s)
    BY <2>1, <2>2, Zenon DEF Feed, ValidateLogSource, NoLogs, CloseChannel, Write, ClearLogSource, Becomes
  <2>3. CASE \E u \in Users : NewChannel(s, u)
    BY <2>1, <2>3, Zenon DEF NewChannel, Becomes
  <2> QED BY <1>4, <2>2, <2>3, Zenon
<1> QED BY <1>1, <1>2, <1>3, <1>4, Steps, Zenon

-----------------------------------------------------------------------------
LEMMA Empty == <<>> \in Seq(Nat)
OBVIOUS

LEMMA Pairs ==
    /\ \A b \in BOOLEAN, q \in Seq(Nat) : <<b, q>> \in BOOLEAN \X Seq(Nat)
    /\ \A x \in BOOLEAN \X Seq(Nat) : x[2] \in Seq(Nat)
    /\ \A q : <<TRUE, q>>[1] /\ ~<<FALSE, q>>[1]
<1>1. \A b \in BOOLEAN, q \in Seq(Nat) : <<b, q>> \in BOOLEAN \X Seq(Nat)
  BY Zenon
<1>2. \A x \in BOOLEAN \X Seq(Nat) : x[2] \in Seq(Nat)
  BY Zenon
<1>3. \A q : <<TRUE, q>>[1] /\ ~<<FALSE, q>>[1]
  BY Zenon
<1> QED BY <1>1, <1>2, <1>3, Zenon

(* What a line does that is logged while the writers active are those of A: *)
(* none of them stops or starts to hold lines back.                         *)
LEMMA Delivered ==
    ASSUME NEW chain \in Seq(BOOLEAN \X Seq(Nat)), NEW lines \in Seq(Nat), Deliver(chain, lines),
           Active(chain) = {} \/ (Len(chain) # 0 /\ Active(chain) = {Len(chain)})
    PROVE  /\ buffers' \in Seq(BOOLEAN \X Seq(Nat)) /\ Len(buffers') = Len(chain)
           /\ Active(buffers)' = Active(chain)
           /\ Active(chain) # {} => stderr' = stderr
<1>1. CASE Active(chain) = {}
  BY <1>1, Zenon DEF Deliver, Active
<1>2. CASE Len(chain) # 0 /\ Active(chain) = {Len(chain)}
  <2> DEFINE n == Len(chain)
             w == <<TRUE, chain[n][2] \o lines>>
  <2>1. n \in Nat /\ n \in 1..n /\ DOMAIN chain = 1..n /\ chain[n] \in BOOLEAN \X Seq(Nat)
    BY <1>2
  <2>3. buffers' = [chain EXCEPT ![n] = w] /\ stderr' = stderr
    BY <1>2, Zenon DEF Deliver
  <2>4. w \in BOOLEAN \X Seq(Nat) /\ w[1]
    <3>1. chain[n][2] \in Seq(Nat)
      BY <2>1, Pairs, Zenon
    <3>2. chain[n][2] \o lines \in Seq(Nat)
      BY <3>1
    <3> QED BY <3>2, Pairs, Zenon
  <2>5. chain[n][1]
    BY <1>2, Zenon DEF Active
  <2> HIDE DEF w, n
  <2>6. buffers' \in Seq(BOOLEAN \X Seq(Nat)) /\ Len(buffers') = n /\ DOMAIN buffers' = 1..n
    BY <2>1, <2>3, <2>4 DEF n
  <2>7. \A i \in 1..n : buffers'[i][1] <=> chain[i][1]
    BY <2>1, <2>3, <2>4, <2>5, Zenon
  <2> QED BY <2>1, <2>3, <2>6, <2>7, Zenon DEF Active, n
<1> QED BY <1>1, <1>2, Zenon

(* The display holds lines back from PauseLogs to ResumeLogs.               *)
LEMMA LogsHeld == ASSUME LogsInv, [Next]_vars PROVE LogsInv'
<1> USE DEF LogsInv
<1>0. Len(buffers) \in Nat /\ DOMAIN buffers = 1..Len(buffers) /\ Len(buffers) \in 1..Len(buffers)
  OBVIOUS
<1>1. CASE Log
  <2>1. /\ Deliver(buffers, <<logged + 1>>) /\ printer' = printer /\ logged' = logged + 1
    BY <1>1, Zenon DEF Log, loopVars
  <2>2. <<logged + 1>> \in Seq(Nat) /\ logged + 1 \in Nat
    OBVIOUS
  <2>3. /\ buffers' \in Seq(BOOLEAN \X Seq(Nat)) /\ Len(buffers') = Len(buffers)
        /\ Active(buffers)' = Active(buffers)
    BY <2>1, <2>2, Delivered, Zenon
  <2> QED BY <2>1, <2>2, <2>3, Zenon
<1>2. CASE PauseLogs
  <2> DEFINE w == <<TRUE, <<>>>>
  <2>1. /\ buffers' = Append(buffers, w) /\ printer' = "ready" /\ logged' = logged
        /\ Active(buffers) = {}
    BY <1>2, Zenon DEF PauseLogs, Goto, Holding
  <2>2. w \in BOOLEAN \X Seq(Nat) /\ w[1]
    BY Pairs, Empty, Zenon
  <2> HIDE DEF w
  <2>3. /\ buffers' \in Seq(BOOLEAN \X Seq(Nat)) /\ Len(buffers') = Len(buffers) + 1
        /\ DOMAIN buffers' = 1..(Len(buffers) + 1) /\ buffers'[Len(buffers) + 1] = w
        /\ \A i \in 1..Len(buffers) : buffers'[i] = buffers[i]
    BY <1>0, <2>1, <2>2
  <2>4. \A i \in 1..(Len(buffers) + 1) : i \in 1..Len(buffers) \/ i = Len(buffers) + 1
    BY <1>0
  <2>5. Len(buffers) + 1 \in 1..(Len(buffers) + 1) /\ Len(buffers) + 1 # 0
    BY <1>0
  <2>6. Active(buffers)' = {Len(buffers) + 1}
    <3>1. \A i \in 1..Len(buffers) : ~buffers'[i][1]
      BY <1>0, <2>1, <2>3, Zenon DEF Active
    <3>2. buffers'[Len(buffers) + 1][1]
      BY <2>2, <2>3, Zenon
    <3> QED BY <2>3, <2>4, <2>5, <3>1, <3>2, Zenon DEF Active
  <2> QED BY <2>1, <2>3, <2>5, <2>6, Zenon DEF Holding
<1>3. CASE ResumeLogs
  <2> DEFINE n == Len(buffers)
             w == <<FALSE, <<>>>>
             chain == [buffers EXCEPT ![n] = w]
  <2>1. /\ Deliver(chain, buffers[Len(buffers)][2]) /\ printer' = "done" /\ logged' = logged
        /\ Active(buffers) = {n}
    BY <1>3, Zenon DEF ResumeLogs, Goto, Holding
  <2>2. w \in BOOLEAN \X Seq(Nat) /\ ~w[1]
    BY Pairs, Empty, Zenon
  <2>3. buffers[Len(buffers)][2] \in Seq(Nat)
    BY <1>0
  <2> HIDE DEF w
  <2>4. chain \in Seq(BOOLEAN \X Seq(Nat)) /\ Len(chain) = n /\ DOMAIN chain = 1..n
    BY <1>0, <2>2
  <2>5. chain[n] = w /\ \A i \in 1..n : i # n => chain[i] = buffers[i]
    BY <1>0, Zenon
  <2> HIDE DEF chain
  <2>6. Active(chain) = {}
    BY <1>0, <2>1, <2>2, <2>4, <2>5, Zenon DEF Active
  <2> QED BY <2>1, <2>3, <2>4, <2>6, Delivered, Zenon DEF Holding
<1>4. ASSUME UNCHANGED logVars, printer' \in Holding <=> printer \in Holding PROVE LogsInv'
  BY <1>4, Zenon DEF logVars, Active
<1> QED BY <1>1, <1>2, <1>3, <1>4, LogsRest, Zenon

LEMMA Concatenation ==
    ASSUME NEW s \in Seq(Nat), NEW t \in Seq(Nat)
    PROVE  s \o t \in Seq(Nat) /\ s \o <<>> = s
OBVIOUS

LEMMA Associative == \A s, t, u \in Seq(Nat) : (s \o t) \o u = s \o (t \o u)
<1> SUFFICES ASSUME NEW s \in Seq(Nat), NEW t \in Seq(Nat), NEW u \in Seq(Nat)
             PROVE  (s \o t) \o u = s \o (t \o u)
  BY Zenon
<1> DEFINE l == (s \o t) \o u
           r == s \o (t \o u)
<1>1. l \in Seq(Nat) /\ r \in Seq(Nat) /\ Len(l) = Len(s) + Len(t) + Len(u) /\ Len(r) = Len(l)
  OBVIOUS
<1>2. \A i \in 1..Len(l) : l[i] = r[i]
  OBVIOUS
<1> HIDE DEF l, r
<1>3. l = r
  BY <1>1, <1>2
<1> QED BY <1>3, Zenon DEF l, r

LEMMA OneMore ==
    ASSUME NEW n \in Nat
    PROVE  [i \in 1..n |-> i] \o <<n + 1>> = [i \in 1..(n + 1) |-> i]
OBVIOUS

(* Lines that are delivered follow those on the terminal and in the last    *)
(* writer.                                                                  *)
LEMMA LinesFollow ==
    ASSUME NEW chain \in Seq(BOOLEAN \X Seq(Nat)), NEW lines \in Seq(Nat), Deliver(chain, lines),
           Len(chain) # 0, Active(chain) = {} \/ Active(chain) = {Len(chain)}, stderr \in Seq(Nat),
           \A i \in DOMAIN chain : chain[i][1] \/ chain[i][2] = <<>>
    PROVE  /\ stderr' \in Seq(Nat)
           /\ \A i \in DOMAIN buffers' : buffers'[i][1] \/ buffers'[i][2] = <<>>
           /\ stderr' \o buffers'[Len(buffers')][2] = (stderr \o chain[Len(chain)][2]) \o lines
<1> DEFINE n == Len(chain)
<1>1. n \in Nat /\ n \in 1..n /\ DOMAIN chain = 1..n /\ chain[n] \in BOOLEAN \X Seq(Nat)
  OBVIOUS
<1>2. chain[n][2] \in Seq(Nat)
  BY <1>1, Pairs, Zenon
<1>3. CASE Active(chain) = {}
  <2>1. stderr' = stderr \o lines /\ buffers' = chain
    BY <1>3, Zenon DEF Deliver
  <2>2. chain[n][2] = <<>>
    BY <1>1, <1>3, Zenon DEF Active
  <2>3. stderr \o lines \in Seq(Nat) /\ (stderr \o lines) \o <<>> = (stderr \o <<>>) \o lines
    BY Concatenation, Zenon
  <2> QED BY <2>1, <2>2, <2>3, Zenon
<1>4. CASE Active(chain) = {n}
  <2> DEFINE w == <<TRUE, chain[n][2] \o lines>>
  <2>2. buffers' = [chain EXCEPT ![n] = w] /\ stderr' = stderr
    BY <1>4, Zenon DEF Deliver
  <2>3. w[1] /\ w[2] = chain[n][2] \o lines
    BY Zenon
  <2>4. chain[n][2] \o lines \in Seq(Nat) /\ stderr \o (chain[n][2] \o lines) = (stderr \o chain[n][2]) \o lines
    <3>1. chain[n][2] \o lines \in Seq(Nat)
      BY <1>2, Concatenation, Zenon
    <3>2. (stderr \o chain[n][2]) \o lines = stderr \o (chain[n][2] \o lines)
      BY <1>2, Associative, Zenon
    <3> QED BY <3>1, <3>2, Zenon
  <2>5. Len(buffers') = n
    BY <1>4, Delivered, Zenon
  <2> HIDE DEF w, n
  <2>6. DOMAIN buffers' = DOMAIN chain /\ buffers'[n] = w /\ \A i \in DOMAIN chain : i # n => buffers'[i] = chain[i]
    BY <1>1, <2>2, Zenon
  <2> QED BY <1>1, <2>2, <2>3, <2>4, <2>5, <2>6, Zenon DEF n
<1> QED BY <1>3, <1>4, Zenon

(* No line is lost or overtaken: PauseLogs puts an empty writer in front,   *)
(* and ResumeLogs empties it after what is on the terminal.                 *)
LEMMA LinesInOrder == ASSUME LogsInv, LinesInv, [Next]_vars PROVE LinesInv'
<1> DEFINE n == Len(buffers)
<1>0. /\ n \in Nat /\ n # 0 /\ DOMAIN buffers = 1..n /\ n \in 1..n /\ logged \in Nat
      /\ buffers \in Seq(BOOLEAN \X Seq(Nat)) /\ stderr \in Seq(Nat)
      /\ Active(buffers) = {} \/ Active(buffers) = {n}
      /\ buffers[n][2] \in Seq(Nat)
  <2>1. /\ buffers \in Seq(BOOLEAN \X Seq(Nat)) /\ stderr \in Seq(Nat) /\ n # 0 /\ logged \in Nat
        /\ Active(buffers) = {} \/ Active(buffers) = {n}
    BY Zenon DEF LogsInv, LinesInv
  <2>2. n \in Nat /\ DOMAIN buffers = 1..n /\ n \in 1..n
    BY <2>1
  <2>3. buffers[n] \in BOOLEAN \X Seq(Nat)
    BY <2>1, <2>2
  <2> QED BY <2>1, <2>2, <2>3, Pairs, Zenon
<1> USE DEF LinesInv
<1>1. CASE Log
  <2>1. Deliver(buffers, <<logged + 1>>) /\ logged' = logged + 1
    BY <1>1, Zenon DEF Log
  <2>2. <<logged + 1>> \in Seq(Nat)
    BY <1>0
  <2>3. [i \in 1..logged |-> i] \o <<logged + 1>> = [i \in 1..logged' |-> i]
    BY <1>0, <2>1, OneMore, Zenon
  <2> QED BY <1>0, <2>1, <2>2, <2>3, LinesFollow, Zenon
<1>2. CASE PauseLogs
  <2> DEFINE w == <<TRUE, <<>>>>
  <2>1. /\ buffers' = Append(buffers, w) /\ UNCHANGED <<stderr, logged>> /\ Active(buffers) = {}
    BY <1>2, Zenon DEF PauseLogs, Goto, LogsInv, Holding
  <2>2. w[1] /\ w[2] = <<>> /\ w \in BOOLEAN \X Seq(Nat)
    BY Pairs, Empty, Zenon
  <2> HIDE DEF w
  <2>3. /\ Len(buffers') = n + 1 /\ DOMAIN buffers' = 1..(n + 1) /\ buffers'[n + 1] = w
        /\ \A i \in 1..n : buffers'[i] = buffers[i]
    BY <1>0, <2>1, <2>2
  <2>4. \A i \in 1..(n + 1) : i \in 1..n \/ i = n + 1
    BY <1>0
  <2>5. buffers[n][2] = <<>>
    BY <1>0, <2>1, Zenon DEF Active
  <2>6. \A i \in DOMAIN buffers' : buffers'[i][1] \/ buffers'[i][2] = <<>>
    <3>1. \A i \in 1..n : buffers'[i][1] \/ buffers'[i][2] = <<>>
      BY <1>0, <2>3, Zenon
    <3> QED BY <2>2, <2>3, <2>4, <3>1, Zenon
  <2>7. buffers'[Len(buffers')][2] = buffers[n][2]
    BY <2>2, <2>3, <2>5, Zenon
  <2> QED BY <1>0, <2>1, <2>6, <2>7, Zenon
<1>3. CASE ResumeLogs
  <2> DEFINE w == <<FALSE, <<>>>>
             chain == [buffers EXCEPT ![n] = w]
  <2>1. Deliver(chain, buffers[Len(buffers)][2]) /\ logged' = logged /\ Active(buffers) = {n}
    BY <1>3, Zenon DEF ResumeLogs, Goto, LogsInv, Holding
  <2>2. w \in BOOLEAN \X Seq(Nat) /\ ~w[1] /\ w[2] = <<>>
    BY Pairs, Empty, Zenon
  <2> HIDE DEF w
  <2>4. chain \in Seq(BOOLEAN \X Seq(Nat)) /\ Len(chain) = n /\ DOMAIN chain = 1..n
    BY <1>0, <2>2
  <2>5. chain[n] = w /\ \A i \in 1..n : i # n => chain[i] = buffers[i]
    BY <1>0, Zenon
  <2> HIDE DEF chain
  <2>6. Active(chain) = {} /\ \A i \in DOMAIN chain : chain[i][1] \/ chain[i][2] = <<>>
    <3>1. Active(chain) = {}
      BY <1>0, <2>1, <2>2, <2>4, <2>5, Zenon DEF Active
    <3>2. \A i \in 1..n : i # n => buffers[i][1] \/ buffers[i][2] = <<>>
      BY <1>0, Zenon
    <3>3. ASSUME NEW i \in 1..n, i # n PROVE chain[i][1] \/ chain[i][2] = <<>>
      <4>1. chain[i] = buffers[i]
        BY <2>5, <3>3, Zenon
      <4>2. buffers[i][1] \/ buffers[i][2] = <<>>
        BY <3>2, <3>3, Zenon
      <4> QED BY <4>1, <4>2, Zenon
    <3>4. chain[n][2] = <<>>
      BY <2>2, <2>5, Zenon
    <3> QED BY <2>4, <3>1, <3>3, <3>4, Zenon
  <2>7. stderr \o <<>> = stderr
    BY <1>0, Concatenation, Zenon
  <2>8. stderr' \o buffers'[Len(buffers')][2] = (stderr \o chain[Len(chain)][2]) \o buffers[n][2]
    BY <1>0, <2>1, <2>4, <2>6, LinesFollow, Zenon
  <2>9. /\ stderr' \in Seq(Nat)
        /\ \A i \in DOMAIN buffers' : buffers'[i][1] \/ buffers'[i][2] = <<>>
    BY <1>0, <2>1, <2>4, <2>6, LinesFollow, Zenon
  <2> QED BY <1>0, <2>1, <2>2, <2>4, <2>5, <2>7, <2>8, <2>9, Zenon
<1>4. ASSUME UNCHANGED logVars PROVE LinesInv'
  BY <1>4, Zenon DEF logVars
<1> QED BY <1>1, <1>2, <1>3, <1>4, LogsRest, Zenon

-----------------------------------------------------------------------------
(* A step of the goroutine keeps it in step with the driver.                *)
LEMMA LoopInStep == ASSUME CountsInv, TypeInv, StepInv, Loop PROVE StepInv'
<1>0. UNCHANGED <<user, awaited, released, phase, source, owner, crashed>>
  BY LoopRests, Zenon DEF loopOthers, userVars
<1>1. PICK d \in Users : Driver(d) /\ Drives(d) /\ Feeds(d)
  BY Zenon DEF StepInv
<1>2. Driver(d)' /\ Feeds(d)'
  BY <1>0, <1>1, Zenon DEF Driver, Feeds
<1>3. ASSUME NEW s \in Sources, source[s] = "logs" PROVE printer = "display"
  BY <1>1, <1>3, Zenon DEF Feeds, Feeding, Drives, Open
<1>4. Claims'
  <2>1. CASE RenewMap
    <3>1. printer = "renewMap" /\ printer # "display" /\ shown' = shown
      BY <2>1, Zenon DEF RenewMap, Goto
    <3>2. shown = {}
      BY <3>1, Zenon DEF CountsInv, Renewing
    <3> QED BY <1>0, <1>3, <3>1, <3>2, Zenon DEF Claims
  <2>2. CASE ClearPaused
    BY <1>0, <2>2, Zenon DEF ClearPaused, Claims, StepInv
  <2>3. CASE ~RenewMap /\ ~ClearPaused
    <3>1. claim' = claim /\ shown' = shown
      BY <2>3, Zenon DEF Loop, RenewStatus, RenewDone, RenewOnce, PauseLogs, CloseReady, DisplayEnds,
         ResumeLogs, CloseDone, TestPaused, MakeReady, Park, Unpark
    <3> QED BY <1>0, <3>1, Zenon DEF Claims, StepInv
  <2> QED BY <2>1, <2>2, <2>3, Zenon
<1>5. printer' = "parked" => parked' = paused'
  BY Zenon DEF StepInv, Loop, RenewStatus, RenewDone, RenewOnce, RenewMap, PauseLogs, CloseReady,
     DisplayEnds, ResumeLogs, CloseDone, TestPaused, MakeReady, Park, Unpark, ClearPaused, Goto
<1>6. Drives(d)'
  <2> USE <1>0, <1>1 DEF Drives, Pausing, Awaits, Open, Held, Renewing, Ending, Resting, Goto
  <2>1. CASE RenewStatus
    BY <2>1, Zenon DEF RenewStatus
  <2>2. CASE RenewDone
    BY <2>2, Zenon DEF RenewDone
  <2>3. CASE RenewOnce
    BY <2>3, Zenon DEF RenewOnce
  <2>4. CASE RenewMap
    BY <2>4, Zenon DEF RenewMap
  <2>5. CASE PauseLogs
    BY <2>5, Zenon DEF PauseLogs
  <2>6. CASE CloseReady
    BY <2>6, Zenon DEF CloseReady
  <2>7. CASE DisplayEnds
    BY <2>7, Zenon DEF DisplayEnds
  <2>8. CASE ResumeLogs
    BY <2>8, Zenon DEF ResumeLogs
  <2>9. CASE CloseDone
    BY <2>9, Zenon DEF CloseDone
  <2>10. CASE TestPaused
    BY <2>10, Zenon DEF TestPaused
  <2>11. CASE MakeReady
    BY <2>11, Zenon DEF MakeReady
  <2>12. CASE Park
    BY <2>12, Zenon DEF Park
  <2>13. CASE Unpark
    BY <2>13, Zenon DEF Unpark, StepInv
  <2>14. CASE ClearPaused
    BY <2>14, Zenon DEF ClearPaused
  <2> QED BY <2>1, <2>2, <2>3, <2>4, <2>5, <2>6, <2>7, <2>8, <2>9, <2>10, <2>11, <2>12, <2>13, <2>14,
             Zenon DEF Loop
<1> QED BY <1>0, <1>2, <1>4, <1>5, <1>6, Zenon DEF StepInv

(* Whoever is in a call or builds is the driver.                            *)
LEMMA Mine ==
    ASSUME NEW d \in Users, Driver(d), NEW u \in Users, user[u] \notin {"paused", "idle"}
    PROVE  u = d
BY Zenon DEF Driver

LEMMA StillDriver ==
    ASSUME TypeInv, NEW d \in Users, Driver(d), NEW here, NEW there, By(d, here, there), there # "idle",
           d = Main \/ phase' = phase
    PROVE  Driver(d)' /\ user'[d] = there /\ user[d] = here
BY Zenon DEF TypeInv, Driver, By

LEMMA StringNames ==
    /\ Main \in Users /\ Terminals \subseteq Users /\ "fresh" \notin Users /\ "used" \notin Users
BY NamesAssumption, Zenon DEF Users, Main

(* A call of the driver that leaves the goroutine alone.                    *)
Kept == UNCHANGED <<printer, done, finished, ready, announced, parked, claim, source, owner, shown>>

LEMMA CallKeeps ==
    ASSUME Wait \/ (\E u \in Users : Call(u)) \/ \E t \in Terminals : Reload(t)
    PROVE  Kept
BY CallRests, Zenon DEF printerOthers, sourceVars, Kept

LEMMA FeedsOn ==
    ASSUME NEW d \in Users, Feeds(d), Kept, user[d] # "building"
    PROVE  \A e \in Users : Feeds(e)'
BY Zenon DEF Feeds, Feeding, Kept

(* The command pauses or waits, or a reload pauses, when its channels are   *)
(* closed.                                                                  *)
LEMMA PauseInStep == ASSUME CountsInv, TypeInv, StepInv, NEW u \in Users, Pause(u) PROVE StepInv'
<1>1. PICK d \in Users : Driver(d) /\ Drives(d) /\ Feeds(d)
  BY Zenon DEF StepInv
<1>2. u = d /\ Kept
  BY <1>1, CallKeeps, Mine, Zenon DEF Pause, By, Call
<1>3. /\ By(d, "building", "waiting") /\ Quiet(d) /\ paused' = pauses + 1 /\ (d = Main \/ phase' = phase)
      /\ UNCHANGED <<status, once, released, awaited, crashed>> /\ Pausing(d)'
  BY <1>2, Zenon DEF Pause, Pausing
<1>4. Driver(d)' /\ user'[d] = "waiting" /\ user[d] = "building"
  BY <1>1, <1>3, StillDriver, Zenon
<1>5. pauses + 1 # 0 /\ pauses + 1 \notin released
  BY DEF CountsInv
<1>6. Drives(d)'
  BY <1>1, <1>2, <1>3, <1>4, <1>5, Zenon DEF Drives, Open, Held, Kept
<1>7. Feeds(d)'
  BY <1>1, <1>2, <1>3, Zenon DEF Feeds, Feeding, Quiet, Kept
<1>8. printer # "parked"
  BY <1>1, <1>4, Zenon DEF Drives, Open
<1> QED BY <1>2, <1>3, <1>4, <1>6, <1>7, <1>8, Zenon DEF StepInv, Claims, Kept

LEMMA WaitInStep == ASSUME CountsInv, TypeInv, StepInv, Wait PROVE StepInv'
<1>1. PICK d \in Users : Driver(d) /\ Drives(d) /\ Feeds(d)
  BY Zenon DEF StepInv
<1>2. Main = d /\ Kept
  BY <1>1, CallKeeps, Mine, StringNames, Zenon DEF Wait, By
<1>3. /\ By(d, "building", "waiting") /\ Quiet(d) /\ paused' = paused
      /\ UNCHANGED <<status, once, released, awaited, crashed>> /\ ~Pausing(d)'
  BY <1>2, Zenon DEF Wait, Pausing
<1>4. Driver(d)' /\ user'[d] = "waiting" /\ user[d] = "building"
  BY <1>1, <1>2, <1>3, StillDriver, Zenon
<1>6. Drives(d)'
  BY <1>1, <1>2, <1>3, <1>4, Zenon DEF Drives, Open, Kept
<1>7. Feeds(d)'
  BY <1>1, <1>2, <1>3, Zenon DEF Feeds, Feeding, Quiet, Kept
<1> QED BY <1>2, <1>3, <1>4, <1>6, <1>7, Zenon DEF StepInv, Claims, Kept

(* A reload takes over from the command, which serves the monitor.          *)
LEMMA ReloadInStep ==
    ASSUME TypeInv, StepInv, NEW t \in Terminals, Reload(t), ~overlapped' PROVE StepInv'
<1>1. PICK d \in Users : Driver(d) /\ Drives(d) /\ Feeds(d)
  BY Zenon DEF StepInv
<1>2. /\ Kept /\ By(t, "idle", "issued") /\ user[Main] = "paused" /\ phase = "monitor"
      /\ UNCHANGED <<status, once, paused, released, awaited, phase, crashed>> /\ ~Busy(t)
  BY CallKeeps, Zenon DEF Reload
<1>3. t \in Users /\ t # Main
  BY NamesAssumption, StringNames, Zenon
<1>4. d = Main
  <2>1. d # Main => d \in Terminals \ {t} /\ user[d] # "idle"
    BY <1>1, <1>2, Zenon DEF Driver, Users, By
  <2> QED BY <1>2, <2>1, Zenon DEF Busy
<1>5. Driver(t)' /\ user'[t] = "issued"
  BY <1>1, <1>2, <1>3, <1>4, Zenon DEF TypeInv, Driver, By
<1>6. Drives(t)'
  BY <1>1, <1>2, <1>4, <1>5, Zenon DEF Drives, Held, Kept
<1>7. Feeds(t)'
  BY <1>1, <1>2, <1>3, <1>4, FeedsOn, Zenon
<1> QED BY <1>2, <1>3, <1>5, <1>6, <1>7, Zenon DEF StepInv, Claims, Kept

LEMMA UnpauseInStep ==
    ASSUME TypeInv, StepInv, NEW u \in Users, Unpause(u), ~overlapped' PROVE StepInv'
<1>1. PICK d \in Users : Driver(d) /\ Drives(d) /\ Feeds(d)
  BY Zenon DEF StepInv
<1>2. /\ Kept /\ By(u, IF u = Main THEN "paused" ELSE "issued", "takeReady")
      /\ UNCHANGED <<status, once, paused, awaited, phase>> /\ released' = released \cup {paused}
      /\ crashed' = (paused = 0 \/ paused \in released) /\ ~(u = Main /\ Busy(u))
  BY CallKeeps, Zenon DEF Unpause, Call
<1>3. u = d
  <2>1. CASE u = Main
    BY <1>1, <1>2, <2>1, NamesAssumption, Zenon DEF Driver, Busy, Users
  <2>2. CASE u # Main
    BY <1>1, <1>2, <2>2, Mine, Zenon DEF By
  <2> QED BY <2>1, <2>2, Zenon
<1>4. Driver(d)' /\ user'[d] = "takeReady" /\ user[d] \in {"paused", "issued"}
  BY <1>1, <1>2, <1>3, StillDriver, Zenon
<1>5. Held /\ printer \in Resting
  BY <1>1, <1>4, Zenon DEF Drives
<1>6. Drives(d)'
  BY <1>2, <1>4, <1>5, Zenon DEF Drives, Awaits, Held, Kept
<1>7. Feeds(d)'
  BY <1>1, <1>2, <1>4, FeedsOn, Zenon
<1> QED BY <1>2, <1>4, <1>5, <1>6, <1>7, Zenon DEF StepInv, Claims, Kept, Held

(* Inside a call of Wait or Unpause.                                        *)
LEMMA CallInStep ==
    ASSUME CountsInv, TypeInv, StepInv, NEW u \in Users,
           WaitOnce(u) \/ TakeDone(u) \/ WaitReturns(u) \/ TakeReady(u) \/ ReadyReceived(u), ~early'
    PROVE  StepInv'
<1>1. PICK d \in Users : Driver(d) /\ Drives(d) /\ Feeds(d)
  BY Zenon DEF StepInv
<1>2. Kept /\ UNCHANGED <<paused, released, phase>>
  BY CallKeeps, Zenon DEF Call, WaitOnce, TakeDone, WaitReturns, TakeReady, ReadyReceived
<1>3. u = d /\ user[d] # "building"
  BY <1>1, Mine, Zenon DEF WaitOnce, TakeDone, WaitReturns, TakeReady, ReadyReceived, By
<1>4. \A e \in Users : Feeds(e)'
  BY <1>1, <1>2, <1>3, FeedsOn, Zenon
<1>5. (printer' = "parked" => parked' = paused') /\ Claims' /\ ~crashed
  BY <1>2, Zenon DEF StepInv, Claims, Kept
<1>6. SUFFICES ~crashed' /\ \E e \in Users : Driver(e)' /\ Drives(e)'
  BY <1>4, <1>5, Zenon DEF StepInv
<1>7. CASE WaitOnce(d)
  <2>1. user[d] = "waiting"
    BY <1>7, Zenon DEF WaitOnce, By
  <2>2. Open /\ (IF Pausing(d) THEN Held ELSE paused = 0)
    BY <1>1, <2>1, Zenon DEF Drives
  <2>3. By(d, "waiting", "takeDone") /\ once' = d /\ status' = "closed" /\ ~crashed' /\ awaited' = awaited
    BY <1>7, <2>2, Zenon DEF WaitOnce, Open
  <2>4. Driver(d)' /\ user'[d] = "takeDone"
    BY <1>1, <1>2, <2>3, StillDriver, Zenon
  <2>5. Drives(d)'
    BY <1>2, <2>2, <2>3, <2>4, Zenon DEF Drives, Pausing, Held, Open, Ending, Kept
  <2> QED BY <2>3, <2>4, <2>5, Zenon
<1>8. CASE TakeDone(d)
  <2>1. /\ By(d, "takeDone", "awaitDone") /\ awaited' = [awaited EXCEPT ![d] = done]
        /\ UNCHANGED <<status, once, crashed>>
    BY <1>8, Zenon DEF TakeDone
  <2>2. Driver(d)' /\ user'[d] = "awaitDone" /\ user[d] = "takeDone" /\ awaited'[d] = done
    BY <1>1, <1>2, <2>1, StillDriver, Zenon DEF TypeInv
  <2>3. Drives(d)'
    BY <1>1, <1>2, <2>1, <2>2, Zenon DEF Drives, Pausing, Held, Kept
  <2> QED BY <1>5, <2>1, <2>2, <2>3, Zenon
<1>9. CASE WaitReturns(d)
  <2>1. By(d, "awaitDone", AfterWait(d)) /\ awaited[d] <= finished /\ crashed' = (once \notin Users)
    BY <1>9, Zenon DEF WaitReturns
  <2>2. /\ awaited[d] = done /\ once = d
        /\ IF Pausing(d) THEN Held /\ printer \in Ending \cup Resting
           ELSE paused = 0 /\ printer \in Ending \cup {"test", "ended"}
    BY <1>1, <2>1, Zenon DEF Drives, By
  <2>3. printer \notin Ending
    BY <2>1, <2>2 DEF CountsInv
  <2>4. CASE d = Main
    <3>1. Driver(d)' /\ user'[d] = AfterWait(d) /\ AfterWait(d) = IF Pausing(d) THEN "paused" ELSE "waited"
      BY <1>1, <1>2, <2>1, <2>4, StillDriver, Zenon DEF AfterWait, Pausing
    <3>2. Drives(d)'
      BY <1>2, <2>2, <2>3, <3>1, Zenon DEF Drives, Held, Kept
    <3> QED BY <2>1, <2>2, <3>1, <3>2, Zenon
  <2>5. CASE d # Main
    <3>1. user' = [user EXCEPT ![d] = "idle"] /\ Main \in Users /\ user[Main] = "paused"
      BY <1>1, <2>1, <2>5, StringNames, Zenon DEF AfterWait, By, Driver
    <3>2. Driver(Main)' /\ user'[Main] = "paused"
      BY <1>1, <2>5, <3>1, Zenon DEF Driver, TypeInv
    <3>3. Held /\ printer \in Resting
      BY <2>2, <2>3, <2>5, Zenon DEF Pausing
    <3>4. Drives(Main)'
      BY <1>2, <3>2, <3>3, Zenon DEF Drives, Held, Kept
    <3> QED BY <2>1, <2>2, <3>1, <3>2, <3>4, Zenon
  <2> QED BY <2>4, <2>5, Zenon
<1>10. CASE TakeReady(d)
  <2>1. /\ By(d, "takeReady", "awaitReady") /\ awaited' = [awaited EXCEPT ![d] = ready]
        /\ UNCHANGED <<status, once, crashed>> /\ printer \notin {"test", "again"}
    BY <1>10, Zenon DEF TakeReady
  <2>2. Driver(d)' /\ user'[d] = "awaitReady" /\ user[d] = "takeReady" /\ awaited'[d] = ready
    BY <1>1, <1>2, <2>1, StillDriver, Zenon DEF TypeInv
  <2>3. Awaits(Resting \cup {"clear"})
    BY <1>1, <2>2, Zenon DEF Drives
  <2>4. Awaits({"park", "parked", "clear"})'
    BY <1>2, <2>1, <2>3, Zenon DEF Awaits, Open, Resting, Kept
  <2>5. Drives(d)'
    BY <1>2, <2>2, <2>4, Zenon DEF Drives, Kept
  <2> QED BY <1>5, <2>1, <2>2, <2>5, Zenon
<1>11. CASE ReadyReceived(d)
  <2>1. By(d, "awaitReady", "building") /\ awaited[d] <= announced /\ UNCHANGED <<status, once, crashed>>
    BY <1>11, Zenon DEF ReadyReceived
  <2>2. Driver(d)' /\ user'[d] = "building" /\ user[d] = "awaitReady"
    BY <1>1, <1>2, <2>1, StillDriver, Zenon
  <2>3. awaited[d] = ready /\ Awaits({"park", "parked", "clear"})
    BY <1>1, <2>2, Zenon DEF Drives
  <2>4. printer \notin {"park", "parked", "clear"} \cup Renewing
    BY <2>1, <2>3 DEF CountsInv
  <2>5. Open /\ paused = 0
    BY <2>3, <2>4, Zenon DEF Awaits
  <2>6. Drives(d)'
    BY <1>2, <2>1, <2>2, <2>5, Zenon DEF Drives, Open, Kept
  <2> QED BY <1>5, <2>1, <2>2, <2>6, Zenon
<1> QED BY <1>3, <1>7, <1>8, <1>9, <1>10, <1>11, Zenon

(* What feeds the display: only the driver's channels, and only while it    *)
(* builds, so the status channel is open.                                   *)
LEMMA FeedInStep ==
    ASSUME TypeInv, StepInv, NEW s \in Sources, Feed(s) \/ \E u \in Users : NewChannel(s, u)
    PROVE  StepInv'
<1>1. PICK d \in Users : Driver(d) /\ Drives(d) /\ Feeds(d)
  BY Zenon DEF StepInv
<1>2. UNCHANGED <<printer, status, done, once, ready, parked, paused, released, user, awaited, phase>>
  BY FeedRests, Zenon DEF sourceOthers, loopVars, userVars
<1>3. Driver(d)' /\ Drives(d)'
  BY <1>1, <1>2, Zenon DEF Driver, Drives, Pausing, Awaits, Open, Held
<1>4. Feeds(d)'
  <2>1. CASE Feed(s)
    BY <1>1, <1>2, <2>1, Zenon DEF Feed, ValidateLogSource, NoLogs, CloseChannel, Write, ClearLogSource,
       Becomes, TypeInv, Feeds, Feeding
  <2>2. ASSUME NEW u \in Users, NewChannel(s, u) PROVE Feeds(d)'
    <3>1. u = d
      BY <1>1, <2>2, Mine, Zenon DEF NewChannel
    <3> QED BY <1>1, <1>2, <2>2, <3>1, Zenon DEF NewChannel, Becomes, TypeInv, Feeds
  <2> QED BY <2>1, <2>2, Zenon
<1>5. ~crashed'
  <2>1. CASE Write(s)
    <3>1. status # "closed"
      BY <1>1, <2>1, Zenon DEF Write, Feeds, Feeding, Drives, Open
    <3> QED BY <2>1, <3>1, Zenon DEF Write, StepInv
  <2>2. CASE ~Write(s)
    BY <2>2, Zenon DEF Feed, ValidateLogSource, NoLogs, CloseChannel, ClearLogSource, NewChannel, StepInv
  <2> QED BY <2>1, <2>2, Zenon
<1>6. Claims'
  <2> USE DEF Claims, StepInv, TypeInv, Becomes
  <2>1. CASE ValidateLogSource(s)
    BY <2>1, NamesAssumption, Zenon DEF ValidateLogSource
  <2>2. CASE NoLogs(s) \/ CloseChannel(s)
    BY <2>2, Zenon DEF NoLogs, CloseChannel
  <2>3. CASE Write(s)
    BY <1>5, <2>3, Zenon DEF Write
  <2>4. CASE ClearLogSource(s)
    BY <2>4, Zenon DEF ClearLogSource
  <2>5. CASE \E u \in Users : NewChannel(s, u)
    BY <2>5, Zenon DEF NewChannel
  <2> QED BY <2>1, <2>2, <2>3, <2>4, <2>5, Zenon DEF Feed
<1> QED BY <1>2, <1>3, <1>4, <1>5, <1>6, Zenon DEF StepInv

-----------------------------------------------------------------------------
LEMMA PrinterInitially == Init => PrinterInv
<1> SUFFICES ASSUME Init PROVE PrinterInv
  BY Zenon
<1>1. TypeInv
  <2>1. 0 \in Nat
    OBVIOUS
  <2> QED BY <2>1, Zenon DEF Init, TypeInv, States
<1>2. LogsInv
  <2> DEFINE w == <<TRUE, <<>>>>
  <2>1. w \in BOOLEAN \X Seq(Nat) /\ w[1]
    BY Pairs, Empty, Zenon
  <2>2. buffers = <<w>> /\ printer = "display" /\ logged = 0
    BY Zenon DEF Init
  <2> HIDE DEF w
  <2>3. buffers \in Seq(BOOLEAN \X Seq(Nat)) /\ Len(buffers) = 1 /\ DOMAIN buffers = {1} /\ buffers[1] = w
    BY <2>1, <2>2
  <2>4. Active(buffers) = {1}
    BY <2>1, <2>3, Zenon DEF Active
  <2>5. 1 # 0 /\ logged \in Nat
    BY <2>2
  <2> QED BY <2>2, <2>3, <2>4, <2>5, Zenon DEF LogsInv, Holding
<1>5. LinesInv
  <2> DEFINE w == <<TRUE, <<>>>>
  <2>1. w[1] /\ w[2] = <<>>
    BY Zenon
  <2>2. buffers = <<w>> /\ stderr = <<>> /\ logged = 0
    BY Zenon DEF Init
  <2> HIDE DEF w
  <2>3. Len(buffers) = 1 /\ DOMAIN buffers = {1} /\ buffers[1] = w
    BY <2>2
  <2>4. <<>> \o <<>> = [i \in 1..0 |-> i]
    OBVIOUS
  <2> QED BY <2>1, <2>2, <2>3, <2>4, Empty, Zenon DEF LinesInv
<1>3. CountsInv
  BY DEF Init, CountsInv, Renewing, Ending
<1>4. StepInv
  <2>1. Main \in Users
    BY StringNames, Zenon
  <2>2. Driver(Main) /\ Drives(Main)
    BY <2>1, Zenon DEF Init, Driver, Drives, Open
  <2>3. Feeds(Main) /\ Claims
    BY Zenon DEF Init, Feeds, Feeding, Claims
  <2> QED BY <2>1, <2>2, <2>3, Zenon DEF Init, StepInv
<1> QED BY <1>1, <1>2, <1>3, <1>4, <1>5, Zenon DEF PrinterInv

LEMMA PrinterKept == PrinterInv /\ [Next]_vars => PrinterInv'
<1> SUFFICES ASSUME PrinterInv, [Next]_vars PROVE PrinterInv'
  BY Zenon
<1>1. TypeInv' /\ CountsInv' /\ LogsInv' /\ LinesInv'
  BY TypeKept, CountsKept, LogsHeld, LinesInOrder, Zenon DEF PrinterInv
<1>2. ASSUME Orderly' PROVE StepInv'
  <2>1. TypeInv /\ CountsInv /\ StepInv /\ ~early' /\ ~overlapped'
    BY <1>2, OrderlyBefore, Zenon DEF PrinterInv, Orderly
  <2>2. CASE Loop
    BY <2>1, <2>2, LoopInStep, Zenon
  <2>3. ASSUME NEW u \in Users, Call(u) PROVE StepInv'
    BY <2>1, <2>3, PauseInStep, UnpauseInStep, CallInStep, Zenon DEF Call
  <2>4. CASE Wait \/ \E t \in Terminals : Reload(t)
    BY <2>1, <2>4, WaitInStep, ReloadInStep, Zenon
  <2>5. ASSUME NEW s \in Sources, Feed(s) \/ \E u \in Users : NewChannel(s, u) PROVE StepInv'
    BY <2>1, <2>5, FeedInStep, Zenon
  <2>6. CASE Log \/ UNCHANGED vars
    <3>1. UNCHANGED <<printer, status, done, once, ready, parked, paused, released, user, awaited, phase,
                      crashed, claim, source, owner, shown>>
      BY <2>6, Zenon DEF Log, vars, loopVars, userVars, sourceVars
    <3>2. PICK d \in Users : Driver(d) /\ Drives(d) /\ Feeds(d)
      BY <2>1, Zenon DEF StepInv
    <3>3. Driver(d)' /\ Feeds(d)'
      BY <3>1, <3>2, Zenon DEF Driver, Feeds
    <3>4. Drives(d)'
      BY <3>1, <3>2, Zenon DEF Drives, Pausing, Awaits, Open, Held
    <3> QED BY <2>1, <3>1, <3>3, <3>4, Zenon DEF StepInv, Claims
  <2> QED BY <2>2, <2>3, <2>4, <2>5, <2>6, Steps, Zenon
<1> QED BY <1>1, <1>2, Zenon DEF PrinterInv

LEMMA PrinterAlways == Spec => []PrinterInv
BY PrinterInitially, PrinterKept, PTL DEF Spec

-----------------------------------------------------------------------------
(* In an orderly use NewChannel lets one source at a time add logs of a     *)
(* vertex to a display: ValidateLogSource decides before the status is      *)
(* written, and the claim it relied on still stands when the display        *)
(* receives it, so two sources that are shown have not both stayed.         *)
THEOREM OneSourceShown == Spec => []OneSource
<1>1. PrinterInv => OneSource
  BY Zenon DEF PrinterInv, TypeInv, StepInv, Claims, OneSource
<1> QED BY <1>1, PrinterAlways, PTL

(* In an orderly use nobody sends to the closed status channel or closes it *)
(* again, Unpause closes no nil or closed channel, and Wait unlocks no      *)
(* closeOnce but its own: calls of the command and of any number of reloads *)
(* in any number of terminals included.                                     *)
THEOREM NobodyPanics == Spec => []NoPanics
<1>1. PrinterInv => NoPanics
  BY Zenon DEF PrinterInv, StepInv, NoPanics
<1> QED BY <1>1, PrinterAlways, PTL

(* No line that is logged is lost, repeated or overtaken, in any use.  In   *)
(* an orderly one no writer of logutil holds lines back between Pause and   *)
(* Unpause and after Wait.  While the display draws, nothing that is logged *)
(* reaches the terminal: PauseLogs has put a writer in front before the     *)
(* display begins.                                                          *)
THEOREM LogsComeOut == Spec => LogsKept
<1>1. PrinterInv /\ [Next]_vars => [printer = "display" => stderr' = stderr]_vars
  <2> SUFFICES ASSUME PrinterInv, [Next]_vars, printer = "display" PROVE stderr' = stderr
    BY Zenon
  <2>1. CASE Log
    <3>1. /\ buffers \in Seq(BOOLEAN \X Seq(Nat)) /\ logged \in Nat /\ Len(buffers) # 0
          /\ Active(buffers) = {Len(buffers)}
      BY Zenon DEF PrinterInv, LogsInv, Holding
    <3>2. <<logged + 1>> \in Seq(Nat)
      BY <3>1
    <3> QED BY <2>1, <3>1, <3>2, Delivered, Zenon DEF Log
  <2>2. CASE PauseLogs \/ ResumeLogs
    BY <2>2, Zenon DEF PauseLogs, ResumeLogs, Goto
  <2> QED BY <2>1, <2>2, LogsRest, Zenon DEF logVars
<1>2. PrinterInv => (Orderly /\ AtRest => Active(buffers) = {})
  <2> SUFFICES ASSUME PrinterInv, Orderly, AtRest PROVE Active(buffers) = {}
    BY Zenon
  <2>1. PICK d \in Users : Driver(d) /\ Drives(d)
    BY Zenon DEF PrinterInv, StepInv
  <2>2. user[d] \in {"paused", "waited", "issued"}
    BY <2>1, Zenon DEF AtRest, Drives, Users
  <2>3. printer \in Resting \cup {"ended"}
    BY <2>1, <2>2, Zenon DEF Drives, Resting
  <2> QED BY <2>3, Zenon DEF PrinterInv, LogsInv, Holding, Resting
<1>3. PrinterInv => \A i \in DOMAIN buffers : i # Len(buffers) => buffers[i][2] = <<>>
  BY Zenon DEF PrinterInv, LogsInv, LinesInv, Active
<1>4. PrinterInv => stderr \o buffers[Len(buffers)][2] = [n \in 1..logged |-> n]
  BY Zenon DEF PrinterInv, LinesInv
<1> QED BY <1>1, <1>2, <1>3, <1>4, PrinterAlways, PTL DEF Spec, LogsKept
=============================================================================
