---------------------------- MODULE RemoteServer ----------------------------
(***************************************************************************)
(* The build server (controller/remote/server.go) and what its client      *)
(* waits for (controller/remote/client.go): sessions, the Build, Status,    *)
(* Disconnect and Invoke calls on them, the results builds leave open and   *)
(* the processes started from these results.                                *)
(*                                                                         *)
(* Every client build b makes one Build call and one Status call on the     *)
(* same session ID.  b also names what the Build call makes: its status     *)
(* channel, its process manager, its result handle and, when the ID is      *)
(* unknown, its session object.                                             *)
(***************************************************************************)
EXTENDS Naturals

CONSTANTS Build,        \* client builds
          SessionID,
          IDs,          \* IDs[b]: the session IDs build b may use
          Invoke,       \* Invoke calls
          Watched,      \* the builds whose client also makes the Status call
          Interruptible,\* the builds whose client may be interrupted
          MaxStatus,    \* bound on the status messages of a build
          None

ASSUME ServerAssumption ==
    /\ IDs \in [Build -> SUBSET SessionID] 
    /\ Watched \subseteq Build /\ Interruptible \subseteq Build
    /\ MaxStatus \in Nat \ {0}
    /\ None \notin Build \cup SessionID

VARIABLES table,     \* m.session: the session object under each ID
          session,   \* the fields of every session object
          mu,        \* sessionMu: the ID whose Disconnect holds it, or None
          call,      \* Build calls: where they are, ID, object, reply, messages sent
          status,    \* Status calls: "waiting", a channel, "eof" or "broken"
          client,    \* what the client knows: "run", "ok" or "err"
          handle,    \* result handles: "none", "open" or "done"
          proc,      \* Invoke calls and the process each has started
          disturbed, \* objects a build of an earlier session wrote to
          cut,       \* builds disconnected before they recorded their result
          unseen,    \* builds disconnected before Status found their channel
          panicked   \* an Invoke call has brought the server down

vars == <<table, session, mu, call, status, client, handle, proc, disturbed,
          cut, unseen, panicked>>
ghosts == <<disturbed, cut, unseen, panicked>>

Fields == [ongoing : BOOLEAN, statusChan : Build \cup {None},
           result : Build \cup {None}, manager : Build \cup {None}]
NoFields == [ongoing |-> FALSE, statusChan |-> None, result |-> None,
             manager |-> None]

NoCall == [pc |-> "idle", id |-> None, obj |-> None, reply |-> "none", sent |-> 0]
NoProc == [pc |-> "idle", obj |-> None, manager |-> None, handle |-> None]

inProgress(b) == call[b].pc \in {"building", "writing", "returned", "recorded", "closed"}

(* CancelRunningProcesses of a manager; the processes of a handle end when  *)
(* Done runs its cleanups.                                                  *)
ended(P) == [i \in Invoke |-> IF i \in P THEN [proc[i] EXCEPT !.pc = "ended"]
                                         ELSE proc[i]]
processesOf(m) == {i \in Invoke : proc[i].pc = "run" /\ proc[i].manager = m}
processesFrom(h) == {i \in Invoke : proc[i].pc = "run" /\ proc[i].handle = h}

-----------------------------------------------------------------------------
(* Build, first part: take the session of the ID, or make one.              *)
BuildStartUnguarded(b) ==   \* mutant: no check for an ongoing build
    LET id  == call[b].id
        new == table[id] = None
        o   == IF new THEN b ELSE table[id]
    IN  /\ mu = None
        /\ client[b] = "run" /\ call[b].pc = "idle"
        /\ proc' = IF new THEN proc ELSE ended(processesOf(session[o].manager))
        /\ table' = [table EXCEPT ![id] = o]
        /\ session' = [session EXCEPT ![o] = [ongoing |-> TRUE, statusChan |-> b,
                                              result |-> None, manager |-> b]]
        /\ call' = [call EXCEPT ![b].pc = "building", ![b].obj = o]
        /\ UNCHANGED <<mu, status, client, handle, ghosts>>

BuildStart(b) ==
    LET id  == call[b].id
        new == table[id] = None
        o   == IF new THEN b ELSE table[id]
    IN  /\ mu = None
        /\ client[b] = "run" /\ call[b].pc = "idle"
        /\ new \/ ~session[o].ongoing
        /\ proc' = IF new THEN proc ELSE ended(processesOf(session[o].manager))
        /\ table' = [table EXCEPT ![id] = o]
        /\ session' = [session EXCEPT ![o] = [ongoing |-> TRUE, statusChan |-> b,
                                              result |-> None, manager |-> b]]
        /\ call' = [call EXCEPT ![b].pc = "building", ![b].obj = o]
        /\ UNCHANGED <<mu, status, client, handle, ghosts>>

BuildOngoing(b) ==
    /\ mu = None
    /\ client[b] = "run" /\ call[b].pc = "idle"
    /\ table[call[b].id] # None /\ session[table[call[b].id]].ongoing
    /\ call' = [call EXCEPT ![b].pc = "done", ![b].reply = "err"]
    /\ UNCHANGED <<table, session, mu, status, client, handle, proc, ghosts>>

(* buildFunc sends status messages on the unbuffered channel of its call    *)
(* until it returns; a successful build has sent at least one.              *)
WriteStatus(b) ==
    /\ call[b].pc = "building" /\ call[b].sent < MaxStatus
    /\ call' = [call EXCEPT ![b].pc = "writing"]
    /\ UNCHANGED <<table, session, mu, status, client, handle, proc, ghosts>>

BuildReturns(b) ==
    /\ call[b].pc = "building"
    /\ \E reply \in {"ok", "err"}, h \in {"none", "open"} :
          /\ reply = "ok" => call[b].sent > 0
          /\ call' = [call EXCEPT ![b].pc = "returned", ![b].reply = reply]
          /\ handle' = [handle EXCEPT ![b] = h]
    /\ UNCHANGED <<table, session, mu, status, client, proc, ghosts>>

recordOnSuccess(b) ==           \* mutant: the result of a failed build is dropped
    LET o == table[call[b].id]
    IN  /\ mu = None
        /\ call[b].pc = "returned"
        /\ call' = [call EXCEPT ![b].pc = "recorded",
                                ![b].reply = IF o = None THEN "err" ELSE @]
        /\ session' = IF o # None /\ handle[b] = "open" /\ call[b].reply = "ok"
                      THEN [session EXCEPT ![o].result = b] ELSE session
        /\ UNCHANGED <<table, mu, status, client, handle, proc, ghosts>>

(* Build, second part: the result goes to the session that is now under     *)
(* the ID, if there is one.                                                 *)
Record(b) ==
    LET o == table[call[b].id]
    IN  /\ mu = None
        /\ call[b].pc = "returned"
        /\ call' = [call EXCEPT ![b].pc = "recorded",
                                ![b].reply = IF o = None THEN "err" ELSE @]
        /\ session' = IF o # None /\ handle[b] = "open"
                      THEN [session EXCEPT ![o].result = b] ELSE session
        /\ disturbed' = IF o \notin {None, call[b].obj} /\ handle[b] = "open"
                        THEN disturbed \cup {o} ELSE disturbed
        /\ UNCHANGED <<table, mu, status, client, handle, proc, cut, unseen, panicked>>

leaveOpen(b) ==                 \* mutant: the status channel stays open
    /\ call[b].pc = "recorded"
    /\ call' = [call EXCEPT ![b].pc = "closed"]
    /\ UNCHANGED <<table, session, mu, status, client, handle, proc, ghosts>>

(* Build, deferred part: close the channel, which ends the Status calls     *)
(* that read it, and, under the lock, reset the session that is now under   *)
(* the ID.                                                                  *)
CloseStatus(b) ==
    /\ call[b].pc = "recorded"
    /\ call' = [call EXCEPT ![b].pc = "closed"]
    /\ status' = [c \in Build |-> IF status[c] = b THEN "eof" ELSE status[c]]
    /\ UNCHANGED <<table, session, mu, client, handle, proc, ghosts>>

Finish(b) ==
    LET o == table[call[b].id]
    IN  /\ mu = None
        /\ call[b].pc = "closed"
        /\ call' = [call EXCEPT ![b].pc = "done"]
        /\ session' = IF o = None THEN session
                      ELSE [session EXCEPT ![o].statusChan = None,
                                           ![o].ongoing = FALSE]
        /\ disturbed' = IF o \notin {None, call[b].obj}
                        THEN disturbed \cup {o} ELSE disturbed
        /\ UNCHANGED <<table, mu, status, client, handle, proc, cut, unseen, panicked>>

-----------------------------------------------------------------------------
(* Status: poll until the session of the ID has a channel, then forward.    *)
(* The poll does not notice that its client has gone, and a channel that is *)
(* closed and not yet reset ends it at once.                                *)
StatusFinds(b) ==
    /\ mu = None
    /\ status[b] = "waiting"
    /\ LET o == table[call[b].id]
       IN  /\ o # None /\ session[o].statusChan # None
           /\ status' = [status EXCEPT ![b] =
                 IF call[session[o].statusChan].pc \in {"closed", "done"}
                 THEN "eof" ELSE session[o].statusChan]
    /\ UNCHANGED <<table, session, mu, call, client, handle, proc, ghosts>>

(* A message passes from the build to one of the Status calls that read its *)
(* channel.  When that call's client has gone, Send fails and the Status    *)
(* call returns; the message is lost.                                       *)
Forward(b, c) ==
    /\ call[b].pc = "writing" /\ status[c] = b
    /\ call' = [call EXCEPT ![b].pc = "building", ![b].sent = @ + 1]
    /\ status' = IF client[c] = "run" THEN status
                 ELSE [status EXCEPT ![c] = "broken"]
    /\ UNCHANGED <<table, session, mu, client, handle, proc, ghosts>>

(* Disconnect, in two parts because starting a process needs no lock:       *)
(* cancel the processes; then Done on the result, which ends what was       *)
(* started meanwhile, and remove the session.  cancelBuild is left out: it   *)
(* is only ever set to the cancel function of a call that has returned.     *)
DisconnectBegin(id) ==
    /\ mu = None /\ table[id] # None
    /\ mu' = id
    /\ proc' = ended(processesOf(session[table[id]].manager))
    /\ UNCHANGED <<table, session, call, status, client, handle, ghosts>>

disconnectKeepsResult(id) ==    \* mutant: Done is not called
    LET o == table[id]
    IN  /\ mu = id
        /\ mu' = None
        /\ table' = [table EXCEPT ![id] = None]
        /\ UNCHANGED <<session, call, status, client, handle, proc, ghosts>>

DisconnectEnd(id) ==
    LET o == table[id]
        h == session[o].result
        on == {b \in Build : inProgress(b) /\ call[b].id = id}
    IN  /\ mu = id
        /\ mu' = None
        /\ table' = [table EXCEPT ![id] = None]
        /\ handle' = IF h = None THEN handle ELSE [handle EXCEPT ![h] = "done"]
        /\ proc' = IF h = None THEN proc ELSE ended(processesFrom(h))
        /\ cut' = cut \cup {b \in on : call[b].pc \notin {"recorded", "closed"}}
        /\ unseen' = unseen \cup {b \in on : status[b] = "waiting"}
        /\ UNCHANGED <<session, call, status, client, disturbed, panicked>>

-----------------------------------------------------------------------------
(* Invoke: look up the session under the lock, read its manager and its     *)
(* result without it, start the process.                                    *)
InvokeFinds(i, id) ==
    /\ mu = None
    /\ proc[i].pc = "idle"
    /\ table[id] # None
    /\ proc' = [proc EXCEPT ![i] = [NoProc EXCEPT !.pc = "found", !.obj = table[id]]]
    /\ UNCHANGED <<table, session, mu, call, status, client, handle, ghosts>>

InvokeReads(i) ==
    /\ proc[i].pc = "found"
    /\ proc' = [proc EXCEPT ![i].pc = "reads",
                            ![i].manager = session[proc[i].obj].manager,
                            ![i].handle = session[proc[i].obj].result]
    /\ UNCHANGED <<table, session, mu, call, status, client, handle, ghosts>>

StartProcess(i) ==
    /\ proc[i].pc = "reads" /\ proc[i].handle # None
    /\ proc' = [proc EXCEPT ![i].pc = IF handle[proc[i].handle] = "open" THEN "run"
                                      ELSE "ended"]
    /\ UNCHANGED <<table, session, mu, call, status, client, handle, ghosts>>

ProcessExits(i) ==
    /\ proc[i].pc = "run"
    /\ proc' = ended({i})
    /\ UNCHANGED <<table, session, mu, call, status, client, handle, ghosts>>

(* StartProcess without a result: NewContainer dereferences nil in a        *)
(* goroutine of its own, and the server process ends with all it held.      *)
StartPanics(i) ==
    /\ proc[i].pc = "reads" /\ proc[i].handle = None
    /\ panicked' = TRUE
    /\ table' = [id \in SessionID |-> None]
    /\ session' = [b \in Build |-> NoFields]
    /\ mu' = None
    /\ call' = [b \in Build |-> IF inProgress(b)
                                THEN [call[b] EXCEPT !.pc = "done", !.reply = "err"]
                                ELSE call[b]]
    /\ status' = [b \in Build |-> IF status[b] \in Build \cup {"waiting"}
                                  THEN "broken" ELSE status[b]]
    /\ handle' = [b \in Build |-> IF handle[b] = "open" THEN "done" ELSE handle[b]]
    /\ proc' = ended({j \in Invoke : proc[j].pc # "idle"})
    /\ UNCHANGED <<client, disturbed, cut, unseen>>

-----------------------------------------------------------------------------
(* The client: build makes both calls and waits for both; an error of one   *)
(* cancels the other.  It may also be interrupted.                          *)
ClientBuild(b) ==
    /\ client[b] = "idle"
    /\ \E id \in IDs[b] : call' = [call EXCEPT ![b].id = id]
    /\ client' = [client EXCEPT ![b] = "run"]
    /\ status' = [status EXCEPT ![b] = IF b \in Watched THEN "waiting" ELSE @]
    /\ UNCHANGED <<table, session, mu, handle, proc, ghosts>>

ClientReturns(b) ==
    /\ client[b] = "run"
    /\ \/ /\ status[b] = "broken" \/ (call[b].pc = "done" /\ call[b].reply = "err")
          /\ client' = [client EXCEPT ![b] = "err"]
       \/ /\ call[b].pc = "done" /\ call[b].reply = "ok" /\ status[b] = "eof"
          /\ client' = [client EXCEPT ![b] = "ok"]
    /\ UNCHANGED <<table, session, mu, call, status, handle, proc, ghosts>>

Interrupt(b) ==
    /\ b \in Interruptible
    /\ client[b] = "run"
    /\ client' = [client EXCEPT ![b] = "err"]
    /\ UNCHANGED <<table, session, mu, call, status, handle, proc, ghosts>>

Init ==
    /\ table = [id \in SessionID |-> None]
    /\ session = [b \in Build |-> NoFields]
    /\ mu = None
    /\ call = [b \in Build |-> NoCall]
    /\ status = [b \in Build |-> "none"]
    /\ client = [b \in Build |-> "idle"]
    /\ handle = [b \in Build |-> "none"]
    /\ proc = [i \in Invoke |-> NoProc]
    /\ disturbed = {} /\ cut = {} /\ unseen = {}
    /\ panicked = FALSE

BuildStep(b) ==
    \/ BuildStart(b) \/ BuildOngoing(b)
    \/ WriteStatus(b) \/ BuildReturns(b) \/ Record(b)
    \/ CloseStatus(b) \/ Finish(b)

Next ==
    \/ \E b \in Build : \/ BuildStep(b) \/ StatusFinds(b)
                        \/ \E c \in Build : Forward(b, c)
                        \/ ClientBuild(b) \/ ClientReturns(b) \/ Interrupt(b)
    \/ \E id \in SessionID : DisconnectBegin(id) \/ DisconnectEnd(id)
    \/ \E i \in Invoke :
          \/ \E id \in SessionID : InvokeFinds(i, id)
          \/ InvokeReads(i) \/ StartProcess(i) \/ StartPanics(i) \/ ProcessExits(i)

(* The server and the client run on, a build ends, and a Disconnect that    *)
(* holds the mutex gives it up.                                             *)
Fairness ==
    /\ \A b \in Build :
          /\ WF_vars(BuildStep(b)) /\ WF_vars(StatusFinds(b))
          /\ WF_vars(\E c \in Build : Forward(b, c)) /\ WF_vars(ClientReturns(b))
    /\ \A id \in SessionID : WF_vars(DisconnectEnd(id))

Spec == Init /\ [][Next]_vars
FairSpec == Spec /\ Fairness

-----------------------------------------------------------------------------
(* "build ongoing": one session has one build at a time.  The guard is per  *)
(* object and the reset per ID, so a build that outlives its session may    *)
(* reset the guard of the next session under the ID: those are excepted.    *)
OneBuildPerSession ==
    \A b, c \in Build :
        b # c /\ inProgress(b) /\ inProgress(c) /\ call[b].obj = call[c].obj =>
            call[b].obj \in disturbed

held(h) ==
    \/ inProgress(h) /\ call[h].pc = "returned"
    \/ \E id \in SessionID : table[id] # None /\ session[table[id]].result = h

(* No other build uses the session ID of b: the client gives every build an *)
(* ID of its own.                                                           *)
alone(b) == \A c \in Build \ {b} : call[c].id # call[b].id

(* The server keeps every result a build left open where Disconnect finds   *)
(* it, also when the build failed, unless the session was disconnected      *)
(* before the build could record the result.  A second build under an ID    *)
(* would drop the first result: those are excepted.                         *)
ResultsHeld == \A h \in Build : handle[h] = "open" /\ alone(h) /\ h \notin cut => held(h)

(* "If the returned ResultHandle is not nil, the caller must call Done()    *)
(* on it": no result is forgotten while it is open.                         *)
NoResultForgotten == \A h \in Build : handle[h] = "open" => held(h)

(* A process never outlives its session: when no Disconnect is under way,   *)
(* a process running from the session of a single build is in the manager   *)
(* of a session that can be listed and disconnected.                        *)
ProcessesBelong ==
    mu = None => \A i \in Invoke : proc[i].pc = "run" /\ alone(proc[i].obj) =>
        \E id \in SessionID :
            table[id] # None /\ session[table[id]].manager = proc[i].manager

(* The client's build returns, whatever others do to the server: an error   *)
(* ends both calls, and success closes the status stream.  Someone has to   *)
(* read the status of the build; excepted are builds whose session was      *)
(* disconnected before Status found its channel: their first status message *)
(* has no reader.                                                           *)
BuildsReturn ==
    \A b \in Watched : client[b] = "run" ~> (client[b] # "run" \/ b \in unseen)

(* Invoke: "If there is no container running or InvokeConfig.Rollback is    *)
(* speicfied, the process will start in a newly created container."  It     *)
(* does not bring the server down.                                          *)
InvokeDoesNotPanic == ~panicked
=============================================================================
