------------------------- MODULE RemoteServerProofs -------------------------
(***************************************************************************)
(* The invariant of RemoteServer, for any builds, session IDs and Invoke   *)
(* calls and whichever IDs the builds use.  First the steps that neither add*)
(* nor remove a session: those of Build calls after their first part, of   *)
(* Status and of Invoke.  Then those that add and remove sessions and IDs. *)
(* So every state has one build per session, results held until Disconnect,*)
(* and processes that do not outlive their session.                        *)
(***************************************************************************)
EXTENDS RemoteServer, TLAPS

Pcs == {"idle", "building", "writing", "returned", "recorded", "closed", "done"}
Replies == {"none", "ok", "err"}
Calls == [pc : Pcs, id : SessionID \cup {None}, obj : Build \cup {None},
          reply : Replies, sent : Nat]
Procs == [pc : {"idle", "found", "reads", "run", "ended"}, obj : Build \cup {None},
          manager : Build \cup {None}, handle : Build \cup {None}]

Typed ==
    /\ table \in [SessionID -> Build \cup {None}]
    /\ session \in [Build -> Fields]
    /\ mu \in SessionID \cup {None}
    /\ call \in [Build -> Calls]
    /\ client \in [Build -> {"idle", "run", "ok", "err"}]
    /\ handle \in [Build -> {"none", "open", "done"}]
    /\ proc \in [Invoke -> Procs]
    /\ disturbed \subseteq Build /\ cut \subseteq Build

started(b) == call[b].pc # "idle"
recorded(b) == call[b].pc \in {"recorded", "closed", "done"}

(* A session object is made by a Build call that has started, and is only   *)
(* ever under the ID of that call.  Results are those of builds that have   *)
(* recorded them.                                                           *)
Made ==
    /\ \A b \in Build : client[b] # "idle" => call[b].id \in SessionID
    /\ \A b \in Build : client[b] = "idle" => call[b].id = None
    /\ \A b \in Build : started(b) => client[b] # "idle"
    /\ \A b \in Build : inProgress(b) => call[b].obj \in Build
    /\ \A b \in Build : call[b].obj # None => started(call[b].obj)
    /\ \A id \in SessionID : table[id] # None =>
          started(table[id]) /\ call[table[id]].id = id
    /\ \A b \in cut : started(b)
    /\ \A b \in Build : handle[b] # "none" => call[b].pc = "returned" \/ recorded(b)
    /\ \A o \in Build : session[o].result # None => recorded(session[o].result)
    /\ mu # None => table[mu] # None

(* While a build is in progress the guard of its session is up, unless a    *)
(* build of an earlier session under the ID took it down.                   *)
Guarded ==
    /\ \A b \in Build : inProgress(b) /\ call[b].obj \notin disturbed =>
          session[call[b].obj].ongoing
    /\ OneBuildPerSession

(* A build that has its ID to itself finds its own session under it, until  *)
(* a Disconnect, and leaves its own result there.                           *)
Keeps(b) ==
    /\ b \notin cut /\ call[b].pc \in {"building", "writing", "returned"} =>
          table[call[b].id] = b
    /\ b \notin cut /\ recorded(b) /\ handle[b] = "open" =>
          table[call[b].id] = b /\ session[b].result = b
    /\ b \in cut => table[call[b].id] = None
    /\ session[b].result = None \/ (session[b].result = b /\ recorded(b) /\ b \notin cut)
    /\ table[call[b].id] = b => session[b].manager = b

Kept == \A b \in Build : started(b) /\ alone(b) => Keeps(b)

(* Invoke on such a session reads the session's own manager and result, and *)
(* its process runs only while the result is open.                          *)
Reads(i) ==
    LET o == proc[i].obj
    IN  /\ proc[i].pc = "found" => session[o].manager = o
        /\ proc[i].pc \in {"reads", "run"} =>
              /\ proc[i].manager = o /\ proc[i].handle \in {None, o}
              /\ proc[i].handle = o => session[o].result = o
        /\ proc[i].pc = "run" => proc[i].handle = o /\ handle[o] = "open"

Ran ==
    \A i \in Invoke : proc[i].pc \in {"found", "reads", "run"} =>
        /\ proc[i].obj \in Build /\ started(proc[i].obj)
        /\ alone(proc[i].obj) => Reads(i)

IInv == Typed /\ Made /\ Guarded /\ Kept /\ Ran

-----------------------------------------------------------------------------
(* Where a Build call may move to without any other state changing: from    *)
(* "building" to "writing" and back, and from "recorded" to "closed".       *)
quiet(b) ==
    \/ call'[b].pc = call[b].pc
    \/ call[b].pc \in {"building", "writing"} /\ call'[b].pc \in {"building", "writing"}
    \/ call[b].pc = "recorded" /\ call'[b].pc = "closed"

(* No call changes its ID or its session object.                            *)
sameNames == \A b \in Build : call'[b].id = call[b].id /\ call'[b].obj = call[b].obj

(* With the same IDs, the same builds have their ID to themselves.          *)
LEMMA SameAlone ==
    ASSUME sameNames, NEW b \in Build PROVE alone(b)' <=> alone(b)
BY Zenon DEF sameNames, alone

(* Under the ID of a build that is alone there is its own session or none.  *)
LEMMA OwnTable ==
    ASSUME Typed, Made, NEW b \in Build, started(b), alone(b)
    PROVE  call[b].id \in SessionID /\ table[call[b].id] \in {None, b}
BY DEF Typed, Made, alone

(* A session found under the ID of any build is that of a started build,    *)
(* which is alone only if it is that build.                                 *)
LEMMA FoundTable ==
    ASSUME Typed, Made, NEW b \in Build, client[b] # "idle",
           NEW o, o = table[call[b].id], o # None
    PROVE  /\ o \in Build /\ started(o) /\ call[o].id = call[b].id
           /\ alone(o) \/ alone(b) => o = b
BY DEF Typed, Made, alone

(* Steps that only move a call quietly, or change what clients know.        *)
LEMMA QuietInv ==
    ASSUME Typed, Made, Guarded, Kept, Ran, sameNames, \A b \in Build : quiet(b),
           call' \in [Build -> Calls],
           client' \in [Build -> {"idle", "run", "ok", "err"}],
           \A b \in Build : client[b] # "idle" <=> client'[b] # "idle",
           UNCHANGED <<table, session, mu, handle, proc, disturbed, cut>>
    PROVE  IInv'
<1>1. Typed'
  BY Zenon DEF Typed
<1>2. ASSUME NEW b \in Build
      PROVE  /\ call'[b].pc = "idle" <=> call[b].pc = "idle"
             /\ call'[b].pc = "returned" <=> call[b].pc = "returned"
             /\ call'[b].pc \in {"building", "writing"} <=> call[b].pc \in {"building", "writing"}
             /\ call'[b].pc \in {"recorded", "closed"} <=> call[b].pc \in {"recorded", "closed"}
             /\ call'[b].pc = "done" <=> call[b].pc = "done"
             /\ call'[b].id = call[b].id /\ call'[b].obj = call[b].obj
  BY Zenon DEF quiet, sameNames
<1>3. Made'
  <2>1. \A o \in Build : session[o].result # None =>
           call'[session[o].result].pc \in {"recorded", "closed", "done"}
    BY <1>2 DEF Made, Typed, Fields, recorded
  <2> QED
    BY <1>2, <2>1 DEF Made, Typed, Calls, started, recorded, inProgress
<1>4. Guarded'
  BY <1>2 DEF Guarded, OneBuildPerSession, inProgress
<1>5. Kept'
  <2> SUFFICES ASSUME NEW b \in Build, started(b)', alone(b)' PROVE Keeps(b)'
    BY Zenon DEF Kept
  <2>1. Keeps(b)
    BY <1>2, SameAlone, Zenon DEF Kept, started
  <2> QED
    BY <1>2, <2>1, Zenon DEF Keeps, recorded
<1>6. Ran'
  <2> SUFFICES ASSUME NEW i \in Invoke, proc[i].pc \in {"found", "reads", "run"}
               PROVE  /\ proc[i].obj \in Build /\ started(proc[i].obj)'
                      /\ alone(proc[i].obj)' => Reads(i)'
    BY Zenon DEF Ran
  <2>1. proc[i].obj \in Build /\ started(proc[i].obj)
    BY Zenon DEF Ran
  <2>2. PICK o \in Build : o = proc[i].obj
    BY <2>1, Zenon
  <2>3. alone(o)' => alone(o)
    BY SameAlone, Zenon
  <2>4. started(o)' /\ (alone(o) => Reads(i))
    BY <1>2, <2>1, <2>2, Zenon DEF Ran, started
  <2> QED
    BY <2>2, <2>3, <2>4, Zenon DEF Reads, alone, started
<1> QED
  BY <1>1, <1>3, <1>4, <1>5, <1>6, Zenon DEF IInv

LEMMA WriteStatusInv ==
    ASSUME Typed, Made, Guarded, Kept, Ran, NEW b \in Build, WriteStatus(b)
    PROVE  IInv'
<1>1. call' \in [Build -> Calls] /\ sameNames /\ \A c \in Build : quiet(c)
  BY DEF Typed, Calls, Pcs, WriteStatus, sameNames, quiet
<1> QED
  BY <1>1, QuietInv, Zenon DEF WriteStatus, ghosts, Typed

LEMMA ForwardInv ==
    ASSUME Typed, Made, Guarded, Kept, Ran, NEW b \in Build, NEW c \in Build, Forward(b, c)
    PROVE  IInv'
<1>1. call' \in [Build -> Calls] /\ sameNames /\ \A d \in Build : quiet(d)
  BY DEF Typed, Calls, Pcs, Forward, sameNames, quiet
<1> QED
  BY <1>1, QuietInv, Zenon DEF Forward, ghosts, Typed

LEMMA CloseStatusInv ==
    ASSUME Typed, Made, Guarded, Kept, Ran, NEW b \in Build, CloseStatus(b)
    PROVE  IInv'
<1>1. call' \in [Build -> Calls] /\ sameNames /\ \A c \in Build : quiet(c)
  BY DEF Typed, Calls, Pcs, CloseStatus, sameNames, quiet
<1> QED
  BY <1>1, QuietInv, Zenon DEF CloseStatus, ghosts, Typed

LEMMA ClientInv ==
    ASSUME Typed, Made, Guarded, Kept, Ran, NEW b \in Build,
           StatusFinds(b) \/ ClientReturns(b) \/ Interrupt(b)
    PROVE  IInv'
<1>1. call' = call /\ UNCHANGED <<table, session, mu, handle, proc, disturbed, cut>>
  BY Zenon DEF StatusFinds, ClientReturns, Interrupt, ghosts
<1>2. call' \in [Build -> Calls] /\ sameNames /\ \A c \in Build : quiet(c)
  BY <1>1, Zenon DEF Typed, sameNames, quiet
<1>3. /\ client' \in [Build -> {"idle", "run", "ok", "err"}]
      /\ \A c \in Build : client[c] # "idle" <=> client'[c] # "idle"
  BY Zenon DEF Typed, StatusFinds, ClientReturns, Interrupt
<1> QED
  BY <1>1, <1>2, <1>3, QuietInv, Zenon

-----------------------------------------------------------------------------
(* Ending processes leaves a process as it is or ends it.                   *)
LEMMA EndedProcs ==
    ASSUME Typed, NEW P
    PROVE  /\ ended(P) \in [Invoke -> Procs]
           /\ \A i \in Invoke : ended(P)[i] = proc[i] \/ ended(P)[i].pc = "ended"
           /\ \A i \in P \cap Invoke : ended(P)[i].pc = "ended"
BY DEF Typed, Procs, ended

(* Steps that change processes and the mutex only: what the invariant says   *)
(* of the rest is untouched.                                                *)
LEMMA ProcsInv ==
    ASSUME Typed, Made, Guarded, Kept, Ran,
           UNCHANGED <<table, session, call, client, handle, disturbed, cut>>,
           mu' \in SessionID \cup {None}, mu' # None => table[mu'] # None,
           proc' \in [Invoke -> Procs],
           \A i \in Invoke :
              \/ proc'[i] = proc[i] \/ proc'[i].pc = "ended"
              \/ /\ proc'[i].obj \in Build /\ started(proc'[i].obj)
                 /\ alone(proc'[i].obj) => Reads(i)'
    PROVE  IInv'
<1>1. Typed'
  BY Zenon DEF Typed
<1>2. Made'
  BY Zenon DEF Made, started, recorded, inProgress
<1>3. Guarded'
  BY Zenon DEF Guarded, OneBuildPerSession, inProgress
<1>4. Kept'
  BY DEF Kept, Keeps, alone, started, recorded
<1>5. Ran'
  <2> SUFFICES ASSUME NEW i \in Invoke, (proc[i].pc \in {"found", "reads", "run"})'
               PROVE  (/\ proc[i].obj \in Build /\ started(proc[i].obj)
                       /\ alone(proc[i].obj) => Reads(i))'
    BY Zenon DEF Ran
  <2>1. CASE proc'[i] = proc[i]
    BY <2>1 DEF Ran, Reads, started, alone
  <2>2. CASE proc'[i] # proc[i]
    BY <2>2, Zenon DEF started, alone
  <2> QED
    BY <2>1, <2>2, Zenon
<1> QED
  BY <1>1, <1>2, <1>3, <1>4, <1>5, Zenon DEF IInv

LEMMA DisconnectBeginInv ==
    ASSUME Typed, Made, Guarded, Kept, Ran, NEW id \in SessionID, DisconnectBegin(id)
    PROVE  IInv'
<1> PICK P : P = processesOf(session[table[id]].manager)
  BY Zenon
<1>1. proc' = ended(P)
  BY Zenon DEF DisconnectBegin
<1>2. /\ proc' \in [Invoke -> Procs]
      /\ \A i \in Invoke : proc'[i] = proc[i] \/ proc'[i].pc = "ended"
  BY <1>1, EndedProcs, Zenon
<1>3. mu' = id /\ table[id] # None
      /\ UNCHANGED <<table, session, call, client, handle, disturbed, cut>>
  BY Zenon DEF DisconnectBegin, ghosts
<1> QED
  BY <1>2, <1>3, ProcsInv, Zenon

LEMMA ProcessExitsInv ==
    ASSUME Typed, Made, Guarded, Kept, Ran, NEW i \in Invoke, ProcessExits(i)
    PROVE  IInv'
<1>1. proc' = ended({i})
  BY Zenon DEF ProcessExits
<1>2. /\ proc' \in [Invoke -> Procs]
      /\ \A j \in Invoke : proc'[j] = proc[j] \/ proc'[j].pc = "ended"
  BY <1>1, EndedProcs, Zenon
<1>3. UNCHANGED <<table, session, mu, call, client, handle, disturbed, cut>>
  BY Zenon DEF ProcessExits, ghosts
<1>4. mu' \in SessionID \cup {None} /\ (mu' # None => table[mu'] # None)
  BY <1>3, Zenon DEF Typed, Made
<1> QED
  BY <1>2, <1>3, <1>4, ProcsInv, Zenon

(* Invoke finds the session of a started build, with its own manager when   *)
(* that build is alone.                                                     *)
LEMMA InvokeFindsInv ==
    ASSUME Typed, Made, Guarded, Kept, Ran, NEW i \in Invoke, NEW id \in SessionID, InvokeFinds(i, id)
    PROVE  IInv'
<1> UNCHANGED <<table, session, mu, call, client, handle, disturbed, cut>>
  BY Zenon DEF InvokeFinds, ghosts
<1>2. PICK o \in Build : o = table[id] /\ started(o) /\ call[o].id = id
  BY DEF Typed, Made, InvokeFinds
<1>3. /\ proc' \in [Invoke -> Procs]
      /\ proc'[i] = [pc |-> "found", obj |-> o, manager |-> None, handle |-> None]
      /\ \A j \in Invoke : j # i => proc'[j] = proc[j]
  BY <1>2, Zenon DEF InvokeFinds, Typed, Procs, NoProc
<1>4. alone(o) => session[o].manager = o
  BY <1>2, Zenon DEF Kept, Keeps
<1>5. alone(o) => Reads(i)'
  BY <1>3, <1>4 DEF Reads
<1>6. mu' \in SessionID \cup {None} /\ (mu' # None => table[mu'] # None)
  BY Zenon DEF Typed, Made
<1>7. \A j \in Invoke : proc'[j] = proc[j] \/ (/\ proc'[j].obj \in Build /\ started(proc'[j].obj)
                                               /\ alone(proc'[j].obj) => Reads(j)')
  BY <1>2, <1>3, <1>5
<1> QED
  BY <1>3, <1>6, <1>7, ProcsInv, Zenon

LEMMA InvokeReadsInv ==
    ASSUME Typed, Made, Guarded, Kept, Ran, NEW i \in Invoke, InvokeReads(i)
    PROVE  IInv'
<1> UNCHANGED <<table, session, mu, call, client, handle, disturbed, cut>>
  BY Zenon DEF InvokeReads, ghosts
<1>2. PICK o \in Build : /\ o = proc[i].obj /\ started(o)
                         /\ alone(o) => Reads(i)
  BY Zenon DEF Ran, InvokeReads
<1>3. session[o] \in Fields
  BY Zenon DEF Typed
<1>4. /\ proc' \in [Invoke -> Procs]
      /\ proc'[i].pc = "reads" /\ proc'[i].obj = o
      /\ proc'[i].manager = session[o].manager /\ proc'[i].handle = session[o].result
      /\ \A j \in Invoke : j # i => proc'[j] = proc[j]
  BY <1>2, <1>3, ZenonT(30) DEF InvokeReads, Typed, Procs, Fields
<1>5. ASSUME alone(o) PROVE Reads(i)'
  <2>1. session[o].manager = o
    BY <1>2, <1>5, Zenon DEF Reads, InvokeReads
  <2>2. session[o].result \in {None, o}
    BY <1>2, <1>5, Zenon DEF Kept, Keeps
  <2> QED
    BY <1>4, <2>1, <2>2, ServerAssumption, Zenon DEF Reads
<1>6. mu' \in SessionID \cup {None} /\ (mu' # None => table[mu'] # None)
  BY Zenon DEF Typed, Made
<1>7. \A j \in Invoke : proc'[j] = proc[j] \/ (/\ proc'[j].obj \in Build /\ started(proc'[j].obj)
                                               /\ alone(proc'[j].obj) => Reads(j)')
  BY <1>2, <1>4, <1>5, Zenon
<1> QED
  BY <1>4, <1>6, <1>7, ProcsInv, Zenon

LEMMA StartProcessInv ==
    ASSUME Typed, Made, Guarded, Kept, Ran, NEW i \in Invoke, StartProcess(i)
    PROVE  IInv'
<1> UNCHANGED <<table, session, mu, call, client, handle, disturbed, cut>>
  BY Zenon DEF StartProcess, ghosts
<1>2. PICK o \in Build : /\ o = proc[i].obj /\ started(o)
                         /\ alone(o) => Reads(i)
  BY Zenon DEF Ran, StartProcess
<1>3. /\ proc' \in [Invoke -> Procs]
      /\ proc'[i].pc = "ended" \/ (proc'[i].pc = "run" /\ handle[proc[i].handle] = "open")
      /\ proc'[i].obj = o
      /\ proc'[i].manager = proc[i].manager /\ proc'[i].handle = proc[i].handle
      /\ \A j \in Invoke : j # i => proc'[j] = proc[j]
  BY <1>2, Zenon DEF StartProcess, Typed, Procs
<1>4. ASSUME alone(o) PROVE Reads(i)'
  BY <1>2, <1>3, <1>4 DEF Reads, StartProcess
<1>5. mu' \in SessionID \cup {None} /\ (mu' # None => table[mu'] # None)
  BY Zenon DEF Typed, Made
<1>6. \A j \in Invoke : proc'[j] = proc[j] \/ (/\ proc'[j].obj \in Build /\ started(proc'[j].obj)
                                               /\ alone(proc'[j].obj) => Reads(j)')
  BY <1>2, <1>3, <1>4, Zenon
<1> QED
  BY <1>3, <1>5, <1>6, ProcsInv, Zenon

-----------------------------------------------------------------------------
(* What Invoke has read stays right in a step that neither starts a process *)
(* nor writes to the session or the handle of a build that is alone, other  *)
(* than to record its own result.                                           *)
LEMMA RanStep ==
    ASSUME Ran,
           \A i \in Invoke : proc'[i] = proc[i] \/ proc'[i].pc = "ended",
           \A o \in Build : started(o) =>
              /\ call'[o].pc # "idle"
              /\ alone(o)' => /\ alone(o)
                              /\ session'[o].manager = session[o].manager
                              /\ session[o].result = o => session'[o].result = o,
           \A i \in Invoke, o \in Build :
              proc'[i] = proc[i] /\ proc[i].pc = "run" /\ proc[i].obj = o /\ started(o)
                 /\ alone(o) /\ Reads(i) => handle'[o] = "open"
    PROVE  Ran'
<1> SUFFICES ASSUME NEW i \in Invoke, (proc[i].pc \in {"found", "reads", "run"})'
             PROVE  (/\ proc[i].obj \in Build /\ started(proc[i].obj)
                     /\ alone(proc[i].obj) => Reads(i))'
  BY Zenon DEF Ran
<1>1. proc'[i] = proc[i]
  BY Zenon
<1>2. PICK o \in Build : /\ o = proc[i].obj /\ started(o)
                         /\ alone(o) => Reads(i)
  BY <1>1, Zenon DEF Ran
<1>3. (started(proc[i].obj))' /\ proc'[i].obj = o
  BY <1>1, <1>2, Zenon DEF started
<1>4. ASSUME alone(o)' PROVE Reads(i)'
  <2>1. /\ alone(o) /\ session'[o].manager = session[o].manager
        /\ session[o].result = o => session'[o].result = o
    BY <1>2, <1>4, Zenon
  <2>2. Reads(i)
    BY <1>2, <2>1, Zenon
  <2>3. proc[i].pc = "run" => handle'[o] = "open"
    BY <1>1, <1>2, <2>1, <2>2, Zenon
  <2> QED
    BY <1>1, <1>2, <2>1, <2>2, <2>3, Zenon DEF Reads
<1>5. (alone(proc[i].obj))' => alone(o)'
  BY <1>3, Zenon DEF alone
<1> QED
  BY <1>3, <1>4, <1>5, Zenon

LEMMA RanSame ==
    ASSUME Ran, UNCHANGED <<proc, handle>>,
           \A o \in Build : started(o) =>
              /\ call'[o].pc # "idle"
              /\ alone(o)' => /\ alone(o)
                              /\ session'[o].manager = session[o].manager
                              /\ session[o].result = o => session'[o].result = o
    PROVE  Ran'
BY RanStep, Zenon DEF Reads

(* One call moves to pc, and keeps its names.                               *)
moves(b, pc) ==
    /\ call' \in [Build -> Calls] /\ sameNames /\ call'[b].pc = pc
    /\ \A c \in Build : c # b => call'[c] = call[c]

LEMMA MoveCall ==
    ASSUME Typed, NEW b \in Build, NEW pc \in Pcs, NEW reply \in Replies,
           call' = [call EXCEPT ![b].pc = pc, ![b].reply = reply]
    PROVE  moves(b, pc)
<1> PICK r : r = [call[b] EXCEPT !.pc = pc, !.reply = reply]
  BY Zenon
<1>1. call[b] \in Calls
  BY Zenon DEF Typed
<1>2. r \in Calls /\ r.pc = pc /\ r.id = call[b].id /\ r.obj = call[b].obj
  BY <1>1, Zenon DEF Calls
<1>3. call' = [call EXCEPT ![b] = r]
  BY Zenon DEF Typed
<1> QED
  BY <1>2, <1>3 DEF Typed, moves, sameNames

(* Calls only move onwards, and a result is that of a call that has         *)
(* recorded it.                                                             *)
onwards(b) ==
    /\ started(b) => call'[b].pc # "idle"
    /\ call'[b].pc # "idle" => client[b] # "idle"
    /\ inProgress(b)' => inProgress(b)
    /\ handle'[b] # "none" => call'[b].pc \in {"returned", "recorded", "closed", "done"}
    /\ recorded(b) => call'[b].pc \in {"recorded", "closed", "done"}
    /\ session'[b].result = session[b].result \/ call'[session'[b].result].pc = "recorded"

LEMMA MadeStep ==
    ASSUME Typed, Typed', Made, sameNames, UNCHANGED <<table, mu, client, cut>>,
           \A b \in Build : onwards(b)
    PROVE  Made'
<1> USE DEF onwards
<1>1. \A b \in Build : call'[b].id = call[b].id /\ call'[b].obj = call[b].obj
  BY Zenon DEF sameNames
<1>2. \A b \in Build : inProgress(b)' => call'[b].obj \in Build
  BY <1>1, Zenon DEF Made
<1>3. \A b \in Build : call'[b].obj # None => (call[b].obj \in Build /\ started(call[b].obj))
  BY <1>1 DEF Made, Typed, Calls
<1>4. \A id \in SessionID : table[id] # None =>
          table[id] \in Build /\ started(table[id]) /\ call[table[id]].id = id
  BY DEF Made, Typed
<1>5. \A b \in Build : IF client[b] = "idle" THEN call'[b].id = None
                                            ELSE call'[b].id \in SessionID
  BY <1>1 DEF Made
<1>6. \A b \in cut : call'[b].pc # "idle"
  BY Zenon DEF Made, Typed
<1>7. \A o \in Build : session'[o].result # None =>
          call'[session'[o].result].pc \in {"recorded", "closed", "done"}
  BY DEF Made, Typed, Fields
<1> QED
  BY <1>1, <1>2, <1>3, <1>4, <1>5, <1>6, <1>7 DEF Made, started, recorded

(* The second Build call of a session is turned away: its build is not      *)
(* alone.                                                                   *)
LEMMA BuildOngoingInv ==
    ASSUME Typed, Made, Guarded, Kept, Ran, NEW b \in Build, BuildOngoing(b)
    PROVE  IInv'
<1> UNCHANGED <<table, session, mu, client, handle, proc, disturbed, cut>>
  BY Zenon DEF BuildOngoing, ghosts
<1>2. /\ call' \in [Build -> Calls] /\ sameNames
      /\ call[b].pc = "idle" /\ call'[b].pc = "done"
      /\ \A c \in Build : c # b => call'[c] = call[c]
  <2> PICK pc \in Pcs, reply \in Replies : pc = "done" /\ reply = "err"
    BY Zenon DEF Pcs, Replies
  <2>1. call' = [call EXCEPT ![b].pc = pc, ![b].reply = reply] /\ call[b].pc = "idle"
    BY Zenon DEF BuildOngoing
  <2> QED
    BY <2>1, MoveCall, Zenon DEF moves
<1>3. client[b] # "idle" /\ ~alone(b)
  BY <1>2, FoundTable DEF BuildOngoing, started
<1>4. Typed'
  BY <1>2, Zenon DEF Typed
<1>5. Made'
  <2>1. \A c \in Build : onwards(c)
    BY <1>2, <1>3 DEF Made, onwards, started, recorded, inProgress
  <2> QED
    BY <1>2, <1>4, <2>1, MadeStep, Zenon
<1>6. Guarded'
  BY <1>2 DEF Guarded, OneBuildPerSession, inProgress, sameNames
<1>7. Kept'
  <2> SUFFICES ASSUME NEW c \in Build, started(c)', alone(c)' PROVE Keeps(c)'
    BY Zenon DEF Kept
  <2>1. c # b /\ alone(c) /\ call'[c] = call[c]
    BY <1>2, <1>3, SameAlone, Zenon
  <2> QED
    BY <2>1, Zenon DEF Kept, Keeps, started, recorded
<1>8. Ran'
  <2>1. \A o \in Build : started(o) =>
           /\ call'[o].pc # "idle"
           /\ alone(o)' => /\ alone(o)
                           /\ session'[o].manager = session[o].manager
                           /\ session[o].result = o => session'[o].result = o
    BY <1>2, SameAlone, Zenon DEF started
  <2> QED
    BY <2>1, RanSame, Zenon
<1> QED
  BY <1>4, <1>5, <1>6, <1>7, <1>8, Zenon DEF IInv

LEMMA BuildReturnsInv ==
    ASSUME Typed, Made, Guarded, Kept, Ran, NEW b \in Build, BuildReturns(b)
    PROVE  IInv'
<1> UNCHANGED <<table, session, mu, client, proc, disturbed, cut>>
  BY Zenon DEF BuildReturns, ghosts
<1>2. /\ call' \in [Build -> Calls] /\ sameNames
      /\ call[b].pc = "building" /\ call'[b].pc = "returned"
      /\ \A c \in Build : c # b => call'[c] = call[c]
  <2> PICK pc \in Pcs : pc = "returned"
    BY Zenon DEF Pcs
  <2>1. PICK reply \in {"ok", "err"} :
             call' = [call EXCEPT ![b].pc = pc, ![b].reply = reply] /\ call[b].pc = "building"
    BY Zenon DEF BuildReturns
  <2>2. reply \in Replies
    BY Zenon DEF Replies
  <2> QED
    BY <2>1, <2>2, MoveCall, Zenon DEF moves
<1>3. /\ handle' \in [Build -> {"none", "open", "done"}]
      /\ \A c \in Build : c # b => handle'[c] = handle[c]
  BY DEF BuildReturns, Typed
<1>4. Typed'
  BY <1>2, <1>3, Zenon DEF Typed
<1>5. Made'
  <2>1. \A c \in Build : onwards(c)
    BY <1>2, <1>3 DEF Made, onwards, started, recorded, inProgress
  <2> QED
    BY <1>2, <1>4, <2>1, MadeStep, Zenon
<1>6. Guarded'
  BY <1>2 DEF Guarded, OneBuildPerSession, inProgress, sameNames
<1>7. Kept'
  <2> SUFFICES ASSUME NEW c \in Build, started(c)', alone(c)' PROVE Keeps(c)'
    BY Zenon DEF Kept
  <2>1. alone(c) /\ started(c)
    BY <1>2, SameAlone, Zenon DEF started
  <2>2. Keeps(c)
    BY <2>1, Zenon DEF Kept
  <2>3. CASE c = b
    BY <1>2, <2>2, <2>3, ServerAssumption, Zenon DEF Keeps, recorded, sameNames
  <2>4. CASE c # b
    BY <1>2, <1>3, <2>2, <2>4, Zenon DEF Keeps, recorded
  <2> QED
    BY <2>3, <2>4, Zenon
<1>8. Ran'
  <2>1. \A o \in Build : started(o) =>
           /\ call'[o].pc # "idle"
           /\ alone(o)' => /\ alone(o)
                           /\ session'[o].manager = session[o].manager
                           /\ session[o].result = o => session'[o].result = o
    BY <1>2, SameAlone, Zenon DEF started
  <2>2. ASSUME NEW i \in Invoke, NEW o \in Build, o = proc[i].obj, proc[i].pc = "run",
               alone(o), Reads(i), started(o)
        PROVE  handle'[o] = "open"
    <3>1. session[o].result = o /\ handle[o] = "open"
      BY <2>2, Zenon DEF Reads
    <3>2. recorded(o)
      BY <2>2, <3>1, ServerAssumption DEF Kept, Keeps
    <3> QED
      BY <1>2, <1>3, <3>1, <3>2, Zenon DEF recorded
  <2>3. \A i \in Invoke : proc'[i] = proc[i] \/ proc'[i].pc = "ended"
    BY Zenon
  <2>4. \A i \in Invoke, o \in Build :
           proc'[i] = proc[i] /\ proc[i].pc = "run" /\ proc[i].obj = o /\ started(o)
              /\ alone(o) /\ Reads(i) => handle'[o] = "open"
    BY <2>2, Zenon
  <2> QED
    BY <2>1, <2>3, <2>4, RanStep, Zenon
<1> QED
  BY <1>4, <1>5, <1>6, <1>7, <1>8, Zenon DEF IInv

(* Recording a result writes to the session of a build that is alone only   *)
(* for that build itself.                                                   *)
LEMMA RecordInv ==
    ASSUME Typed, Made, Guarded, Kept, Ran, NEW b \in Build, Record(b)
    PROVE  IInv'
<1> UNCHANGED <<table, mu, client, handle, proc, cut>>
  BY Zenon DEF Record
<1> PICK o : o = table[call[b].id]
  BY Zenon
<1>2. /\ call' \in [Build -> Calls] /\ sameNames
      /\ call[b].pc = "returned" /\ call'[b].pc = "recorded"
      /\ \A c \in Build : c # b => call'[c] = call[c]
  <2> PICK pc \in Pcs : pc = "recorded"
    BY Zenon DEF Pcs
  <2> PICK reply : reply = IF o = None THEN "err" ELSE call[b].reply
    BY Zenon
  <2>1. call[b].reply \in Replies
    BY Zenon DEF Typed, Calls
  <2>2. reply \in Replies
    BY <2>1, Zenon DEF Replies
  <2>3. call' = [call EXCEPT ![b].pc = pc, ![b].reply = reply] /\ call[b].pc = "returned"
    BY Zenon DEF Record
  <2> QED
    BY <2>2, <2>3, MoveCall, Zenon DEF moves
<1>3. started(b) /\ client[b] # "idle" /\ inProgress(b)
  BY <1>2, Zenon DEF Made, started, inProgress
<1>4. o # None => /\ o \in Build /\ started(o) /\ call[o].id = call[b].id
                  /\ alone(o) \/ alone(b) => o = b
  BY <1>3, FoundTable, Zenon
<1>5. /\ session' \in [Build -> Fields]
      /\ \A c \in Build : /\ session'[c].ongoing = session[c].ongoing
                          /\ session'[c].manager = session[c].manager
                          /\ c # o => session'[c].result = session[c].result
      /\ o # None => session'[o].result = IF handle[b] = "open" THEN b ELSE session[o].result
  <2>1. CASE o # None /\ handle[b] = "open"
    <3>1. session' = [session EXCEPT ![o].result = b]
      BY <2>1, Zenon DEF Record
    <3> QED
      BY <1>4, <2>1, <3>1 DEF Typed, Fields
  <2>2. CASE ~(o # None /\ handle[b] = "open")
    <3>1. session' = session
      BY <2>2, Zenon DEF Record
    <3> QED
      BY <2>2, <3>1, Zenon DEF Typed
  <2> QED
    BY <2>1, <2>2, Zenon
<1>6. disturbed \subseteq disturbed' /\ disturbed' \subseteq Build
  BY <1>4, Zenon DEF Record, Typed
<1>7. Typed'
  BY <1>2, <1>5, <1>6, Zenon DEF Typed
<1>8. Made'
  <2>1. \A c \in Build : \/ session'[c].result = session[c].result
                         \/ call'[session'[c].result].pc = "recorded"
    BY <1>2, <1>5, ServerAssumption
  <2>2. \A c \in Build : onwards(c)
    BY <1>2, <2>1 DEF Made, onwards, started, recorded, inProgress
  <2> QED
    BY <1>2, <1>7, <2>2, MadeStep, Zenon
<1>9. Guarded'
  <2>1. \A c \in Build : /\ inProgress(c)' => inProgress(c)
                         /\ call'[c].obj = call[c].obj
                         /\ inProgress(c) => call[c].obj \in Build
    BY <1>2, Zenon DEF inProgress, sameNames, Made
  <2> QED
    BY <1>5, <1>6, <2>1 DEF Guarded, OneBuildPerSession
<1>10. Kept'
  <2> SUFFICES ASSUME NEW c \in Build, started(c)', alone(c)' PROVE Keeps(c)'
    BY Zenon DEF Kept
  <2>1. alone(c) /\ started(c) /\ call'[c].id = call[c].id
    BY <1>2, SameAlone, Zenon DEF started, sameNames
  <2>2. Keeps(c)
    BY <2>1, Zenon DEF Kept
  <2>3. CASE c # b
    <3>1. session'[c].result = session[c].result /\ session'[c].manager = session[c].manager
      BY <1>4, <1>5, <2>1, <2>3, ServerAssumption, Zenon
    <3> QED
      BY <1>2, <2>2, <2>3, <3>1, Zenon DEF Keeps, recorded
  <2>4. CASE c = b
    <3>1. o \in {None, b} /\ (b \notin cut => o = b) /\ (b \in cut => o = None)
      BY <1>2, <2>1, <2>2, <2>4, OwnTable, Zenon DEF Keeps
    <3>2. session[b].result = None
      BY <1>2, <2>2, <2>4, Zenon DEF Keeps, recorded
    <3> QED
      BY <1>2, <1>5, <2>1, <2>2, <2>4, <3>1, <3>2, ServerAssumption, Zenon DEF Keeps, recorded
  <2> QED
    BY <2>3, <2>4, Zenon
<1>11. Ran'
  <2>1. ASSUME NEW c \in Build, started(c)
        PROVE  /\ call'[c].pc # "idle"
               /\ alone(c)' => /\ alone(c)
                               /\ session'[c].manager = session[c].manager
                               /\ session[c].result = c => session'[c].result = c
    <3>1. call'[c].pc # "idle" /\ (alone(c)' => alone(c))
      BY <1>2, <2>1, SameAlone, Zenon DEF started
    <3>2. session'[c].manager = session[c].manager
      BY <1>5, Zenon
    <3>3. alone(c) /\ session[c].result = c => session'[c].result = c
      <4>1. CASE c = o
        BY <1>4, <1>5, <4>1, ServerAssumption, Zenon
      <4>2. CASE c # o
        BY <1>5, <4>2, Zenon
      <4> QED
        BY <4>1, <4>2, Zenon
    <3> QED
      BY <3>1, <3>2, <3>3, Zenon
  <2> QED
    BY <2>1, RanSame, Zenon
<1> QED
  BY <1>7, <1>8, <1>9, <1>10, <1>11, Zenon DEF IInv

(* The reset takes down the guard of the build's own session, which no      *)
(* other build uses, or of one it disturbs.                                 *)
LEMMA FinishInv ==
    ASSUME Typed, Made, Guarded, Kept, Ran, NEW b \in Build, Finish(b)
    PROVE  IInv'
<1> UNCHANGED <<table, mu, client, handle, proc, cut>>
  BY Zenon DEF Finish
<1> PICK o : o = table[call[b].id]
  BY Zenon
<1>2. /\ call' \in [Build -> Calls] /\ sameNames
      /\ call[b].pc = "closed" /\ call'[b].pc = "done"
      /\ \A c \in Build : c # b => call'[c] = call[c]
  <2>1. call' = [call EXCEPT ![b].pc = "done"] /\ call[b].pc = "closed"
    BY Zenon DEF Finish
  <2> QED
    BY <2>1 DEF Typed, Calls, Pcs, sameNames
<1>3. started(b) /\ client[b] # "idle" /\ inProgress(b)
  BY <1>2, Zenon DEF Made, started, inProgress
<1>4. o # None => o \in Build
  BY <1>3, FoundTable, Zenon
<1>5. /\ session' \in [Build -> Fields]
      /\ \A c \in Build : /\ c # o => session'[c].ongoing = session[c].ongoing
                          /\ session'[c].manager = session[c].manager
                          /\ session'[c].result = session[c].result
  <2>1. CASE o # None
    <3> PICK f : f = [session[o] EXCEPT !.statusChan = None, !.ongoing = FALSE]
      BY Zenon
    <3>1. session[o] \in Fields
      BY <1>4, <2>1, Zenon DEF Typed
    <3>2. f \in Fields /\ f.manager = session[o].manager /\ f.result = session[o].result
      BY <3>1, Zenon DEF Fields
    <3>3. session' = [session EXCEPT ![o] = f]
      BY <1>4, <2>1, Zenon DEF Finish, Typed
    <3> QED
      BY <1>4, <2>1, <3>2, <3>3, Zenon DEF Typed
  <2>2. CASE o = None
    <3>1. session' = session
      BY <2>2, Zenon DEF Finish
    <3> QED
      BY <3>1, Zenon DEF Typed
  <2> QED
    BY <2>1, <2>2, Zenon
<1>6. /\ disturbed \subseteq disturbed' /\ disturbed' \subseteq Build
      /\ o # None /\ o # call[b].obj => o \in disturbed'
  BY <1>4, Zenon DEF Finish, Typed
<1>7. Typed'
  BY <1>2, <1>5, <1>6, Zenon DEF Typed
<1>8. Made'
  <2>1. \A c \in Build : onwards(c)
    BY <1>2, <1>5 DEF Made, onwards, started, recorded, inProgress
  <2> QED
    BY <1>2, <1>7, <2>1, MadeStep, Zenon
<1>9. Guarded'
  <2>1. \A c \in Build : /\ inProgress(c)' => inProgress(c) /\ c # b
                         /\ call'[c].obj = call[c].obj
                         /\ inProgress(c) => call[c].obj \in Build
    BY <1>2, Zenon DEF inProgress, sameNames, Made
  <2>2. OneBuildPerSession'
    BY <1>6, <2>1, Zenon DEF Guarded, OneBuildPerSession
  <2>3. ASSUME NEW c \in Build, inProgress(c)', call[c].obj \notin disturbed'
        PROVE  session'[call[c].obj].ongoing
    <3>1. call[c].obj # o
      BY <1>3, <1>4, <1>6, <2>1, <2>3, ServerAssumption, Zenon DEF Guarded, OneBuildPerSession
    <3> QED
      BY <1>5, <1>6, <2>1, <2>3, <3>1, Zenon DEF Guarded
  <2> QED
    BY <2>1, <2>2, <2>3, Zenon DEF Guarded
<1>10. Kept'
  <2> SUFFICES ASSUME NEW c \in Build, started(c)', alone(c)' PROVE Keeps(c)'
    BY Zenon DEF Kept
  <2>1. alone(c) /\ started(c) /\ call'[c].id = call[c].id
    BY <1>2, SameAlone, Zenon DEF started, sameNames
  <2>2. Keeps(c)
    BY <2>1, Zenon DEF Kept
  <2>3. call'[c].pc \in {"recorded", "closed", "done"} <=> recorded(c)
    BY <1>2, Zenon DEF recorded
  <2>4. (call[c].pc \in {"building", "writing", "returned"})' =>
           call[c].pc \in {"building", "writing", "returned"}
    BY <1>2, Zenon
  <2> QED
    BY <1>5, <2>1, <2>2, <2>3, <2>4, Zenon DEF Keeps, recorded
<1>11. Ran'
  <2>1. ASSUME NEW c \in Build, started(c)
        PROVE  /\ call'[c].pc # "idle"
               /\ alone(c)' => /\ alone(c)
                               /\ session'[c].manager = session[c].manager
                               /\ session[c].result = c => session'[c].result = c
    <3>1. call'[c].pc # "idle" /\ (alone(c)' => alone(c))
      BY <1>2, <2>1, SameAlone, Zenon DEF started
    <3>2. session'[c].manager = session[c].manager /\ session'[c].result = session[c].result
      BY <1>5, Zenon
    <3> QED
      BY <3>1, <3>2, Zenon
  <2> QED
    BY <2>1, RanSame, Zenon
<1> QED
  BY <1>7, <1>8, <1>9, <1>10, <1>11, Zenon DEF IInv

-----------------------------------------------------------------------------
(* A client that chooses its ID may leave another build not alone; no       *)
(* started build becomes alone by it.                                       *)
LEMMA ClientBuildInv ==
    ASSUME Typed, Made, Guarded, Kept, Ran, NEW b \in Build, ClientBuild(b)
    PROVE  IInv'
<1> UNCHANGED <<table, session, mu, handle, proc, disturbed, cut>>
  BY Zenon DEF ClientBuild, ghosts
<1> PICK id \in SessionID : call' = [call EXCEPT ![b].id = id]
  BY ServerAssumption, Zenon DEF ClientBuild
<1>2. /\ call' \in [Build -> Calls] /\ call'[b].id = id
      /\ \A c \in Build : /\ call'[c].pc = call[c].pc /\ call'[c].obj = call[c].obj
                          /\ c # b => call'[c].id = call[c].id
  BY DEF Typed, Calls
<1>3. /\ client' \in [Build -> {"idle", "run", "ok", "err"}] /\ client[b] = "idle"
      /\ client'[b] = "run" /\ \A c \in Build : c # b => client'[c] = client[c]
  BY Zenon DEF Typed, ClientBuild
<1>4. ~started(b)
  BY <1>3, Zenon DEF Made
<1>5. Typed'
  BY <1>2, <1>3, Zenon DEF Typed
<1>6. ASSUME NEW c \in Build, started(c)
      PROVE  c # b /\ call'[c].id = call[c].id /\ (alone(c)' => alone(c))
  <2>1. c # b /\ call'[c].id = call[c].id
    BY <1>2, <1>4, <1>6, Zenon
  <2>2. ASSUME alone(c)', NEW d \in Build \ {c} PROVE call[d].id # call[c].id
    <3>1. CASE d = b
      <4>1. call'[d].id = id /\ call'[d].id # call'[c].id
        BY <1>2, <2>2, <3>1, Zenon DEF alone
      <4>2. call[b].id = None
        BY <1>3, Zenon DEF Made
      <4>3. call[c].id # None
        BY <1>6, ServerAssumption DEF Made
      <4> QED
        BY <3>1, <4>2, <4>3, Zenon
    <3>2. CASE d # b
      BY <1>2, <2>1, <2>2, <3>2, Zenon DEF alone
    <3> QED
      BY <3>1, <3>2, Zenon
  <2> QED
    BY <2>1, <2>2, Zenon DEF alone
<1>7. Made'
  <2>1. \A i \in SessionID : table[i] # None =>
           table[i] \in Build /\ started(table[i]) /\ call'[table[i]].id = i
    BY <1>6 DEF Made, Typed
  <2> QED
    BY <1>2, <1>3, <1>4, <2>1
       DEF Made, Typed, Calls, started, recorded, inProgress
<1>8. Guarded'
  BY <1>2 DEF Guarded, OneBuildPerSession, inProgress
<1>9. Kept'
  <2> SUFFICES ASSUME NEW c \in Build, started(c)', alone(c)' PROVE Keeps(c)'
    BY Zenon DEF Kept
  <2>1. started(c)
    BY <1>2, Zenon DEF started
  <2>2. Keeps(c) /\ call'[c].id = call[c].id
    BY <1>6, <2>1, Zenon DEF Kept
  <2> QED
    BY <1>2, <2>2, Zenon DEF Keeps, recorded
<1>10. Ran'
  <2>1. ASSUME NEW c \in Build, started(c)
        PROVE  /\ call'[c].pc # "idle"
               /\ alone(c)' => /\ alone(c)
                               /\ session'[c].manager = session[c].manager
                               /\ session[c].result = c => session'[c].result = c
    BY <1>2, <1>6, <2>1, Zenon DEF started
  <2> QED
    BY <2>1, RanSame, Zenon
<1> QED
  BY <1>5, <1>7, <1>8, <1>9, <1>10, Zenon DEF IInv

(* A build takes over the session under its ID, or makes its own: the       *)
(* session of a build that is alone is made by that build.                  *)
LEMMA BuildStartInv ==
    ASSUME Typed, Made, Guarded, Kept, Ran, NEW b \in Build, BuildStart(b)
    PROVE  IInv'
<1> UNCHANGED <<mu, client, handle, disturbed, cut>>
  BY Zenon DEF BuildStart, ghosts
<1> PICK id : id = call[b].id
  BY Zenon
<1> PICK o : o = IF table[id] = None THEN b ELSE table[id]
  BY Zenon
<1>2. mu = None /\ client[b] # "idle" /\ ~started(b) /\ id \in SessionID
  BY Zenon DEF BuildStart, Made, started
<1>3. table[id] # None => /\ o \in Build /\ started(o) /\ call[o].id = id /\ o # b
                          /\ ~alone(o) /\ ~alone(b)
  BY <1>2, FoundTable, Zenon
<1>4. o \in Build /\ ~inProgress(b)
  BY <1>2, <1>3, Zenon DEF inProgress, started
<1>5. /\ call' \in [Build -> Calls]
      /\ call'[b].pc = "building" /\ call'[b].id = id /\ call'[b].obj = o
      /\ \A c \in Build : c # b => call'[c] = call[c]
  <2> PICK r : r = [call[b] EXCEPT !.pc = "building", !.obj = o]
    BY Zenon
  <2>0. call[b] \in Calls /\ o \in Build
    BY <1>4, Zenon DEF Typed
  <2>1. r \in Calls /\ r.pc = "building" /\ r.id = call[b].id /\ r.obj = o
    BY <2>0, Zenon DEF Calls, Pcs
  <2>2. call' = [call EXCEPT ![b] = r]
    BY Zenon DEF BuildStart, Typed
  <2> QED
    BY <2>1, <2>2, Zenon DEF Typed
<1>6. /\ session' \in [Build -> Fields] /\ session'[o].ongoing
      /\ session'[o].result = None /\ session'[o].manager = b
      /\ \A c \in Build : c # o => session'[c] = session[c]
  BY <1>4, Zenon DEF BuildStart, Typed, Fields
<1>7. /\ table' \in [SessionID -> Build \cup {None}] /\ table'[id] = o
      /\ \A i \in SessionID : i # id => table'[i] = table[i]
  BY <1>2, <1>4, Zenon DEF BuildStart, Typed
<1>8. /\ proc' \in [Invoke -> Procs]
      /\ \A i \in Invoke : proc'[i] = proc[i] \/ proc'[i].pc = "ended"
  <2>1. proc' = proc \/ proc' = ended(processesOf(session[o].manager))
    BY Zenon DEF BuildStart
  <2>2. proc \in [Invoke -> Procs]
    BY Zenon DEF Typed
  <2> QED
    BY <2>1, <2>2, EndedProcs
<1>9. \A c \in Build : /\ call'[c].id = call[c].id
                       /\ started(c) => call'[c].pc # "idle"
                       /\ alone(c)' <=> alone(c)
  BY <1>5 DEF alone, started
<1>10. Typed'
  BY <1>5, <1>6, <1>7, <1>8, Zenon DEF Typed
<1>11. call'[o].pc # "idle" /\ call'[o].id = id
  BY <1>3, <1>4, <1>5, <1>9, Zenon
<1>12. Made'
  <2>1. \A i \in SessionID : table'[i] # None =>
           call'[table'[i]].pc # "idle" /\ call'[table'[i]].id = i
    <3> SUFFICES ASSUME NEW i \in SessionID, table'[i] # None
                 PROVE  call'[table'[i]].pc # "idle" /\ call'[table'[i]].id = i
      BY Zenon
    <3>1. CASE i = id
      BY <1>7, <1>11, <3>1, Zenon
    <3>2. CASE i # id
      BY <1>7, <1>9, <3>2 DEF Made, Typed
    <3> QED
      BY <3>1, <3>2, Zenon
  <2>2. \A c \in Build : call'[c].obj # None => call'[call'[c].obj].pc # "idle"
    BY <1>5, <1>9, <1>11 DEF Made, Typed, Calls
  <2>3. \A c \in cut : call'[c].pc # "idle"
    BY <1>9, Zenon DEF Made, Typed
  <2>4. \A c \in Build : handle[c] # "none" =>
           call'[c].pc \in {"returned", "recorded", "closed", "done"}
    BY <1>2, <1>5 DEF Made, recorded, started
  <2>5. \A c \in Build : inProgress(c)' => call'[c].obj \in Build
    BY <1>4, <1>5, Zenon DEF Made, inProgress
  <2>6. \A c \in Build : call'[c].pc # "idle" => client[c] # "idle"
    BY <1>2, <1>5, Zenon DEF Made, started
  <2>7. \A c \in Build : IF client[c] = "idle" THEN call'[c].id = None
                                              ELSE call'[c].id \in SessionID
    BY <1>9, Zenon DEF Made
  <2>8. ASSUME NEW c \in Build, session'[c].result # None
        PROVE  call'[session'[c].result].pc \in {"recorded", "closed", "done"}
    <3>1. session'[c] = session[c]
      BY <1>6, <2>8, Zenon
    <3>2. session[c].result \in Build /\ recorded(session[c].result)
      BY <2>8, <3>1 DEF Made, Typed, Fields
    <3> QED
      BY <1>2, <1>5, <3>1, <3>2, Zenon DEF started, recorded
  <2> QED
    BY <1>2, <2>1, <2>2, <2>3, <2>4, <2>5, <2>6, <2>7, <2>8, Zenon DEF Made, started, recorded
<1>13. Guarded'
  <2>1. ASSUME NEW c \in Build, c # b, inProgress(c), call[c].obj = o PROVE o \in disturbed
    <3>1. table[id] # None
      BY <1>2, <2>1, ServerAssumption DEF Made
    <3>2. ~session[o].ongoing
      BY <3>1, Zenon DEF BuildStart
    <3> QED
      BY <2>1, <3>2, Zenon DEF Guarded
  <2>2. OneBuildPerSession'
    BY <1>5, <2>1 DEF Guarded, OneBuildPerSession, inProgress
  <2>3. \A c \in Build : inProgress(c) => call[c].obj \in Build
    BY Zenon DEF Made
  <2> QED
    BY <1>4, <1>5, <1>6, <2>2, <2>3 DEF Guarded, inProgress
<1>14. Kept'
  <2> SUFFICES ASSUME NEW c \in Build, started(c)', alone(c)' PROVE Keeps(c)'
    BY Zenon DEF Kept
  <2>1. alone(c)
    BY <1>9, Zenon
  <2>2. CASE c = b
    <3>1. o = b /\ b \notin cut
      BY <1>2, <1>3, <2>1, <2>2, Zenon DEF Made
    <3> QED
      BY <1>5, <1>6, <1>7, <2>2, <3>1, Zenon DEF Keeps, recorded
  <2>3. CASE c # b
    <3>1. started(c) /\ call'[c] = call[c]
      BY <1>5, <2>3, Zenon DEF started
    <3>2. Keeps(c)
      BY <2>1, <3>1, Zenon DEF Kept
    <3>3. c # o /\ session'[c] = session[c]
      BY <1>3, <1>6, <2>1, <2>3, Zenon
    <3>4. call[c].id \in SessionID /\ call[c].id # id
      BY <2>1, <2>3, <3>1, Zenon DEF Made, alone
    <3> QED
      BY <1>7, <3>1, <3>2, <3>3, <3>4, Zenon DEF Keeps, recorded
  <2> QED
    BY <2>2, <2>3, Zenon
<1>15. Ran'
  <2>1. ASSUME NEW c \in Build, started(c)
        PROVE  /\ call'[c].pc # "idle"
               /\ alone(c)' => /\ alone(c)
                               /\ session'[c].manager = session[c].manager
                               /\ session[c].result = c => session'[c].result = c
    <3>1. alone(c) => c # o
      BY <1>2, <1>3, <2>1, Zenon
    <3> QED
      BY <1>6, <1>9, <2>1, <3>1, Zenon
  <2>2. \A i \in Invoke, c \in Build :
           proc'[i] = proc[i] /\ proc[i].pc = "run" /\ proc[i].obj = c /\ started(c)
              /\ alone(c) /\ Reads(i) => handle'[c] = "open"
    BY Zenon DEF Reads
  <2> QED
    BY <1>8, <2>1, <2>2, RanStep, Zenon
<1> QED
  BY <1>10, <1>12, <1>13, <1>14, <1>15, Zenon DEF IInv

-----------------------------------------------------------------------------
(* Disconnect ends the result of the session and what runs from it; a build *)
(* that is alone and has not recorded its result yet is cut.                *)
LEMMA DisconnectEndInv ==
    ASSUME Typed, Made, Guarded, Kept, Ran, NEW id \in SessionID, DisconnectEnd(id)
    PROVE  IInv'
<1> UNCHANGED <<session, call, client, disturbed>> /\ mu = id /\ mu' = None
  BY Zenon DEF DisconnectEnd
<1>2. PICK o \in Build : o = table[id] /\ started(o) /\ call[o].id = id
  BY ServerAssumption DEF Made, Typed
<1>3. PICK h \in Build \cup {None} : h = session[o].result
  BY Zenon DEF Typed, Fields
<1>4. /\ table' \in [SessionID -> Build \cup {None}] /\ table'[id] = None
      /\ \A i \in SessionID : i # id => table'[i] = table[i]
  BY Zenon DEF DisconnectEnd, Typed
<1>5. /\ handle' \in [Build -> {"none", "open", "done"}]
      /\ \A b \in Build : IF b = h THEN handle'[b] = "done" ELSE handle'[b] = handle[b]
  BY <1>2, <1>3, ServerAssumption, Zenon DEF DisconnectEnd, Typed
<1>6. /\ proc' \in [Invoke -> Procs]
      /\ \A i \in Invoke : proc'[i] = proc[i] \/ proc'[i].pc = "ended"
      /\ h # None => \A i \in Invoke : proc[i].pc = "run" /\ proc[i].handle = h =>
                                          proc'[i].pc = "ended"
  <2>1. proc \in [Invoke -> Procs]
    BY Zenon DEF Typed
  <2>2. CASE h = None
    <3>1. proc' = proc
      BY <1>2, <1>3, <2>2, Zenon DEF DisconnectEnd
    <3> QED
      BY <2>1, <2>2, <3>1, Zenon
  <2>3. CASE h # None
    <3> PICK P : P = processesFrom(h)
      BY Zenon
    <3>1. proc' = ended(P)
      BY <1>2, <1>3, <2>3, Zenon DEF DisconnectEnd
    <3>2. \A i \in Invoke : proc[i].pc = "run" /\ proc[i].handle = h => i \in P \cap Invoke
      BY Zenon DEF processesFrom
    <3> QED
      BY <3>1, <3>2, EndedProcs, Zenon
  <2> QED
    BY <2>2, <2>3, Zenon
<1>7. /\ cut \subseteq cut' /\ cut' \subseteq Build
      /\ \A b \in Build : b \in cut' <=>
            \/ b \in cut
            \/ call[b].pc \in {"building", "writing", "returned"} /\ call[b].id = id
  BY Zenon DEF DisconnectEnd, Typed, inProgress
<1>8. Typed'
  BY <1>4, <1>5, <1>6, <1>7, Zenon DEF Typed
<1>9. h # None => recorded(h)
  BY <1>3, Zenon DEF Made
<1>10. Made'
  <2>1. \A b \in Build : handle'[b] # "none" => call[b].pc = "returned" \/ recorded(b)
    <3> SUFFICES ASSUME NEW b \in Build, handle'[b] # "none"
                 PROVE  call[b].pc = "returned" \/ recorded(b)
      BY Zenon
    <3>1. CASE b = h
      BY <1>9, <3>1, ServerAssumption, Zenon
    <3>2. CASE b # h
      BY <1>5, <3>2, Zenon DEF Made
    <3> QED
      BY <3>1, <3>2, Zenon
  <2>2. \A b \in cut' : started(b)
    BY <1>7, Zenon DEF Made, started
  <2>3. \A i \in SessionID : table'[i] # None =>
           table'[i] = table[i] /\ started(table[i]) /\ call[table[i]].id = i
    BY <1>4, Zenon DEF Made
  <2> QED
    BY <2>1, <2>2, <2>3, Zenon DEF Made, started, recorded, inProgress
<1>11. Guarded'
  BY Zenon DEF Guarded, OneBuildPerSession, inProgress
<1>12. Kept'
  <2> SUFFICES ASSUME NEW b \in Build, started(b)', alone(b)' PROVE Keeps(b)'
    BY Zenon DEF Kept
  <2>1. started(b) /\ alone(b)
    BY Zenon DEF started, alone
  <2>2. Keeps(b) /\ call[b].id \in SessionID /\ table[call[b].id] \in {None, b}
    BY <2>1, OwnTable, Zenon DEF Kept
  <2>3. CASE call[b].id = id
    <3>1. o = b
      BY <1>2, <2>2, <2>3, ServerAssumption, Zenon
    <3>2. table'[call[b].id] = None
      BY <1>4, <2>3, Zenon
    <3>3. b \notin cut' => call[b].pc \notin {"building", "writing", "returned"}
      BY <1>7, <2>3, Zenon
    <3>4. b \notin cut' /\ recorded(b) => handle'[b] # "open"
      BY <1>3, <1>5, <1>7, <2>2, <3>1, Zenon DEF Keeps
    <3>5. recorded(b) /\ b \notin cut => b \notin cut'
      BY <1>7, Zenon DEF recorded
    <3> QED
      BY <2>2, <3>2, <3>3, <3>4, <3>5, ServerAssumption, Zenon DEF Keeps, recorded
  <2>4. CASE call[b].id # id
    <3>1. table'[call[b].id] = table[call[b].id] /\ (b \in cut' <=> b \in cut)
      BY <1>4, <1>7, <2>2, <2>4, Zenon
    <3>2. handle'[b] = "open" => handle[b] = "open"
      BY <1>5, Zenon
    <3> QED
      BY <2>2, <3>1, <3>2, Zenon DEF Keeps, recorded
  <2> QED
    BY <2>3, <2>4, Zenon
<1>13. Ran'
  <2>1. ASSUME NEW c \in Build, started(c)
        PROVE  /\ call'[c].pc # "idle"
               /\ alone(c)' => /\ alone(c)
                               /\ session'[c].manager = session[c].manager
                               /\ session[c].result = c => session'[c].result = c
    BY <2>1, Zenon DEF started, alone
  <2>2. \A i \in Invoke, c \in Build :
           proc'[i] = proc[i] /\ proc[i].pc = "run" /\ proc[i].obj = c /\ started(c)
              /\ alone(c) /\ Reads(i) => handle'[c] = "open"
    BY <1>5, <1>6, ServerAssumption DEF Reads
  <2> QED
    BY <1>6, <2>1, <2>2, RanStep, Zenon
<1> QED
  BY <1>8, <1>10, <1>11, <1>12, <1>13, Zenon DEF IInv

(* The server process ends: no session, no build in progress, no open       *)
(* result and no process is left.                                           *)
LEMMA StartPanicsInv ==
    ASSUME Typed, Made, Guarded, Kept, Ran, NEW i \in Invoke, StartPanics(i)
    PROVE  IInv'
<1> /\ UNCHANGED <<client, disturbed, cut>> /\ mu' = None
    /\ table' = [id \in SessionID |-> None] /\ session' = [b \in Build |-> NoFields]
  BY Zenon DEF StartPanics
<1>2. /\ call' \in [Build -> Calls] /\ sameNames
      /\ \A b \in Build : IF inProgress(b) THEN call'[b].pc = "done"
                                           ELSE call'[b].pc = call[b].pc
  <2>2. \A b \in Build : call[b] \in Calls
    BY Zenon DEF Typed
  <2>1. ASSUME NEW r \in Calls
        PROVE  [r EXCEPT !.pc = "done", !.reply = "err"] \in Calls
    BY Zenon DEF Calls, Pcs, Replies
  <2>3. /\ call' \in [Build -> Calls]
        /\ \A b \in Build : call'[b] = IF inProgress(b)
                                       THEN [call[b] EXCEPT !.pc = "done", !.reply = "err"]
                                       ELSE call[b]
    BY <2>1, <2>2, Zenon DEF StartPanics
  <2> QED
    BY <2>2, <2>3, Zenon DEF sameNames, Calls
<1>3. /\ handle' \in [Build -> {"none", "open", "done"}]
      /\ \A b \in Build : handle'[b] # "open" /\ (handle[b] = "none" => handle'[b] = "none")
  BY Zenon DEF Typed, StartPanics
<1>4. /\ proc' \in [Invoke -> Procs]
      /\ \A j \in Invoke : proc'[j].pc \in {"idle", "ended"}
  BY EndedProcs, Zenon DEF StartPanics, Typed, ended
<1>5. Typed'
  BY <1>2, <1>3, <1>4, Zenon DEF Typed, NoFields, Fields
<1>6. \A b \in Build : /\ call'[b].pc = "idle" <=> call[b].pc = "idle"
                       /\ call'[b].pc \in {"idle", "done"}
                       /\ call'[b].id = call[b].id /\ call'[b].obj = call[b].obj
  BY <1>2, Zenon DEF inProgress, sameNames, Typed, Calls, Pcs
<1>7. Made'
  <2>1. \A b \in Build : handle'[b] # "none" => call'[b].pc = "done"
    BY <1>3, <1>6, Zenon DEF Made, recorded
  <2>2. \A b \in Build : call'[b].obj # None => call'[call'[b].obj].pc # "idle"
    BY <1>6 DEF Made, started, Typed, Calls
  <2>3. \A b \in cut : call'[b].pc # "idle"
    BY <1>6, Zenon DEF Made, started, Typed
  <2>4. \A b \in Build : session'[b].result = None
    BY Zenon DEF NoFields
  <2>5. \A id \in SessionID : table'[id] = None
    BY Zenon
  <2>6. \A b \in Build : /\ client'[b] = client[b]
                         /\ client[b] # "idle" => call[b].id \in SessionID
                         /\ client[b] = "idle" => call[b].id = None /\ call[b].pc = "idle"
    BY Zenon DEF Made, started
  <2> QED
    BY <1>6, <2>1, <2>2, <2>3, <2>4, <2>5, <2>6 DEF Made, started, recorded, inProgress
<1>8. Guarded'
  BY <1>6, Zenon DEF Guarded, OneBuildPerSession, inProgress
<1>9. Kept'
  <2> SUFFICES ASSUME NEW b \in Build, started(b)', alone(b)' PROVE Keeps(b)'
    BY Zenon DEF Kept
  <2>1. call'[b].id \in SessionID
    BY <1>6, Zenon DEF Made, started
  <2> QED
    BY <1>3, <1>6, <2>1, ServerAssumption, Zenon DEF Keeps, recorded, started, NoFields
<1>10. Ran'
  BY <1>4, Zenon DEF Ran
<1> QED
  BY <1>5, <1>7, <1>8, <1>9, <1>10, Zenon DEF IInv

-----------------------------------------------------------------------------
LEMMA InitInv == Init => IInv
<1> SUFFICES ASSUME Init PROVE IInv
  BY Zenon
<1>1. Typed
  BY Zenon DEF Init, Typed, NoFields, Fields, NoCall, Calls, Pcs, Replies, NoProc, Procs
<1>2. \A b \in Build : call[b].pc = "idle" /\ call[b].id = None /\ call[b].obj = None
                         /\ client[b] = "idle" /\ handle[b] = "none"
  BY Zenon DEF Init, NoCall
<1>3. \A i \in Invoke : proc[i].pc = "idle"
  BY Zenon DEF Init, NoProc
<1>4. Made
  BY <1>2, Zenon DEF Init, Made, inProgress, started, NoFields
<1>5. Guarded /\ Kept
  BY <1>2, Zenon DEF Guarded, OneBuildPerSession, Kept, inProgress, started
<1>6. Ran
  BY <1>3, Zenon DEF Ran
<1> QED
  BY <1>1, <1>4, <1>5, <1>6, Zenon DEF IInv

LEMMA NextInv == IInv /\ [Next]_vars => IInv'
<1> SUFFICES ASSUME Typed, Made, Guarded, Kept, Ran, [Next]_vars PROVE IInv'
  BY Zenon DEF IInv
<1>1. ASSUME NEW b \in Build, BuildStep(b) PROVE IInv'
  BY <1>1, BuildStartInv, BuildOngoingInv, WriteStatusInv, BuildReturnsInv, RecordInv,
     CloseStatusInv, FinishInv, Zenon DEF BuildStep
<1>2. ASSUME NEW b \in Build, NEW c \in Build, Forward(b, c) PROVE IInv'
  BY <1>2, ForwardInv, Zenon
<1>3. ASSUME NEW b \in Build,
             StatusFinds(b) \/ ClientBuild(b) \/ ClientReturns(b) \/ Interrupt(b)
      PROVE  IInv'
  BY <1>3, ClientInv, ClientBuildInv, Zenon
<1>4. ASSUME NEW id \in SessionID, DisconnectBegin(id) \/ DisconnectEnd(id) PROVE IInv'
  BY <1>4, DisconnectBeginInv, DisconnectEndInv, Zenon
<1>5. ASSUME NEW i \in Invoke, NEW id \in SessionID, InvokeFinds(i, id) PROVE IInv'
  BY <1>5, InvokeFindsInv, Zenon
<1>6. ASSUME NEW i \in Invoke,
             InvokeReads(i) \/ StartProcess(i) \/ StartPanics(i) \/ ProcessExits(i)
      PROVE  IInv'
  BY <1>6, InvokeReadsInv, StartProcessInv, StartPanicsInv, ProcessExitsInv, Zenon
<1>7. CASE UNCHANGED vars
  BY <1>7, QuietInv, Zenon DEF vars, quiet, sameNames, Typed
<1> QED
  BY <1>1, <1>2, <1>3, <1>4, <1>5, <1>6, <1>7, Zenon DEF Next

(* The invariant holds in every reachable state, whatever IDs the builds    *)
(* use.                                                                     *)
THEOREM Invariance == Spec => []IInv
BY InitInv, NextInv, PTL DEF Spec

(* "build ongoing" (Build in server.go): a session has one build at a time, *)
(* unless a build of an earlier session under its ID has written to it.     *)
THEOREM OneBuild == Spec => []OneBuildPerSession
<1>1. IInv => OneBuildPerSession
  BY Zenon DEF IInv, Guarded
<1> QED
  BY <1>1, Invariance, PTL

(* Build records the result of a build where Disconnect finds it, also when *)
(* the build failed: it stays held until the session is disconnected.       *)
THEOREM ResultsKept == Spec => []ResultsHeld
<1>1. IInv => ResultsHeld
  <2> SUFFICES ASSUME IInv, NEW h \in Build, handle[h] = "open", alone(h), h \notin cut
               PROVE  held(h)
    BY Zenon DEF ResultsHeld
  <2>1. call[h].pc \in {"returned", "recorded", "closed", "done"}
    BY Zenon DEF IInv, Made, recorded
  <2>2. Keeps(h)
    BY <2>1, Zenon DEF IInv, Kept, started
  <2>3. call[h].id \in SessionID
    BY <2>1, OwnTable, Zenon DEF IInv, started
  <2>4. CASE call[h].pc = "returned"
    BY <2>4, Zenon DEF held, inProgress
  <2>5. CASE recorded(h)
    BY <2>2, <2>3, <2>5, ServerAssumption, Zenon DEF Keeps, held
  <2> QED
    BY <2>1, <2>4, <2>5, Zenon DEF recorded
<1> QED
  BY <1>1, Invariance, PTL

(* Invoke and Disconnect: a process of the session of a single build never  *)
(* outlives the session, however Invoke's unlocked reads interleave with    *)
(* Disconnect.                                                              *)
THEOREM ProcessesStay == Spec => []ProcessesBelong
<1>1. IInv => ProcessesBelong
  <2> SUFFICES ASSUME IInv, NEW i \in Invoke, proc[i].pc = "run", alone(proc[i].obj)
               PROVE  \E id \in SessionID :
                         table[id] # None /\ session[table[id]].manager = proc[i].manager
    BY Zenon DEF ProcessesBelong
  <2>1. PICK o \in Build : o = proc[i].obj /\ started(o) /\ alone(o) /\ Reads(i)
    BY Zenon DEF IInv, Ran
  <2>2. proc[i].manager = o /\ session[o].result = o /\ handle[o] = "open"
    BY <2>1, Zenon DEF Reads
  <2>3. Keeps(o) /\ call[o].id \in SessionID
    BY <2>1, OwnTable, Zenon DEF IInv, Kept
  <2>4. table[call[o].id] = o /\ session[o].manager = o
    BY <2>2, <2>3, ServerAssumption, Zenon DEF Keeps
  <2> QED
    BY <2>1, <2>2, <2>3, <2>4, ServerAssumption, Zenon
<1> QED
  BY <1>1, Invariance, PTL
=============================================================================
