------------------------- MODULE StoreWritesProofs --------------------------
(***************************************************************************)
(* The inductive invariant of the store, and that it is kept by each write *)
(* of a command, by a write that fails, by a kill and by the release of the*)
(* lock, and by the commands that change no node, for any number of        *)
(* processes, builders and keys.                                           *)
(***************************************************************************)
EXTENDS Store, TLAPS

GoodGroup == {g \in SavedGroup : WellFormed(g)}

(* What the groups in the files satisfy, so do those still to be written;   *)
(* GroupsWellFormed alone does not say so and is not inductive.             *)
WritesOK ==
    \A p \in Proc : \A s \in pending[p] : s \in Seq(FileOp(GoodGroup)) /\ s # <<>>

IInv ==
    /\ instances \in [LowerName -> GoodGroup \cup {NoGroup}]
    /\ activity \subseteq AnyName /\ refs \subseteq AnyName
    /\ current \in Selection \cup {NoFile}
    /\ defaults \in [Key -> AnyName \cup {NoFile}]
    /\ lock \in Proc \cup {NoProc}
    /\ cmd \in [Proc -> Command]
    /\ DOMAIN pending = Proc
    /\ WritesOK
    /\ torn \subseteq Key /\ stray \subseteq AnyName

(* What the writes a process has left satisfy, in the present state of the  *)
(* files; c is the command that makes them.                                 *)
(* Remove takes the refs away before the instance file.                     *)
RefsGoFirst(s) ==
    \A i \in DOMAIN s : s[i].file = "instances" /\ s[i].val = NoGroup =>
        \/ \E j \in 1..(i - 1) : s[j].file = "refs" /\ s[j].at = s[i].at
        \/ s[i].at \notin refs \/ s[i].at \in stray

(* SetCurrent writes the default of the very key it selected, right after;  *)
(* reset comes first, for a key without default or before such a pair.      *)
Paired(s) ==
    \A i \in DOMAIN s :
        /\ s[i].file = "current" =>
              /\ i + 1 \in DOMAIN s /\ s[i + 1].file = "defaults"
              /\ s[i + 1].at = s[i].val.key
              /\ s[i + 1].val \in {NoFile, s[i].val.name}
        /\ s[i].file = "defaults" =>
              IF i = 1 THEN /\ current # NoFile /\ current.key = s[i].at
                            /\ s[i].val \in {NoFile, current.name}
                       ELSE s[i - 1].file = "current"
        /\ s[i].file = "reset" =>
              /\ i = 1
              /\ \/ \E j \in DOMAIN s : s[j].file = "defaults" /\ s[j].at = s[i].val.key
                 \/ defaults[s[i].val.key] = NoFile

(* A group is replaced by one of its name, and the file still holds what    *)
(* the command saw; what it overwrites later is what it saved itself.       *)
Seen(c, s) ==
    \A i \in DOMAIN s : s[i].file = "instances" =>
        /\ instances[s[i].at] \in c.saw
        /\ s[i].val # NoGroup => Lower(s[i].val.name) = s[i].at
        /\ \A j \in 1..(i - 1) : s[j].file = "instances" => s[j].val \in c.saw

(* A lookup selects the default it found, for its endpoint only, and leaves *)
(* groups and defaults as they are.                                         *)
LooksUp(s) ==
    \A i \in DOMAIN s :
        /\ s[i].file # "instances"
        /\ s[i].file \in {"current", "reset"} => ~s[i].val.global
        /\ s[i].file = "current" => s[i].val.name = defaults[s[i].val.key]
        /\ s[i].file = "reset" => s[i].val.name = NoName
        /\ s[i].file = "defaults" => s[i].val = defaults[s[i].at]

Selects(s) == \E i \in DOMAIN s : s[i].file \in {"current", "reset", "defaults"}

(* Only rm has several lists; they are about different groups, and none of  *)
(* them selects a builder.                                                  *)
Apart(c, L) ==
    \A s, t \in L : s # t =>
        /\ c.kind = "rm" /\ ~Selects(s)
        /\ \A i \in DOMAIN s, j \in DOMAIN t :
              s[i].file = "instances" /\ t[j].file = "instances" => s[i].at # t[j].at

Fine(c, s) == RefsGoFirst(s) /\ Paired(s) /\ Seen(c, s)

ListsOK(c, L) ==
    /\ \A s \in L : Fine(c, s)
    /\ c.kind = "load" => \A s \in L : LooksUp(s)
    /\ Apart(c, L)

(* A group is stored under its own name in lower case.                      *)
NamesAgree ==
    \A b \in LowerName : instances[b] # NoGroup => Lower(instances[b].name) = b

(* DefaultAgrees, with the second write of SetCurrent possibly still to come.*)
Settled ==
    current # NoFile /\ current.key \notin torn =>
        \/ defaults[current.key] \in {NoFile, current.name}
        \/ \E p \in Proc : current.key \in unset(pending[p])

(* Between its transactions a process does not hold the lock.               *)
AtRest == \A p \in Proc : cmd[p].kind \in {"idle", "loaded", "solve"} => lock # p

SInv ==
    /\ LockCoversWrites /\ AtRest /\ RefsHaveBuilder /\ NamesAgree /\ Settled
    /\ \A p \in Proc : ListsOK(cmd[p], pending[p])

-----------------------------------------------------------------------------
LEMMA TailIndex ==
    ASSUME NEW S, NEW s \in Seq(S), s # <<>>
    PROVE  /\ Len(s) \in Nat /\ DOMAIN s = 1..Len(s) /\ 1 \in DOMAIN s
           /\ Head(s) = s[1] /\ Tail(s) \in Seq(S)
           /\ DOMAIN Tail(s) = 1..(Len(s) - 1)
           /\ \A i \in DOMAIN Tail(s) : i + 1 \in DOMAIN s /\ Tail(s)[i] = s[i + 1]
<1>1. Len(s) \in Nat /\ DOMAIN s = 1..Len(s) /\ Len(s) # 0
  OBVIOUS
<1>2. /\ Head(s) = s[1] /\ Tail(s) \in Seq(S) /\ Len(Tail(s)) = Len(s) - 1
      /\ \A i \in 1..Len(Tail(s)) : Tail(s)[i] = s[i + 1]
  OBVIOUS
<1>3. DOMAIN Tail(s) = 1..Len(Tail(s))
  BY <1>2
<1> QED BY <1>1, <1>2, <1>3

(* Lower-casing a builder's name gives the name of its instance file.       *)
LEMMA LowerNames ==
    /\ AnyName \subseteq Name /\ NoName \notin AnyName
    /\ \A nm \in AnyName : Lower(nm) \in LowerName /\ ValidName(nm)
    /\ LowerName \subseteq AnyName /\ BuilderName \subseteq AnyName
<1>1. \A nm : Lower(nm).base = nm.base /\ Lower(nm).idx = nm.idx
  BY Zenon DEF Lower
<1>2. \A nm \in Name : Lower(nm) \in Name /\ Lower(Lower(nm)) = Lower(nm)
  <2> SUFFICES ASSUME NEW nm \in Name
               PROVE  Lower(nm) \in Name /\ Lower(Lower(nm)) = Lower(nm)
    BY Zenon
  <2>1. nm.base \in Base /\ nm.idx \in Nat \cup {NoIdx}
    BY Zenon DEF Name
  <2>2. Lower(nm) \in Name
    BY <2>1, Zenon DEF Lower, Name
  <2>3. Lower(Lower(nm)) = Lower(nm)
    BY <1>1, Zenon DEF Lower
  <2> QED BY <2>2, <2>3, Zenon
<1>3. BuilderName \subseteq Name
  BY StoreAssumption, Zenon
<1>4. AnyName \subseteq Name
  BY <1>2, <1>3, Zenon DEF AnyName, LowerName
<1>5. NoName \notin Name /\ \A nm \in Name : ValidName(nm)
  BY BaseAssumption, Zenon DEF NoName, Name, ValidName
<1>6. \A nm \in AnyName : Lower(nm) \in LowerName
  BY <1>2, <1>3, Zenon DEF AnyName, LowerName
<1> QED BY <1>4, <1>5, <1>6, Zenon DEF AnyName

(* A write, by the file it is to.                                           *)
LEMMA OpType ==
    ASSUME NEW op \in FileOp(GoodGroup)
    PROVE  /\ op.file \in {"instances", "activity", "refs", "current", "reset", "defaults"}
           /\ op.file = "instances" =>
                 op.at \in LowerName /\ op.val \in GoodGroup \cup {NoGroup}
           /\ op.file = "refs" => op.at \in LowerName
           /\ op.file \in {"current", "reset"} => op.val \in Selection
           /\ op.file = "defaults" => op.at \in Key /\ op.val \in AnyName \cup {NoFile}
BY Zenon DEF FileOp, InstanceOp, ActivityOp, RefsOp, CurrentOp, DefaultsOp

(* One write keeps every file readable.                                     *)
LEMMA ApplyType ==
    ASSUME IInv, NEW op \in FileOp(GoodGroup), Apply(op)
    PROVE  /\ instances' \in [LowerName -> GoodGroup \cup {NoGroup}]
           /\ activity' \subseteq AnyName /\ refs' \subseteq AnyName
           /\ current' \in Selection \cup {NoFile}
           /\ defaults' \in [Key -> AnyName \cup {NoFile}]
<1>1. CASE op \in InstanceOp(GoodGroup)
  BY <1>1, Zenon DEF IInv, Apply, InstanceOp
<1>2. CASE op \in ActivityOp
  BY <1>2, Zenon DEF IInv, Apply, ActivityOp
<1>3. CASE op \in RefsOp
  BY <1>3, Zenon DEF IInv, Apply, RefsOp
<1>4. CASE op \in CurrentOp
  BY <1>4, Zenon DEF IInv, Apply, CurrentOp
<1>5. CASE op \in DefaultsOp
  BY <1>5, Zenon DEF IInv, Apply, DefaultsOp
<1> QED BY <1>1, <1>2, <1>3, <1>4, <1>5, Zenon DEF FileOp

(* What a write does to the files, by the file it is to.                    *)
LEMMA ApplyEffect ==
    ASSUME IInv, NEW op \in FileOp(GoodGroup), Apply(op)
    PROVE  /\ op.file # "instances" => instances' = instances
           /\ op.file = "instances" =>
                 \A b \in LowerName : instances'[b] = IF b = op.at THEN op.val ELSE instances[b]
           /\ refs' = IF op.file = "refs" THEN refs \ {op.at} ELSE refs
           /\ op.file \notin {"current", "reset"} => current' = current
           /\ op.file \in {"current", "reset"} => current' = op.val
           /\ op.file # "defaults" => defaults' = defaults
           /\ op.file = "defaults" =>
                 \A k \in Key : defaults'[k] = IF k = op.at THEN op.val ELSE defaults[k]
<1>1. op.file = "instances" => op.at \in LowerName
  BY OpType, Zenon
<1>2. op.file = "defaults" => op.at \in Key
  BY OpType, Zenon
<1> QED BY <1>1, <1>2, Zenon DEF IInv, Apply

-----------------------------------------------------------------------------
(* One write: what each clause of the invariant needs.                      *)
(* The list s a goroutine works on: its first write h and the rest t.       *)
Front(s, t, h) ==
    /\ Len(s) \in Nat /\ DOMAIN s = 1..Len(s) /\ 1 \in DOMAIN s /\ h = s[1]
    /\ \A i \in DOMAIN s : s[i] \in FileOp(GoodGroup)
    /\ DOMAIN t = 1..(Len(s) - 1)
    /\ \A i \in DOMAIN t : i + 1 \in DOMAIN s /\ t[i] = s[i + 1]

(* Process p holds the lock, and its other lists stay.                      *)
Others(p, s, t) ==
    /\ lock = p /\ lock' = lock /\ cmd' = cmd
    /\ \A q \in Proc : q # p => pending[q] = {} /\ pending'[q] = {}
    /\ pending'[p] \subseteq (pending[p] \ {s}) \cup {t}
    /\ pending[p] \ {s} \subseteq pending'[p]
    /\ t # <<>> => t \in pending'[p]
    /\ \A u \in pending[p] \ {s} : u \in Seq(FileOp(GoodGroup)) /\ u # s

Writes(h) ==
    /\ Apply(h)
    /\ torn' = IF h.file = "defaults" THEN torn \ {h.at} ELSE torn
    /\ stray' = IF h.file = "refs" THEN stray \ {h.at} ELSE stray

LEMMA StepRefs ==
    ASSUME IInv, SInv, NEW p \in Proc, NEW s \in pending[p], NEW t, NEW h,
           Front(s, t, h), Others(p, s, t), Writes(h), ListsOK(cmd[p], pending[p]),
           NEW u \in pending'[p]
    PROVE  RefsGoFirst(u)'
<1>0. /\ refs' = IF h.file = "refs" THEN refs \ {h.at} ELSE refs
      /\ \A b : b \notin refs \/ b \in stray => b \notin refs' \/ b \in stray'
  BY ApplyEffect DEF Front, Writes
<1>1. CASE u \in pending[p] \ {s}
  <2>1. RefsGoFirst(u)
    BY <1>1, Zenon DEF ListsOK, Fine
  <2> QED BY <1>0, <2>1, Zenon DEF RefsGoFirst
<1>2. CASE u = t
  <2> SUFFICES ASSUME NEW i \in DOMAIN t, t[i].file = "instances", t[i].val = NoGroup
               PROVE  \/ \E j \in 1..(i - 1) : t[j].file = "refs" /\ t[j].at = t[i].at
                      \/ t[i].at \notin refs' \/ t[i].at \in stray'
    BY <1>2, Zenon DEF RefsGoFirst
  <2>1. RefsGoFirst(s)
    BY Zenon DEF ListsOK, Fine
  <2>2. /\ i \in Nat /\ i + 1 \in DOMAIN s /\ t[i] = s[i + 1]
        /\ (i + 1) - 1 = i
    BY DEF Front
  <2>3. CASE \E j \in 1..i : s[j].file = "refs" /\ s[j].at = s[i + 1].at
    <3>1. PICK j \in 1..i : s[j].file = "refs" /\ s[j].at = s[i + 1].at
      BY <2>3, Zenon
    <3>2. CASE j = 1
      BY <1>0, <2>2, <3>1, <3>2, Zenon DEF Front
    <3>3. CASE j # 1
      <4>1. j - 1 \in DOMAIN t /\ j - 1 \in 1..(i - 1) /\ t[j - 1] = s[j]
        BY <2>2, <3>1, <3>3 DEF Front
      <4> QED BY <2>2, <3>1, <4>1, Zenon
    <3> QED BY <3>2, <3>3, Zenon
  <2>4. CASE s[i + 1].at \notin refs \/ s[i + 1].at \in stray
    BY <1>0, <2>2, <2>4, Zenon
  <2> QED BY <2>1, <2>2, <2>3, <2>4, Zenon DEF RefsGoFirst
<1> QED BY <1>1, <1>2, Zenon DEF Others

LEMMA StepPaired ==
    ASSUME IInv, SInv, NEW p \in Proc, NEW s \in pending[p], NEW t, NEW h,
           Front(s, t, h), Others(p, s, t), Writes(h), ListsOK(cmd[p], pending[p]),
           NEW u \in pending'[p]
    PROVE  Paired(u)'
<1>1. CASE u \in pending[p] \ {s}
  <2>1. ~Selects(u)
    BY <1>1, Zenon DEF ListsOK, Fine, Apart, Others
  <2> QED BY <2>1, Zenon DEF Paired, Selects
<1>2. CASE u = t
  <2>1. Paired(s)
    BY Zenon DEF ListsOK, Fine
  <2>2. ASSUME NEW i \in DOMAIN t, t[i].file = "current"
        PROVE  /\ i + 1 \in DOMAIN t /\ t[i + 1].file = "defaults"
               /\ t[i + 1].at = t[i].val.key
               /\ t[i + 1].val \in {NoFile, t[i].val.name}
    <3>1. i + 1 \in DOMAIN s /\ s[i + 1].file = "current" /\ t[i] = s[i + 1]
      BY <2>2, Zenon DEF Front
    <3>2. (i + 1) + 1 \in DOMAIN s
      BY <2>1, <3>1, Zenon DEF Paired
    <3>3. i + 1 \in DOMAIN t /\ t[i + 1] = s[(i + 1) + 1]
      BY <3>1, <3>2 DEF Front
    <3> QED BY <2>1, <3>1, <3>3 DEF Paired
  <2>3. ASSUME NEW i \in DOMAIN t, t[i].file = "defaults"
        PROVE  IF i = 1 THEN /\ current' # NoFile /\ current'.key = t[i].at
                             /\ t[i].val \in {NoFile, current'.name}
                        ELSE t[i - 1].file = "current"
    <3>1. i + 1 \in DOMAIN s /\ s[i + 1].file = "defaults" /\ t[i] = s[i + 1]
          /\ i + 1 # 1 /\ (i + 1) - 1 = i /\ i \in DOMAIN s
      BY <2>3 DEF Front
    <3>2. s[i].file = "current"
      BY <2>1, <3>1 DEF Paired
    <3>3. CASE i = 1
      <4>1. h.file = "current" /\ current' = h.val
        BY <3>2, <3>3, ApplyEffect, Zenon DEF Front, Writes
      <4>2. h.val \in Selection /\ NoFile \notin Selection
        BY <4>1, OpType, StoreAssumption, Zenon DEF Front, Writes
      <4>3. s[2].at = h.val.key /\ s[2].val \in {NoFile, h.val.name}
        BY <2>1, <4>1 DEF Paired, Front
      <4> QED BY <3>1, <3>3, <4>1, <4>2, <4>3
    <3>4. CASE i # 1
      <4>1. i - 1 \in DOMAIN t /\ t[i - 1] = s[i]
        BY <3>4 DEF Front
      <4> QED BY <3>2, <3>4, <4>1, Zenon
    <3> QED BY <3>3, <3>4, Zenon
  <2>4. ASSUME NEW i \in DOMAIN t PROVE t[i].file # "reset"
    <3>1. i + 1 \in DOMAIN s /\ t[i] = s[i + 1] /\ i + 1 # 1
      BY DEF Front
    <3> QED BY <2>1, <3>1 DEF Paired
  <2> QED BY <1>2, <2>2, <2>3, <2>4, Zenon DEF Paired
<1> QED BY <1>1, <1>2, Zenon DEF Others

LEMMA StepSeen ==
    ASSUME IInv, SInv, NEW p \in Proc, NEW s \in pending[p], NEW t, NEW h,
           Front(s, t, h), Others(p, s, t), Writes(h), ListsOK(cmd[p], pending[p]),
           NEW u \in pending'[p]
    PROVE  Seen(cmd[p], u)'
<1>1. CASE u \in pending[p] \ {s}
  <2> SUFFICES ASSUME NEW i \in DOMAIN u, u[i].file = "instances"
               PROVE  instances'[u[i].at] \in cmd[p].saw
    BY <1>1, Zenon DEF ListsOK, Fine, Seen, Others
  <2>1. instances[u[i].at] \in cmd[p].saw
    BY <1>1, Zenon DEF ListsOK, Fine, Seen
  <2>2. h.file = "instances" => u[i].at # h.at
    BY <1>1 DEF ListsOK, Fine, Apart, Front, Others
  <2>3. u[i].at \in LowerName
    BY <1>1, OpType DEF Others
  <2> QED BY <2>1, <2>2, <2>3, ApplyEffect, Zenon DEF Front, Writes
<1>2. CASE u = t
  <2>1. Seen(cmd[p], s)
    BY Zenon DEF ListsOK, Fine
  <2> SUFFICES ASSUME NEW i \in DOMAIN t, t[i].file = "instances"
               PROVE  /\ instances'[t[i].at] \in cmd[p].saw
                      /\ t[i].val # NoGroup => Lower(t[i].val.name) = t[i].at
                      /\ \A j \in 1..(i - 1) : t[j].file = "instances" => t[j].val \in cmd[p].saw
    BY <1>2, Zenon DEF Seen, Others
  <2>2. i + 1 \in DOMAIN s /\ t[i] = s[i + 1] /\ i \in Nat /\ (i + 1) - 1 = i /\ 1 \in 1..i
    BY DEF Front
  <2>3. t[i].at \in LowerName
    BY <2>2, OpType, Zenon DEF Front
  <2>4. /\ instances[t[i].at] \in cmd[p].saw
        /\ t[i].val # NoGroup => Lower(t[i].val.name) = t[i].at
        /\ \A j \in 1..i : s[j].file = "instances" => s[j].val \in cmd[p].saw
    BY <2>1, <2>2, Zenon DEF Seen
  <2>5. instances'[t[i].at] \in cmd[p].saw
    BY <2>2, <2>3, <2>4, ApplyEffect DEF Front, Writes
  <2>6. ASSUME NEW j \in 1..(i - 1), t[j].file = "instances" PROVE t[j].val \in cmd[p].saw
    <3>1. j + 1 \in 1..i /\ t[j] = s[j + 1]
      BY <2>2 DEF Front
    <3> QED BY <2>4, <2>6, <3>1, Zenon
  <2> QED BY <2>4, <2>5, <2>6, Zenon
<1> QED BY <1>1, <1>2, Zenon DEF Others

LEMMA StepLooksUp ==
    ASSUME IInv, SInv, NEW p \in Proc, NEW s \in pending[p], NEW t, NEW h,
           Front(s, t, h), Others(p, s, t), Writes(h), ListsOK(cmd[p], pending[p]),
           cmd[p].kind = "load", NEW u \in pending'[p]
    PROVE  LooksUp(u)'
<1>1. LooksUp(s) /\ pending[p] = {s}
  BY Zenon DEF ListsOK, Apart
<1>2. u = t
  BY <1>1, Zenon DEF Others
<1>3. \A k \in Key : defaults'[k] = defaults[k]
  BY <1>1, ApplyEffect DEF LooksUp, Front, Writes
<1>4. ASSUME NEW i \in DOMAIN t
      PROVE  /\ t[i].file # "instances"
             /\ t[i].file \in {"current", "reset"} => ~t[i].val.global
             /\ t[i].file = "current" => t[i].val.name = defaults'[t[i].val.key]
             /\ t[i].file = "reset" => t[i].val.name = NoName
             /\ t[i].file = "defaults" => t[i].val = defaults'[t[i].at]
  <2>1. i + 1 \in DOMAIN s /\ t[i] = s[i + 1] /\ t[i] \in FileOp(GoodGroup)
    BY Zenon DEF Front
  <2>2. /\ t[i].file = "current" => t[i].val.key \in Key
        /\ t[i].file = "defaults" => t[i].at \in Key
    BY <2>1, OpType, Zenon DEF Selection
  <2> QED BY <1>1, <1>3, <2>1, <2>2 DEF LooksUp
<1> QED BY <1>2, <1>4, Zenon DEF LooksUp

LEMMA StepApart ==
    ASSUME IInv, SInv, NEW p \in Proc, NEW s \in pending[p], NEW t, NEW h,
           Front(s, t, h), Others(p, s, t), Writes(h), ListsOK(cmd[p], pending[p])
    PROVE  Apart(cmd[p], pending[p])'
<1> SUFFICES ASSUME NEW u \in pending'[p], NEW v \in pending'[p], u # v
             PROVE  /\ cmd[p].kind = "rm" /\ ~Selects(u)
                    /\ \A i \in DOMAIN u, j \in DOMAIN v :
                          u[i].file = "instances" /\ v[j].file = "instances" =>
                              u[i].at # v[j].at
  BY Zenon DEF Apart, Selects, Others
<1>1. CASE u # t /\ v # t
  BY <1>1, Zenon DEF ListsOK, Fine, Apart, Others
<1>2. CASE u = t
  <2>1. v \in pending[p] /\ v # s
    BY <1>2, Zenon DEF Others
  <2>2. /\ cmd[p].kind = "rm" /\ ~Selects(s)
        /\ \A i \in DOMAIN s, j \in DOMAIN v :
              s[i].file = "instances" /\ v[j].file = "instances" => s[i].at # v[j].at
    BY <2>1, Zenon DEF ListsOK, Apart
  <2> QED BY <1>2, <2>2 DEF Selects, Front
<1>3. CASE v = t
  <2>1. u \in pending[p] /\ u # s
    BY <1>3, Zenon DEF Others
  <2>2. /\ cmd[p].kind = "rm" /\ ~Selects(u)
        /\ \A i \in DOMAIN u, j \in DOMAIN s :
              u[i].file = "instances" /\ s[j].file = "instances" => u[i].at # s[j].at
    BY <2>1, Zenon DEF ListsOK, Apart
  <2> QED BY <1>3, <2>2, Zenon DEF Selects, Front
<1> QED BY <1>1, <1>2, <1>3, Zenon

LEMMA StepBuilder ==
    ASSUME IInv, SInv, NEW p \in Proc, NEW s \in pending[p], NEW t, NEW h,
           Front(s, t, h), Others(p, s, t), Writes(h), ListsOK(cmd[p], pending[p])
    PROVE  RefsHaveBuilder'
<1> SUFFICES ASSUME NEW b \in refs', ~b.upper, b \notin stray'
             PROVE  instances'[b] # NoGroup
  BY Zenon DEF RefsHaveBuilder
<1>1. b \in refs /\ b \notin stray /\ (h.file = "refs" => b # h.at)
  BY ApplyEffect DEF Front, Writes
<1>2. b \in AnyName /\ Lower(b) = b /\ b \in LowerName
  <2>1. b \in AnyName /\ b \in Name
    BY <1>1, LowerNames, Zenon DEF IInv
  <2>2. Lower(b) = b
    BY <2>1, Zenon DEF Name, Lower
  <2> QED BY <2>1, <2>2, LowerNames, Zenon
<1>3. instances[b] # NoGroup
  BY <1>1, Zenon DEF SInv, RefsHaveBuilder
<1>4. ASSUME h.file = "instances", h.at = b PROVE h.val # NoGroup
  <2>1. RefsGoFirst(s) /\ 1..(1 - 1) = {}
    BY DEF ListsOK, Fine
  <2> QED BY <1>1, <1>4, <2>1, Zenon DEF RefsGoFirst, Front
<1> QED BY <1>2, <1>3, <1>4, ApplyEffect, Zenon DEF Front, Writes

LEMMA StepNames ==
    ASSUME IInv, SInv, NEW p \in Proc, NEW s \in pending[p], NEW t, NEW h,
           Front(s, t, h), Others(p, s, t), Writes(h), ListsOK(cmd[p], pending[p])
    PROVE  NamesAgree'
<1> SUFFICES ASSUME NEW b \in LowerName, instances'[b] # NoGroup
             PROVE  Lower(instances'[b].name) = b
  BY Zenon DEF NamesAgree
<1>1. CASE h.file = "instances" /\ h.at = b
  <2>1. Seen(cmd[p], s)
    BY Zenon DEF ListsOK, Fine
  <2>2. instances'[b] = h.val
    BY <1>1, ApplyEffect, Zenon DEF Front, Writes
  <2> QED BY <1>1, <2>1, <2>2, Zenon DEF Seen, Front
<1>2. CASE ~(h.file = "instances" /\ h.at = b)
  <2>1. instances'[b] = instances[b]
    BY <1>2, ApplyEffect, Zenon DEF Front, Writes
  <2> QED BY <2>1, Zenon DEF SInv, NamesAgree
<1> QED BY <1>1, <1>2, Zenon

LEMMA StepSettled ==
    ASSUME IInv, SInv, NEW p \in Proc, NEW s \in pending[p], NEW t, NEW h,
           Front(s, t, h), Others(p, s, t), Writes(h), ListsOK(cmd[p], pending[p])
    PROVE  Settled'
<1> SUFFICES ASSUME current' # NoFile, current'.key \notin torn'
             PROVE  \/ defaults'[current'.key] \in {NoFile, current'.name}
                    \/ current'.key \in unset(pending'[p])
  BY Zenon DEF Settled, unset
<1>0. Paired(s) /\ Settled
  BY Zenon DEF ListsOK, Fine, SInv
<1>1. current' \in Selection /\ current'.key \in Key
  <2>1. current' \in Selection \cup {NoFile}
    BY ApplyType, Zenon DEF Front, Writes
  <2> QED BY <2>1, Zenon DEF Selection
<1>2. ASSUME NEW i \in DOMAIN s, i # 1, s[i].file = "defaults", s[i].at \in Key
      PROVE  s[i].at \in unset(pending'[p])
  <2>1. i - 1 \in DOMAIN t /\ t[i - 1] = s[i]
    BY <1>2 DEF Front
  <2>2. t \in pending'[p]
    BY <2>1 DEF Others
  <2> QED BY <1>2, <2>1, <2>2, Zenon DEF unset
<1>3. CASE h.file = "current"
  <2>1. /\ current' = h.val /\ 2 \in DOMAIN s /\ s[2].file = "defaults"
        /\ s[2].at = h.val.key
    BY <1>0, <1>3, ApplyEffect DEF Paired, Front, Writes
  <2> QED BY <1>1, <1>2, <2>1
<1>4. CASE h.file = "reset"
  <2>1. /\ current' = h.val /\ defaults' = defaults
        /\ \/ \E j \in DOMAIN s : s[j].file = "defaults" /\ s[j].at = h.val.key
           \/ defaults[h.val.key] = NoFile
    BY <1>0, <1>4, ApplyEffect DEF Paired, Front, Writes
  <2>2. CASE \E j \in DOMAIN s : s[j].file = "defaults" /\ s[j].at = h.val.key
    BY <1>1, <1>2, <1>4, <2>1, <2>2, Zenon DEF Front
  <2> QED BY <2>1, <2>2, Zenon
<1>5. CASE h.file = "defaults"
  <2>1. /\ current' = current /\ current.key = h.at /\ h.val \in {NoFile, current.name}
    BY <1>0, <1>5, ApplyEffect, Zenon DEF Paired, Front, Writes
  <2>2. defaults'[h.at] = h.val
    BY <1>5, ApplyEffect, OpType, Zenon DEF Front, Writes
  <2> QED BY <2>1, <2>2, Zenon
<1>6. CASE h.file \in {"instances", "activity", "refs"}
  <2>1. current' = current /\ defaults' = defaults /\ torn' = torn
    BY <1>6, ApplyEffect, Zenon DEF Front, Writes
  <2>2. CASE \E q \in Proc : current.key \in unset(pending[q])
    <3>1. current.key \in unset(pending[p])
      BY <2>2, Zenon DEF unset, Others
    <3>2. PICK u \in pending[p] : \E i \in DOMAIN u :
                                    u[i].file = "defaults" /\ u[i].at = current.key
      BY <3>1, Zenon DEF unset
    <3>3. CASE u = s
      BY <1>1, <1>2, <1>6, <2>1, <3>2, <3>3, Zenon DEF Front
    <3>4. CASE u # s
      <4>1. u \in pending'[p]
        BY <3>4, Zenon DEF Others
      <4> QED BY <1>1, <2>1, <3>2, <4>1, Zenon DEF unset
    <3> QED BY <3>3, <3>4, Zenon
  <2> QED BY <1>0, <2>1, <2>2, Zenon DEF Settled
<1>7. h.file \in {"instances", "activity", "refs", "current", "reset", "defaults"}
  BY OpType, Zenon DEF Front, Writes
<1> QED BY <1>3, <1>4, <1>5, <1>6, <1>7, Zenon

LEMMA StepIInv ==
    ASSUME IInv, NEW p \in Proc, Step(p)
    PROVE  IInv'
<1>1. PICK s \in pending[p] :
        /\ Apply(Head(s))
        /\ pending' = [pending EXCEPT ![p] = (@ \ {s}) \cup ({Tail(s)} \ {<<>>})]
        /\ torn' = IF Head(s).file = "defaults" THEN torn \ {Head(s).at} ELSE torn
        /\ stray' = IF Head(s).file = "refs" THEN stray \ {Head(s).at} ELSE stray
  BY Zenon DEF Step
<1>2. s \in Seq(FileOp(GoodGroup)) /\ s # <<>>
  BY Zenon DEF IInv, WritesOK
<1>3. Head(s) \in FileOp(GoodGroup) /\ Tail(s) \in Seq(FileOp(GoodGroup))
  BY <1>2, TailIndex
<1>4. WritesOK' /\ DOMAIN pending' = Proc
  BY <1>1, <1>3, Zenon DEF IInv, WritesOK
<1>5. torn' \subseteq Key /\ stray' \subseteq AnyName
  BY <1>1, Zenon DEF IInv
<1>6. lock' = lock /\ cmd' = cmd
  BY Zenon DEF Step
<1> QED BY <1>1, <1>3, <1>4, <1>5, <1>6, ApplyType, Zenon DEF IInv

LEMMA StepSInv ==
    ASSUME IInv, SInv, NEW p \in Proc, Step(p)
    PROVE  SInv'
<1>1. PICK s \in pending[p] :
        /\ Apply(Head(s))
        /\ pending' = [pending EXCEPT ![p] = (@ \ {s}) \cup ({Tail(s)} \ {<<>>})]
        /\ torn' = IF Head(s).file = "defaults" THEN torn \ {Head(s).at} ELSE torn
        /\ stray' = IF Head(s).file = "refs" THEN stray \ {Head(s).at} ELSE stray
  BY Zenon DEF Step
<1>2. /\ lock' = lock /\ cmd' = cmd /\ lock = p
      /\ \A q \in Proc : q # p => pending[q] = {}
  BY <1>1, Zenon DEF Step, SInv, LockCoversWrites
<1>3. s \in Seq(FileOp(GoodGroup)) /\ s # <<>>
  BY <1>1, Zenon DEF IInv, WritesOK
<1>4. PICK t, h : t = Tail(s) /\ h = Head(s)
  BY Zenon
<1>5. Front(s, t, h)
  BY <1>3, <1>4, TailIndex DEF Front
<1>6. Others(p, s, t)
  BY <1>1, <1>2, <1>4, Zenon DEF IInv, WritesOK, Others
<1>7. Writes(h)
  BY <1>1, <1>4, Zenon DEF Writes
<1>8. ListsOK(cmd[p], pending[p])
  BY Zenon DEF SInv
<1>9. ASSUME NEW q \in Proc PROVE ListsOK(cmd[q], pending[q])'
  <2>1. CASE q = p
    <3>1. \A u \in pending'[p] : RefsGoFirst(u)' /\ Paired(u)' /\ Seen(cmd[p], u)'
      BY <1>1, <1>5, <1>6, <1>7, <1>8, StepRefs, StepPaired, StepSeen, Zenon
    <3>2. cmd[p].kind = "load" => \A u \in pending'[p] : LooksUp(u)'
      BY <1>1, <1>5, <1>6, <1>7, <1>8, StepLooksUp, Zenon
    <3>3. Apart(cmd[p], pending[p])'
      BY <1>1, <1>5, <1>6, <1>7, <1>8, StepApart, Zenon
    <3> QED BY <1>2, <2>1, <3>1, <3>2, <3>3, Zenon DEF ListsOK, Fine
  <2>2. CASE q # p
    BY <1>6, <2>2, Zenon DEF Others, ListsOK, Fine, Apart
  <2> QED BY <2>1, <2>2, Zenon
<1>10. RefsHaveBuilder' /\ NamesAgree' /\ Settled'
  BY <1>1, <1>5, <1>6, <1>7, <1>8, StepBuilder, StepNames, StepSettled, Zenon
<1>11. LockCoversWrites' /\ AtRest'
  BY <1>2, <1>6, Zenon DEF Others, LockCoversWrites, SInv, AtRest
<1> QED BY <1>9, <1>10, <1>11, Zenon DEF SInv

-----------------------------------------------------------------------------
(* Lists of writes stay as they are while the files they are about do.      *)
LEMMA SameFiles ==
    ASSUME UNCHANGED <<instances, refs, current, defaults, stray>>,
           NEW c, NEW L, ListsOK(c, L), NEW K, K \subseteq L
    PROVE  ListsOK(c, K)'
<1>1. ASSUME NEW s \in K PROVE Fine(c, s)'
  <2>1. Fine(c, s)
    BY Zenon DEF ListsOK
  <2>2. RefsGoFirst(s)'
    BY <2>1, Zenon DEF Fine, RefsGoFirst
  <2>3. Paired(s)'
    BY <2>1, Zenon DEF Fine, Paired
  <2>4. Seen(c, s)'
    BY <2>1, Zenon DEF Fine, Seen
  <2> QED BY <2>2, <2>3, <2>4, Zenon DEF Fine
<1>2. ASSUME c.kind = "load", NEW s \in K PROVE LooksUp(s)'
  BY <1>2, Zenon DEF ListsOK, LooksUp
<1>3. Apart(c, K)'
  BY Zenon DEF ListsOK, Apart, Selects
<1> QED BY <1>1, <1>2, <1>3, Zenon DEF ListsOK

LEMMA SameLists ==
    ASSUME UNCHANGED <<instances, refs, current, defaults, stray>>,
           NEW q \in Proc, ListsOK(cmd[q], pending[q]),
           cmd'[q] = cmd[q], pending'[q] \subseteq pending[q]
    PROVE  ListsOK(cmd[q], pending[q])'
<1>1. PICK c : c = cmd[q]
  BY Zenon
<1>2. PICK L : L = pending[q]
  BY Zenon
<1>3. PICK K : K = pending'[q]
  BY Zenon
<1>4. ListsOK(c, K)'
  BY <1>1, <1>2, <1>3, SameFiles, Zenon
<1> QED BY <1>1, <1>3, <1>4, Zenon

LEMMA OneList ==
    ASSUME NEW c, NEW w, Fine(c, w), c.kind = "load" => LooksUp(w)
    PROVE  ListsOK(c, {w})
BY Zenon DEF ListsOK, Apart

(* What is left of a list once the error of its first write was ignored.    *)
LEMMA TailFine ==
    ASSUME NEW c, NEW s, NEW t, NEW h, Front(s, t, h), h.file \in {"reset", "defaults"},
           Fine(c, s)
    PROVE  Fine(c, t) /\ (LooksUp(s) => LooksUp(t))
<1>1. /\ Len(s) \in Nat /\ DOMAIN s = 1..Len(s) /\ 1 \in DOMAIN s /\ h = s[1]
      /\ DOMAIN t = 1..(Len(s) - 1)
      /\ \A i \in DOMAIN t : i + 1 \in DOMAIN s /\ t[i] = s[i + 1]
  BY Zenon DEF Front
<1>2. RefsGoFirst(s) /\ Paired(s) /\ Seen(c, s)
  BY Zenon DEF Fine
<1>3. RefsGoFirst(t)
  <2> SUFFICES ASSUME NEW i \in DOMAIN t, t[i].file = "instances", t[i].val = NoGroup
               PROVE  \/ \E j \in 1..(i - 1) : t[j].file = "refs" /\ t[j].at = t[i].at
                      \/ t[i].at \notin refs \/ t[i].at \in stray
    BY Zenon DEF RefsGoFirst
  <2>1. i \in Nat /\ i + 1 \in DOMAIN s /\ t[i] = s[i + 1] /\ (i + 1) - 1 = i
    BY <1>1
  <2>2. ASSUME NEW j \in 1..i, s[j].file = "refs", s[j].at = s[i + 1].at
        PROVE  \E k \in 1..(i - 1) : t[k].file = "refs" /\ t[k].at = t[i].at
    <3>1. j # 1
      BY <1>1, <2>2, Zenon
    <3>2. j - 1 \in 1..(i - 1) /\ t[j - 1] = s[j]
      BY <1>1, <2>1, <3>1
    <3> QED BY <2>1, <2>2, <3>2, Zenon
  <2> QED BY <1>2, <2>1, <2>2, Zenon DEF RefsGoFirst
<1>4. Paired(t)
  <2>1. ASSUME NEW i \in DOMAIN t, t[i].file = "current"
        PROVE  /\ i + 1 \in DOMAIN t /\ t[i + 1].file = "defaults"
               /\ t[i + 1].at = t[i].val.key
               /\ t[i + 1].val \in {NoFile, t[i].val.name}
    <3>1. i + 1 \in DOMAIN s /\ s[i + 1].file = "current" /\ t[i] = s[i + 1]
      BY <1>1, <2>1, Zenon
    <3>2. (i + 1) + 1 \in DOMAIN s
      BY <1>2, <3>1, Zenon DEF Paired
    <3>3. i + 1 \in DOMAIN t /\ t[i + 1] = s[(i + 1) + 1]
      BY <1>1, <3>1, <3>2
    <3> QED BY <1>2, <3>1, <3>3 DEF Paired
  <2>2. ASSUME NEW i \in DOMAIN t, t[i].file = "defaults"
        PROVE  i # 1 /\ t[i - 1].file = "current"
    <3>1. /\ i + 1 \in DOMAIN s /\ s[i + 1].file = "defaults"
          /\ i + 1 # 1 /\ (i + 1) - 1 = i
      BY <1>1, <2>2
    <3>2. s[i].file = "current"
      BY <1>2, <3>1, Zenon DEF Paired
    <3>3. i # 1
      BY <1>1, <3>2, Zenon
    <3>4. t[i - 1] = s[i]
      BY <1>1, <3>3
    <3> QED BY <3>2, <3>3, <3>4, Zenon
  <2>3. ASSUME NEW i \in DOMAIN t PROVE t[i].file # "reset"
    <3>1. i + 1 \in DOMAIN s /\ t[i] = s[i + 1] /\ i + 1 # 1
      BY <1>1
    <3> QED BY <1>2, <3>1 DEF Paired
  <2> QED BY <2>1, <2>2, <2>3, Zenon DEF Paired
<1>5. Seen(c, t)
  <2> SUFFICES ASSUME NEW i \in DOMAIN t, t[i].file = "instances"
               PROVE  /\ instances[t[i].at] \in c.saw
                      /\ t[i].val # NoGroup => Lower(t[i].val.name) = t[i].at
                      /\ \A j \in 1..(i - 1) :
                            t[j].file = "instances" => t[j].val \in c.saw
    BY Zenon DEF Seen
  <2>1. i + 1 \in DOMAIN s /\ t[i] = s[i + 1] /\ i \in Nat /\ (i + 1) - 1 = i
    BY <1>1
  <2>2. \A j \in 1..(i - 1) : j + 1 \in 1..i /\ t[j] = s[j + 1]
    BY <1>1, <2>1
  <2> QED BY <1>2, <2>1, <2>2, Zenon DEF Seen
<1>6. LooksUp(s) => LooksUp(t)
  BY <1>1 DEF LooksUp
<1> QED BY <1>3, <1>4, <1>5, <1>6, Zenon DEF Fine

LEMMA FailWriteIInv ==
    ASSUME IInv, NEW p \in Proc, FailWrite(p)
    PROVE  IInv'
<1>1. [kind |-> "failed"] \in Command
  BY Zenon DEF Command
<1>2. PICK s \in pending[p] :
        /\ pending' = [pending EXCEPT ![p] = (@ \ {s}) \cup
                         (IF errorIgnored(Head(s)) THEN {Tail(s)} \ {<<>>} ELSE {})]
        /\ torn' = torn \cup unset({s})
        /\ cmd' = [cmd EXCEPT ![p] = IF @.kind = "rm" \/ errorIgnored(Head(s))
                                    THEN @ ELSE [kind |-> "failed"]]
  BY Zenon DEF FailWrite
<1>3. torn' \subseteq Key
  BY <1>2, Zenon DEF IInv, unset
<1>4. Tail(s) \in Seq(FileOp(GoodGroup))
  BY TailIndex, Zenon DEF IInv, WritesOK
<1>5. WritesOK' /\ DOMAIN pending' = Proc
  BY <1>2, <1>4, Zenon DEF IInv, WritesOK
<1>6. cmd' \in [Proc -> Command]
  BY <1>1, <1>2, Zenon DEF IInv
<1> QED BY <1>3, <1>5, <1>6, Zenon DEF IInv, FailWrite, files

(* A failed write: the goroutine stops, or goes on after an ignored error.  *)
LEMMA FailWriteSInv ==
    ASSUME IInv, SInv, NEW p \in Proc, FailWrite(p)
    PROVE  SInv'
<1>1. PICK s \in pending[p] :
        /\ pending' = [pending EXCEPT ![p] = (@ \ {s}) \cup
                         (IF errorIgnored(Head(s)) THEN {Tail(s)} \ {<<>>} ELSE {})]
        /\ torn' = torn \cup unset({s})
        /\ cmd' = [cmd EXCEPT ![p] = IF @.kind = "rm" \/ errorIgnored(Head(s))
                                    THEN @ ELSE [kind |-> "failed"]]
  BY Zenon DEF FailWrite
<1>2. /\ lock' = lock /\ lock = p
      /\ UNCHANGED <<instances, refs, current, defaults, stray>>
      /\ \A q \in Proc : q # p => pending[q] = {}
  BY <1>1, Zenon DEF FailWrite, SInv, LockCoversWrites, files
<1>3. s \in Seq(FileOp(GoodGroup)) /\ s # <<>>
  BY <1>1, Zenon DEF IInv, WritesOK
<1>4. PICK t : t = Tail(s)
  BY Zenon
<1>5. PICK h : h = Head(s)
  BY Zenon
<1>6. Front(s, t, h)
  BY <1>3, <1>4, <1>5, TailIndex DEF Front
<1>7. /\ pending[p] \ {s} \subseteq pending'[p]
      /\ \A q \in Proc : q # p => pending'[q] = {}
      /\ ~errorIgnored(h) => pending'[p] = pending[p] \ {s}
      /\ errorIgnored(h) => pending'[p] \subseteq (pending[p] \ {s}) \cup {t}
  BY <1>1, <1>2, <1>4, <1>5, Zenon DEF IInv
<1>8. /\ \A q \in Proc : q # p => cmd'[q] = cmd[q]
      /\ cmd[p].kind = "rm" \/ errorIgnored(h) => cmd'[p] = cmd[p]
      /\ cmd'[p] = cmd[p] \/ cmd'[p].kind = "failed"
  BY <1>1, <1>5, Zenon DEF IInv
<1>9. ListsOK(cmd[p], pending[p])
  BY Zenon DEF SInv
<1>10. ListsOK(cmd[p], pending[p])'
  <2>1. CASE ~errorIgnored(h) /\ cmd[p].kind # "rm"
    <3>1. pending'[p] = {}
      BY <1>1, <1>7, <1>9, <2>1, Zenon DEF ListsOK, Apart
    <3> QED BY <3>1, Zenon DEF ListsOK, Apart
  <2>2. CASE ~errorIgnored(h) /\ cmd[p].kind = "rm"
    <3>1. pending'[p] \subseteq pending[p] /\ cmd'[p] = cmd[p]
      BY <1>7, <1>8, <2>2, Zenon
    <3> QED BY <1>2, <1>9, <3>1, SameLists, Zenon
  <2>3. CASE errorIgnored(h)
    <3>1. pending[p] = {s} /\ h.file \in {"reset", "defaults"}
      <4>1. h.file \in {"reset", "defaults"}
        BY <2>3, Zenon DEF errorIgnored
      <4>2. Selects(s)
        BY <1>6, <4>1, Zenon DEF Front, Selects
      <4> QED BY <1>1, <1>9, <4>1, <4>2, Zenon DEF ListsOK, Apart
    <3>2. /\ pending'[p] \subseteq {t} /\ cmd'[p] = cmd[p]
          /\ RefsGoFirst(s) /\ Paired(s) /\ Seen(cmd[p], s)
          /\ cmd[p].kind = "load" => LooksUp(s)
      BY <1>1, <1>7, <1>8, <1>9, <2>3, <3>1, Zenon DEF ListsOK, Fine
    <3>3. PICK c : c = cmd[p]
      BY Zenon
    <3>4. Fine(c, t) /\ (c.kind = "load" => LooksUp(t))
      BY <1>6, <3>1, <3>2, <3>3, TailFine, Zenon DEF Fine
    <3>5. PICK K : K = pending'[p]
      BY Zenon
    <3>6. ListsOK(c, {t})
      BY <3>4, OneList, Zenon
    <3>7. ListsOK(c, K)'
      BY <1>2, <3>2, <3>5, <3>6, SameFiles, Zenon
    <3> QED BY <3>2, <3>3, <3>5, <3>7, Zenon
  <2> QED BY <2>1, <2>2, <2>3, Zenon
<1>11. ASSUME NEW q \in Proc PROVE ListsOK(cmd[q], pending[q])'
  <2>1. CASE q # p
    BY <1>7, <2>1, Zenon DEF ListsOK, Apart
  <2> QED BY <1>10, <2>1, Zenon
<1>12. LockCoversWrites' /\ AtRest'
  BY <1>2, <1>7, <1>8, Zenon DEF SInv, LockCoversWrites, AtRest
<1>13. RefsHaveBuilder' /\ NamesAgree'
  BY <1>2, Zenon DEF SInv, RefsHaveBuilder, NamesAgree
<1>14. Settled'
  <2> SUFFICES ASSUME current # NoFile, current.key \notin torn'
               PROVE  \/ defaults[current.key] \in {NoFile, current.name}
                      \/ current.key \in unset(pending'[p])
    BY <1>2, Zenon DEF Settled, unset
  <2>1. Settled /\ current.key \notin torn /\ current.key \notin unset({s})
    BY <1>1, Zenon DEF SInv
  <2>2. ASSUME NEW q \in Proc, current.key \in unset(pending[q])
        PROVE  current.key \in unset(pending'[p])
    <3>1. q = p
      BY <1>2, <2>2, Zenon DEF unset
    <3>2. PICK u \in pending[p] : \E i \in DOMAIN u :
                                    u[i].file = "defaults" /\ u[i].at = current.key
      BY <2>2, <3>1, Zenon DEF unset
    <3>3. current.key \in Key
      BY <2>2, Zenon DEF unset
    <3>4. u # s
      BY <2>1, <3>2, <3>3, Zenon DEF unset
    <3>5. u \in pending'[p]
      BY <1>7, <3>4, Zenon
    <3> QED BY <3>2, <3>3, <3>5, Zenon DEF unset
  <2> QED BY <2>1, <2>2, Zenon DEF Settled
<1> QED BY <1>11, <1>12, <1>13, <1>14, Zenon DEF SInv

LEMMA KillIInv ==
    ASSUME IInv, NEW p \in Proc, Kill(p)
    PROVE  IInv'
<1>1. Idle \in Command
  BY Zenon DEF Idle, Command
<1>2. torn' \subseteq Key
  BY Zenon DEF IInv, Kill, unset
<1> QED BY <1>1, <1>2, Zenon DEF IInv, WritesOK, Kill, files

(* A killed process loses its writes and its lock; the keys it left torn    *)
(* are remembered.                                                          *)
LEMMA KillSInv ==
    ASSUME IInv, SInv, NEW p \in Proc, Kill(p)
    PROVE  SInv'
<1>1. /\ pending'[p] = {} /\ cmd'[p] = Idle /\ torn' = torn \cup unset(pending[p])
      /\ lock' = IF lock = p THEN NoProc ELSE lock
      /\ UNCHANGED <<instances, refs, current, defaults, stray>>
      /\ \A q \in Proc : q # p => pending'[q] = pending[q] /\ cmd'[q] = cmd[q]
  BY Zenon DEF Kill, IInv, files
<1>2. ASSUME NEW q \in Proc PROVE ListsOK(cmd[q], pending[q])'
  <2>1. CASE q = p
    BY <1>1, <2>1, Zenon DEF ListsOK, Apart
  <2>2. CASE q # p
    <3>1. ListsOK(cmd[q], pending[q])
      BY Zenon DEF SInv
    <3> QED BY <1>1, <2>2, <3>1, SameLists, Zenon
  <2> QED BY <2>1, <2>2, Zenon
<1>3. LockCoversWrites' /\ AtRest'
  BY <1>1, StoreAssumption, Zenon DEF SInv, LockCoversWrites, AtRest
<1>4. RefsHaveBuilder' /\ NamesAgree'
  BY <1>1, Zenon DEF SInv, RefsHaveBuilder, NamesAgree
<1>5. Settled'
  <2> SUFFICES ASSUME current # NoFile, current.key \notin torn, current.key \notin unset(pending[p])
               PROVE  \/ defaults[current.key] \in {NoFile, current.name}
                      \/ \E q \in Proc : current.key \in unset(pending'[q])
    BY <1>1, Zenon DEF Settled, unset
  <2>1. ASSUME NEW q \in Proc, current.key \in unset(pending[q])
        PROVE  current.key \in unset(pending'[q])
    BY <1>1, <2>1, Zenon
  <2> QED BY <2>1, Zenon DEF SInv, Settled
<1> QED BY <1>2, <1>3, <1>4, <1>5, Zenon DEF SInv

(* The commands that remember the builder they loaded.                      *)
LEMMA CommandName ==
    ASSUME NEW c \in Command
    PROVE  /\ c.kind = "load" => c.name \in AnyName \cup {NoName}
           /\ c.kind \in {"loaded", "touch", "solve"} => c.name \in AnyName
BY Zenon DEF Command

LEMMA ReleaseIInv ==
    ASSUME IInv, NEW p \in Proc, Release(p)
    PROVE  IInv'
<1>1. cmd[p] \in Command
  BY Zenon DEF IInv
<1> DEFINE c == CASE cmd[p].kind = "load" /\ cmd[p].name # NoName /\ "build" \in Commands ->
                        [kind |-> "loaded", name |-> cmd[p].name]
                  [] cmd[p].kind = "touch" -> [kind |-> "solve", name |-> cmd[p].name]
                  [] OTHER -> Idle
<1>2. Idle \in Command
  BY Zenon DEF Idle, Command
<1>3. \A nm \in AnyName : /\ [kind |-> "loaded", name |-> nm] \in Command
                           /\ [kind |-> "solve", name |-> nm] \in Command
  BY Zenon DEF Command
<1>4. c \in Command
  BY <1>1, <1>2, <1>3, CommandName, Zenon
<1>5. cmd' = [cmd EXCEPT ![p] = c]
  BY Zenon DEF Release
<1> HIDE DEF c
<1>6. cmd' \in [Proc -> Command]
  BY <1>4, <1>5, Zenon DEF IInv
<1> QED BY <1>6, Zenon DEF IInv, WritesOK, Release, files

LEMMA ReleaseSInv ==
    ASSUME IInv, SInv, NEW p \in Proc, Release(p)
    PROVE  SInv'
<1>1. /\ lock = p /\ lock' = NoProc /\ pending[p] = {} /\ pending' = pending
      /\ UNCHANGED <<instances, refs, current, defaults, torn, stray>>
      /\ \A q \in Proc : q # p => cmd'[q] = cmd[q]
  BY Zenon DEF Release, IInv, files
<1>2. \A q \in Proc : pending[q] = {}
  BY <1>1, Zenon DEF SInv, LockCoversWrites
<1>3. \A q \in Proc : ListsOK(cmd[q], pending[q])'
  BY <1>1, <1>2, Zenon DEF ListsOK, Apart
<1>4. LockCoversWrites' /\ AtRest'
  BY <1>1, <1>2, StoreAssumption, Zenon DEF LockCoversWrites, AtRest
<1>5. RefsHaveBuilder' /\ NamesAgree' /\ Settled'
  BY <1>1, Zenon DEF SInv, RefsHaveBuilder, NamesAgree, Settled, unset
<1> QED BY <1>3, <1>4, <1>5, Zenon DEF SInv
-----------------------------------------------------------------------------
(* The lists of writes that the operations of the store make: each is       *)
(* typed, and fine in the state it is made in.  So the commands that change *)
(* no node keep the invariant, and so do the two saves of a build.          *)

LEMMA ConcatIndex ==
    ASSUME NEW S, NEW s \in Seq(S), NEW t \in Seq(S)
    PROVE  /\ s \o t \in Seq(S)
           /\ DOMAIN s = 1..Len(s) /\ DOMAIN t = 1..Len(t)
           /\ Len(s) \in Nat /\ Len(t) \in Nat
           /\ DOMAIN (s \o t) = 1..(Len(s) + Len(t))
           /\ \A i \in DOMAIN s : (s \o t)[i] = s[i]
           /\ \A i \in DOMAIN t : (s \o t)[Len(s) + i] = t[i]
           /\ \A i \in DOMAIN (s \o t) :
                 i \in DOMAIN s \/ (\E j \in DOMAIN t : i = Len(s) + j)
<1>1. Len(s) \in Nat /\ Len(t) \in Nat /\ DOMAIN s = 1..Len(s) /\ DOMAIN t = 1..Len(t)
  OBVIOUS
<1>2. /\ s \o t \in Seq(S) /\ Len(s \o t) = Len(s) + Len(t)
      /\ \A i \in 1..Len(s) + Len(t) :
            (s \o t)[i] = IF i <= Len(s) THEN s[i] ELSE t[i - Len(s)]
  OBVIOUS
<1>3. DOMAIN (s \o t) = 1..(Len(s) + Len(t))
  BY <1>2
<1>4. \A i \in DOMAIN t : (s \o t)[Len(s) + i] = t[i]
  BY <1>1, <1>2
<1>5. \A i \in DOMAIN s : (s \o t)[i] = s[i]
  BY <1>1, <1>2
<1>6. ASSUME NEW i \in DOMAIN (s \o t)
      PROVE  i \in DOMAIN s \/ (\E j \in DOMAIN t : i = Len(s) + j)
  <2>1. CASE i <= Len(s)
    BY <1>1, <1>3, <2>1
  <2>2. CASE ~(i <= Len(s))
    <3>1. i - Len(s) \in DOMAIN t /\ i = Len(s) + (i - Len(s))
      BY <1>1, <1>3, <2>2
    <3> QED BY <3>1, Zenon
  <2> QED BY <2>1, <2>2, Zenon
<1> QED BY <1>1, <1>2, <1>3, <1>4, <1>5, <1>6, Zenon

LEMMA OpFields ==
    ASSUME NEW f, NEW x, NEW v
    PROVE  Op(f, x, v).file = f /\ Op(f, x, v).at = x /\ Op(f, x, v).val = v
BY Zenon DEF Op

(* The lists of writes each operation makes, typed.                         *)
LEMMA SaveType ==
    ASSUME NEW g \in GoodGroup
    PROVE  Save(g) \in Seq(FileOp(GoodGroup)) /\ Save(g) # <<>>
<1>1. g.name \in AnyName /\ Lower(g.name) \in LowerName
  BY LowerNames, Zenon DEF GoodGroup, SavedGroup
<1>2. /\ Op("activity", g.name, "write") \in FileOp(GoodGroup)
      /\ Op("instances", Lower(g.name), g) \in FileOp(GoodGroup)
  BY <1>1, Zenon DEF Op, FileOp, ActivityOp, InstanceOp
<1> QED BY <1>2 DEF Save

LEMMA SaveFine ==
    ASSUME NEW g \in GoodGroup, NEW c, instances[Lower(g.name)] \in c.saw
    PROVE  Fine(c, Save(g))
<1>1. g # NoGroup
  BY StoreAssumption, Zenon DEF GoodGroup, SavedGroup
<1>2. PICK s : s = Save(g)
  BY Zenon
<1>3. /\ DOMAIN s = {1, 2} /\ s[1] = Op("activity", g.name, "write")
      /\ s[2] = Op("instances", Lower(g.name), g)
  BY <1>2 DEF Save
<1>4. /\ s[1].file = "activity" /\ s[2].file = "instances"
      /\ s[2].at = Lower(g.name) /\ s[2].val = g
  BY <1>3, OpFields
<1>5. RefsGoFirst(s) /\ Paired(s)
  BY <1>1, <1>3, <1>4, Zenon DEF RefsGoFirst, Paired
<1>6. Seen(c, s)
  BY <1>3, <1>4 DEF Seen
<1> QED BY <1>2, <1>5, <1>6, Zenon DEF Fine

LEMMA RemoveType ==
    ASSUME NEW nm \in AnyName
    PROVE  Remove(nm) \in Seq(FileOp(GoodGroup)) /\ Remove(nm) # <<>>
<1>1. Lower(nm) \in LowerName /\ Lower(nm) \in AnyName
  BY LowerNames, Zenon
<1>2. /\ Op("activity", Lower(nm), "remove") \in FileOp(GoodGroup)
      /\ Op("refs", Lower(nm), "remove") \in FileOp(GoodGroup)
      /\ Op("instances", Lower(nm), NoGroup) \in FileOp(GoodGroup)
  BY <1>1, Zenon DEF Op, FileOp, ActivityOp, InstanceOp, RefsOp
<1> QED BY <1>2 DEF Remove

LEMMA RemoveFine ==
    ASSUME NEW nm, NEW c, instances[Lower(nm)] \in c.saw
    PROVE  /\ Fine(c, Remove(nm)) /\ ~Selects(Remove(nm))
           /\ \A i \in DOMAIN Remove(nm) :
                 Remove(nm)[i].file = "instances" => Remove(nm)[i].at = Lower(nm)
<1>2. PICK s : s = Remove(nm)
  BY Zenon
<1>3. /\ DOMAIN s = {1, 2, 3} /\ s[1] = Op("activity", Lower(nm), "remove")
      /\ s[2] = Op("refs", Lower(nm), "remove")
      /\ s[3] = Op("instances", Lower(nm), NoGroup)
  BY <1>2 DEF Remove
<1>4. /\ s[1].file = "activity" /\ s[2].file = "refs" /\ s[3].file = "instances"
      /\ s[2].at = Lower(nm) /\ s[3].at = Lower(nm) /\ s[3].val = NoGroup
  BY <1>3, OpFields
<1>5. RefsGoFirst(s)
  BY <1>3, <1>4 DEF RefsGoFirst
<1>6. Paired(s) /\ ~Selects(s)
  BY <1>3, <1>4, Zenon DEF Paired, Selects
<1>7. Seen(c, s)
  BY <1>3, <1>4 DEF Seen
<1> QED BY <1>2, <1>3, <1>4, <1>5, <1>6, <1>7, Zenon DEF Fine

LEMMA SetCurrentType ==
    ASSUME NEW key \in Key, NEW nm \in AnyName \cup {NoName},
           NEW global \in BOOLEAN, NEW def \in BOOLEAN, def => nm # NoName
    PROVE  SetCurrent(key, nm, global, def) \in Seq(FileOp(GoodGroup))
<1> DEFINE sel == [key |-> key, name |-> nm, global |-> global]
           dv  == IF def THEN nm ELSE NoFile
<1>1. sel \in Selection /\ dv \in AnyName \cup {NoFile}
  BY Zenon DEF Selection
<1>2. /\ Op("current", NoFile, sel) \in FileOp(GoodGroup)
      /\ Op("defaults", key, dv) \in FileOp(GoodGroup)
  <2> HIDE DEF sel, dv
  <2> QED BY <1>1, Zenon DEF Op, FileOp, CurrentOp, DefaultsOp
<1> QED BY <1>2 DEF SetCurrent

(* The two writes of SetCurrent.                                            *)
LEMMA SetCurrentOps ==
    ASSUME NEW key, NEW nm, NEW global \in BOOLEAN, NEW def \in BOOLEAN, NEW s,
           s = SetCurrent(key, nm, global, def)
    PROVE  /\ Len(s) = 2 /\ DOMAIN s = {1, 2}
           /\ s[1].file = "current" /\ s[1].val.key = key /\ s[1].val.name = nm
           /\ s[1].val.global = global
           /\ s[2].file = "defaults" /\ s[2].at = key
           /\ s[2].val = IF def THEN nm ELSE NoFile
<1> DEFINE sel == [key |-> key, name |-> nm, global |-> global]
           dv  == IF def THEN nm ELSE NoFile
<1>1. sel.key = key /\ sel.name = nm /\ sel.global = global
  BY Zenon
<1> HIDE DEF sel, dv
<1>2. s = << Op("current", NoFile, sel), Op("defaults", key, dv) >>
  BY Zenon DEF SetCurrent, sel, dv
<1>3. Len(s) = 2 /\ DOMAIN s = {1, 2} /\ s[1] = Op("current", NoFile, sel)
      /\ s[2] = Op("defaults", key, dv)
  BY <1>2
<1> QED BY <1>1, <1>3, OpFields DEF dv

LEMMA SetCurrentFine ==
    ASSUME NEW key, NEW nm, NEW global \in BOOLEAN, NEW def \in BOOLEAN, NEW c
    PROVE  Fine(c, SetCurrent(key, nm, global, def))
<1>1. PICK s : s = SetCurrent(key, nm, global, def)
  BY Zenon
<1>2. /\ DOMAIN s = {1, 2}
      /\ s[1].file = "current" /\ s[1].val.key = key /\ s[1].val.name = nm
      /\ s[2].file = "defaults" /\ s[2].at = key
      /\ s[2].val \in {NoFile, nm}
  BY <1>1, SetCurrentOps
<1>3. RefsGoFirst(s) /\ Paired(s) /\ Seen(c, s)
  BY <1>2 DEF RefsGoFirst, Paired, Seen
<1> QED BY <1>1, <1>3, Zenon DEF Fine

LEMMA ResetType ==
    ASSUME NEW key \in Key
    PROVE  reset(key) \in Seq(FileOp(GoodGroup))
<1> DEFINE sel == [key |-> key, name |-> NoName, global |-> FALSE]
<1>1. sel \in Selection
  BY Zenon DEF Selection
<1>2. Op("reset", NoFile, sel) \in FileOp(GoodGroup)
  <2> HIDE DEF sel
  <2> QED BY <1>1, Zenon DEF Op, FileOp, CurrentOp
<1> QED BY <1>2 DEF reset

LEMMA ResetOps ==
    ASSUME NEW key, NEW s, s = reset(key)
    PROVE  /\ Len(s) = 1 /\ DOMAIN s = {1} /\ s[1].file = "reset"
           /\ s[1].val.key = key /\ s[1].val.name = NoName /\ s[1].val.global = FALSE
<1> DEFINE sel == [key |-> key, name |-> NoName, global |-> FALSE]
<1>1. sel.key = key /\ sel.name = NoName /\ sel.global = FALSE
  BY Zenon
<1> HIDE DEF sel
<1>2. s = << Op("reset", NoFile, sel) >>
  BY Zenon DEF reset, sel
<1>3. Len(s) = 1 /\ DOMAIN s = {1} /\ s[1] = Op("reset", NoFile, sel)
  BY <1>2
<1> QED BY <1>1, <1>3, OpFields

(* One list of writes after another.                                        *)
LEMMA ConcatFine ==
    ASSUME NEW c, NEW s \in Seq(FileOp(GoodGroup)), NEW t \in Seq(FileOp(GoodGroup)),
           Fine(c, s), Fine(c, t),
           \A i \in DOMAIN t : t[i].file # "reset",
           1 \in DOMAIN t => t[1].file # "defaults",
           \A i \in DOMAIN s : s[i].file = "instances" => s[i].val \in c.saw
    PROVE  Fine(c, s \o t)
<1>1. PICK w : w = s \o t
  BY Zenon
<1>2. PICK n \in Nat : n = Len(s)
  BY ConcatIndex, Zenon
<1>3. /\ w \in Seq(FileOp(GoodGroup)) /\ DOMAIN s = 1..n /\ DOMAIN t = 1..Len(t)
      /\ Len(t) \in Nat /\ DOMAIN w = 1..(n + Len(t))
      /\ \A i \in DOMAIN s : w[i] = s[i]
      /\ \A i \in DOMAIN t : w[n + i] = t[i]
      /\ \A i \in DOMAIN w : i \in DOMAIN s \/ \E j \in DOMAIN t : i = n + j
  <2>1. /\ s \o t \in Seq(FileOp(GoodGroup))
        /\ DOMAIN s = 1..Len(s) /\ DOMAIN t = 1..Len(t) /\ Len(t) \in Nat
        /\ DOMAIN (s \o t) = 1..(Len(s) + Len(t))
        /\ \A i \in DOMAIN s : (s \o t)[i] = s[i]
        /\ \A i \in DOMAIN t : (s \o t)[Len(s) + i] = t[i]
        /\ \A i \in DOMAIN (s \o t) :
              i \in DOMAIN s \/ \E j \in DOMAIN t : i = Len(s) + j
    BY ConcatIndex
  <2> QED BY <1>1, <1>2, <2>1, Zenon
<1>4. RefsGoFirst(w)
  <2> SUFFICES ASSUME NEW i \in DOMAIN w, w[i].file = "instances", w[i].val = NoGroup
               PROVE  \/ \E j \in 1..(i - 1) : w[j].file = "refs" /\ w[j].at = w[i].at
                      \/ w[i].at \notin refs \/ w[i].at \in stray
    BY Zenon DEF RefsGoFirst
  <2>1. CASE i \in DOMAIN s
    <3>1. \/ \E j \in 1..(i - 1) : s[j].file = "refs" /\ s[j].at = s[i].at
          \/ s[i].at \notin refs \/ s[i].at \in stray
      BY <1>3, <2>1, Zenon DEF Fine, RefsGoFirst
    <3>2. \A j \in 1..(i - 1) : w[j] = s[j]
      <4>1. i \in 1..n
        BY <1>3, <2>1, Zenon
      <4>2. \A j \in 1..(i - 1) : j \in 1..n
        BY <4>1
      <4> QED BY <1>3, <4>2, Zenon
    <3> QED BY <1>3, <2>1, <3>1, <3>2, Zenon
  <2>2. ASSUME NEW k \in DOMAIN t, i = n + k
        PROVE  \/ \E j \in 1..(i - 1) : w[j].file = "refs" /\ w[j].at = w[i].at
               \/ w[i].at \notin refs \/ w[i].at \in stray
    <3>1. \/ \E j \in 1..(k - 1) : t[j].file = "refs" /\ t[j].at = t[k].at
          \/ t[k].at \notin refs \/ t[k].at \in stray
      BY <1>3, <2>2, Zenon DEF Fine, RefsGoFirst
    <3>2. ASSUME NEW j \in 1..(k - 1), t[j].file = "refs", t[j].at = t[k].at
          PROVE  \E m \in 1..(i - 1) : w[m].file = "refs" /\ w[m].at = w[i].at
      <4>1. k \in 1..Len(t) /\ Len(t) \in Nat
        BY <1>3, Zenon
      <4>2. n + j \in 1..(i - 1) /\ j \in 1..Len(t)
        BY <2>2, <4>1
      <4>3. w[n + j] = t[j] /\ w[i] = t[k]
        BY <1>3, <2>2, <4>2, Zenon
      <4> QED BY <3>2, <4>2, <4>3, Zenon
    <3> QED BY <1>3, <2>2, <3>1, <3>2, Zenon
  <2> QED BY <1>3, <2>1, <2>2, Zenon
<1>5. Paired(w)
  <2>1. ASSUME NEW i \in DOMAIN w, w[i].file = "current"
        PROVE  /\ i + 1 \in DOMAIN w /\ w[i + 1].file = "defaults"
               /\ w[i + 1].at = w[i].val.key
               /\ w[i + 1].val \in {NoFile, w[i].val.name}
    <3>1. CASE i \in DOMAIN s
      BY <1>3, <2>1, <3>1 DEF Fine, Paired
    <3>2. ASSUME NEW k \in DOMAIN t, i = n + k
          PROVE  /\ i + 1 \in DOMAIN w /\ w[i + 1].file = "defaults"
                 /\ w[i + 1].at = w[i].val.key
                 /\ w[i + 1].val \in {NoFile, w[i].val.name}
      <4>1. k + 1 \in DOMAIN t /\ i + 1 = n + (k + 1) /\ w[i] = t[k]
        BY <1>3, <2>1, <3>2 DEF Fine, Paired
      <4>2. w[i + 1] = t[k + 1] /\ i + 1 \in DOMAIN w
        BY <1>3, <4>1
      <4> QED BY <2>1, <4>1, <4>2 DEF Fine, Paired
    <3> QED BY <1>3, <3>1, <3>2, Zenon
  <2>2. ASSUME NEW i \in DOMAIN w, w[i].file = "defaults"
        PROVE  IF i = 1 THEN /\ current # NoFile /\ current.key = w[i].at
                             /\ w[i].val \in {NoFile, current.name}
                        ELSE w[i - 1].file = "current"
    <3>1. CASE i \in DOMAIN s
      <4>1. i # 1 => i - 1 \in DOMAIN s
        BY <1>3, <3>1
      <4> QED BY <1>3, <2>2, <3>1, <4>1 DEF Fine, Paired
    <3>2. ASSUME NEW k \in DOMAIN t, i = n + k
          PROVE  i # 1 /\ w[i - 1].file = "current"
      <4>1. t[k].file = "defaults" /\ k # 1
        BY <1>3, <2>2, <3>2, Zenon
      <4>2. k - 1 \in DOMAIN t /\ i - 1 = n + (k - 1) /\ i # 1
        BY <1>3, <3>2, <4>1
      <4>3. w[i - 1] = t[k - 1]
        BY <1>3, <4>2, Zenon
      <4> QED BY <4>1, <4>2, <4>3 DEF Fine, Paired
    <3>3. i \in DOMAIN s \/ \E k \in DOMAIN t : i = n + k
      BY <1>3, Zenon
    <3> QED BY <3>1, <3>2, <3>3, Zenon
  <2>3. ASSUME NEW i \in DOMAIN w, w[i].file = "reset"
        PROVE  /\ i = 1
               /\ \/ \E j \in DOMAIN w : w[j].file = "defaults" /\ w[j].at = w[i].val.key
                  \/ defaults[w[i].val.key] = NoFile
    <3>1. i \in DOMAIN s
      BY <1>3, <2>3
    <3>2. /\ i = 1
          /\ \/ \E j \in DOMAIN s : s[j].file = "defaults" /\ s[j].at = s[i].val.key
             \/ defaults[s[i].val.key] = NoFile
      BY <1>3, <2>3, <3>1 DEF Fine, Paired
    <3>3. \A j \in DOMAIN s : j \in DOMAIN w /\ w[j] = s[j]
      BY <1>3
    <3> QED BY <3>1, <3>2, <3>3, Zenon
  <2> QED BY <2>1, <2>2, <2>3, Zenon DEF Paired
<1>6. Seen(c, w)
  <2> SUFFICES ASSUME NEW i \in DOMAIN w, w[i].file = "instances"
               PROVE  /\ instances[w[i].at] \in c.saw
                      /\ w[i].val # NoGroup => Lower(w[i].val.name) = w[i].at
                      /\ \A j \in 1..(i - 1) : w[j].file = "instances" => w[j].val \in c.saw
    BY Zenon DEF Seen
  <2>1. CASE i \in DOMAIN s
    <3>1. w[i] = s[i] /\ \A j \in 1..(i - 1) : w[j] = s[j]
      BY <1>3, <2>1
    <3> QED BY <2>1, <3>1, Zenon DEF Fine, Seen
  <2>2. ASSUME NEW k \in DOMAIN t, i = n + k
        PROVE  /\ instances[w[i].at] \in c.saw
               /\ w[i].val # NoGroup => Lower(w[i].val.name) = w[i].at
               /\ \A j \in 1..(i - 1) : w[j].file = "instances" => w[j].val \in c.saw
    <3>1. w[i] = t[k]
      BY <1>3, <2>2, Zenon
    <3>2. ASSUME NEW j \in 1..(i - 1), w[j].file = "instances" PROVE w[j].val \in c.saw
      <4>1. CASE j \in DOMAIN s
        BY <1>3, <3>2, <4>1, Zenon
      <4>2. ASSUME NEW m \in DOMAIN t, j = n + m PROVE w[j].val \in c.saw
        <5>1. m \in 1..(k - 1) /\ w[j] = t[m]
          BY <1>3, <2>2, <4>2
        <5> QED BY <3>1, <3>2, <5>1, Zenon DEF Fine, Seen
      <4>3. j \in DOMAIN w
        BY <1>3, <2>2
      <4> QED BY <1>3, <4>1, <4>2, <4>3, Zenon
    <3> QED BY <3>1, <3>2, Zenon DEF Fine, Seen
  <2> QED BY <1>3, <2>1, <2>2, Zenon
<1> QED BY <1>1, <1>4, <1>5, <1>6, Zenon DEF Fine

-----------------------------------------------------------------------------
(* Looking a builder up gives a saved group; the current builder exists.    *)
LEMMA LookupType ==
    ASSUME IInv
    PROVE  /\ \A nm \in AnyName : /\ NodeGroupByName(nm) = instances[Lower(nm)]
                                  /\ NodeGroupByName(nm) \in GoodGroup \cup {NoGroup}
           /\ NodeGroupByName(NoName) = NoGroup
<1>1. ~ValidName(NoName)
  BY Zenon DEF ValidName, NoName
<1> QED BY <1>1, LowerNames, Zenon DEF IInv, NodeGroupByName

LEMMA CurrentNameType ==
    ASSUME IInv, NEW key \in Key
    PROVE  \/ CurrentName(key) = NoName
           \/ /\ CurrentName(key) \in AnyName
              /\ NodeGroupByName(CurrentName(key)) \in GoodGroup
<1>1. NoFile \notin Selection
  BY StoreAssumption, Zenon
<1>2. current # NoFile => current.name \in AnyName \cup {NoName}
  BY Zenon DEF IInv, Selection
<1>3. defaults[key] # NoFile => defaults[key] \in AnyName
  BY Zenon DEF IInv
<1>4. CASE selectedGlobally
  BY <1>2, <1>4, LookupType, Zenon DEF selectedGlobally, CurrentName
<1>5. CASE ~selectedGlobally /\ selectedFor(key)
  BY <1>2, <1>5, LookupType, Zenon DEF selectedFor, CurrentName
<1>6. CASE ~selectedGlobally /\ ~selectedFor(key)
  BY <1>3, <1>6, LookupType, Zenon DEF CurrentName
<1> QED BY <1>4, <1>5, <1>6, Zenon

LEMMA CurrentWritesType ==
    ASSUME IInv, NEW key \in Key
    PROVE  CurrentWrites(key) \in Seq(FileOp(GoodGroup))
<1>1. <<>> \in Seq(FileOp(GoodGroup)) /\ reset(key) \in Seq(FileOp(GoodGroup))
  BY ResetType
<1>2. CASE selectedGlobally \/ selectedFor(key)
  BY <1>1, <1>2, Zenon DEF CurrentWrites
<1>3. CASE ~(selectedGlobally \/ selectedFor(key)) /\ defaults[key] = NoFile
  BY <1>1, <1>3, Zenon DEF CurrentWrites
<1>4. CASE ~(selectedGlobally \/ selectedFor(key)) /\ defaults[key] # NoFile
  <2> DEFINE first == IF NodeGroupByName(defaults[key]) = NoGroup THEN reset(key) ELSE <<>>
             second == SetCurrent(key, defaults[key], FALSE, TRUE)
  <2>1. defaults[key] \in AnyName /\ defaults[key] # NoName
    BY <1>4, LowerNames, Zenon DEF IInv
  <2>2. first \in Seq(FileOp(GoodGroup))
    BY <1>1, Zenon
  <2>3. second \in Seq(FileOp(GoodGroup))
    BY <2>1, SetCurrentType, Zenon
  <2>4. CurrentWrites(key) = first \o second
    BY <1>4, Zenon DEF CurrentWrites
  <2> HIDE DEF first, second
  <2> QED BY <2>2, <2>3, <2>4, ConcatIndex
<1> QED BY <1>2, <1>3, <1>4, Zenon

(* The writes of Current: they select nothing, reset a key without default, *)
(* or select the default, which they leave as it is.                        *)
LEMMA CurrentWritesFine ==
    ASSUME IInv, NEW key \in Key, NEW c
    PROVE  /\ Fine(c, CurrentWrites(key)) /\ LooksUp(CurrentWrites(key))
           /\ \A i \in DOMAIN CurrentWrites(key) :
                 CurrentWrites(key)[i].file # "instances"
<1>1. CASE selectedGlobally \/ selectedFor(key)
  <2>1. CurrentWrites(key) = <<>>
    BY <1>1, Zenon DEF CurrentWrites
  <2> QED BY <2>1 DEF Fine, RefsGoFirst, Paired, Seen, LooksUp
<1>2. CASE ~(selectedGlobally \/ selectedFor(key)) /\ defaults[key] = NoFile
  <2>1. PICK s : s = CurrentWrites(key)
    BY Zenon
  <2>2. s = reset(key)
    BY <1>2, <2>1, Zenon DEF CurrentWrites
  <2>3. /\ DOMAIN s = {1} /\ s[1].file = "reset"
        /\ s[1].val.key = key /\ s[1].val.name = NoName /\ s[1].val.global = FALSE
    BY <2>2, ResetOps, Zenon
  <2>4. RefsGoFirst(s) /\ Paired(s) /\ Seen(c, s) /\ LooksUp(s)
    BY <1>2, <2>3, Zenon DEF RefsGoFirst, Paired, Seen, LooksUp
  <2> QED BY <2>1, <2>3, <2>4, Zenon DEF Fine
<1>3. CASE ~(selectedGlobally \/ selectedFor(key)) /\ defaults[key] # NoFile
  <2>1. PICK d : d = defaults[key]
    BY Zenon
  <2>2. PICK t : t = SetCurrent(key, d, FALSE, TRUE)
    BY Zenon
  <2>3. d \in AnyName /\ d # NoName
    BY <1>3, <2>1, LowerNames, Zenon DEF IInv
  <2>4. /\ Len(t) = 2 /\ DOMAIN t = {1, 2}
        /\ t[1].file = "current" /\ t[1].val.key = key /\ t[1].val.name = d
        /\ t[1].val.global = FALSE
        /\ t[2].file = "defaults" /\ t[2].at = key /\ t[2].val = d
    <3>1. PICK gl \in BOOLEAN, df \in BOOLEAN : gl = FALSE /\ df = TRUE
      BY Zenon
    <3>2. t = SetCurrent(key, d, gl, df)
      BY <2>2, <3>1, Zenon
    <3>3. /\ Len(t) = 2 /\ DOMAIN t = {1, 2}
          /\ t[1].file = "current" /\ t[1].val.key = key /\ t[1].val.name = d
          /\ t[1].val.global = gl
          /\ t[2].file = "defaults" /\ t[2].at = key
          /\ t[2].val = IF df THEN d ELSE NoFile
      BY <3>2, SetCurrentOps
    <3> QED BY <3>1, <3>3, Zenon
  <2>5. t \in Seq(FileOp(GoodGroup))
    BY <2>2, <2>3, SetCurrentType, Zenon
  <2>6. CASE NodeGroupByName(d) # NoGroup
    <3>1. CurrentWrites(key) = <<>> \o t
      BY <1>3, <2>1, <2>2, <2>6, Zenon DEF CurrentWrites
    <3>2. <<>> \o t = t
      BY <2>5
    <3>3. RefsGoFirst(t) /\ Paired(t) /\ Seen(c, t) /\ LooksUp(t)
      BY <2>1, <2>4 DEF RefsGoFirst, Paired, Seen, LooksUp
    <3> QED BY <2>4, <3>1, <3>2, <3>3, Zenon DEF Fine
  <2>7. CASE NodeGroupByName(d) = NoGroup
    <3>1. PICK s : s = reset(key)
      BY Zenon
    <3>2. PICK w : w = s \o t
      BY Zenon
    <3>3. CurrentWrites(key) = w
      BY <1>3, <2>1, <2>2, <2>7, <3>1, <3>2, Zenon DEF CurrentWrites
    <3>4. /\ Len(s) = 1 /\ DOMAIN s = {1} /\ s[1].file = "reset" /\ s[1].val.key = key
          /\ s[1].val.name = NoName /\ s[1].val.global = FALSE
      BY <3>1, ResetOps, Zenon
    <3>5. s \in Seq(FileOp(GoodGroup))
      BY <3>1, ResetType, Zenon
    <3>6. /\ DOMAIN w = 1..(Len(s) + Len(t)) /\ \A i \in DOMAIN s : w[i] = s[i]
          /\ \A i \in DOMAIN t : w[Len(s) + i] = t[i]
      BY <2>5, <3>2, <3>5, ConcatIndex
    <3>7. DOMAIN w = {1, 2, 3} /\ w[1] = s[1] /\ w[2] = t[1] /\ w[3] = t[2]
      BY <2>4, <3>4, <3>6
    <3>8. RefsGoFirst(w) /\ Paired(w) /\ Seen(c, w) /\ LooksUp(w)
      BY <2>1, <2>4, <3>4, <3>7 DEF RefsGoFirst, Paired, Seen, LooksUp
    <3> QED BY <2>4, <3>3, <3>4, <3>7, <3>8, Zenon DEF Fine
  <2> QED BY <2>6, <2>7, Zenon
<1> QED BY <1>1, <1>2, <1>3, Zenon

-----------------------------------------------------------------------------
LEMMA UpdateLastActivityIInv ==
    ASSUME IInv, NEW p \in Proc, UpdateLastActivity(p)
    PROVE  IInv'
<1>1. cmd[p] \in Command /\ cmd[p].kind = "loaded"
  BY Zenon DEF IInv, UpdateLastActivity
<1>2. PICK nm \in AnyName : nm = cmd[p].name
  BY <1>1, CommandName, Zenon
<1>3. [kind |-> "touch", name |-> nm] \in Command
  BY Zenon DEF Command
<1>4. <<Op("activity", nm, "write")>> \in Seq(FileOp(GoodGroup))
  <2>1. Op("activity", nm, "write") \in FileOp(GoodGroup)
    BY Zenon DEF Op, FileOp, ActivityOp
  <2> QED BY <2>1
<1>5. <<Op("activity", nm, "write")>> # <<>>
  BY Zenon
<1>6. WritesOK' /\ DOMAIN pending' = Proc
  BY <1>2, <1>4, <1>5, Zenon DEF IInv, WritesOK, UpdateLastActivity
<1>7. cmd' \in [Proc -> Command]
  BY <1>2, <1>3, Zenon DEF IInv, UpdateLastActivity
<1> QED BY <1>6, <1>7, Zenon DEF IInv, UpdateLastActivity, files

LEMMA UpdateLastActivitySInv ==
    ASSUME IInv, SInv, NEW p \in Proc, UpdateLastActivity(p)
    PROVE  SInv'
<1>1. PICK w : w = <<Op("activity", cmd[p].name, "write")>>
  BY Zenon
<1>2. /\ lock = NoProc /\ lock' = p /\ pending'[p] = {w} /\ cmd'[p].kind = "touch"
      /\ UNCHANGED <<instances, refs, current, defaults, torn, stray>>
      /\ \A q \in Proc : q # p => cmd'[q] = cmd[q] /\ pending'[q] = pending[q]
  BY <1>1, Zenon DEF UpdateLastActivity, IInv, files
<1>3. DOMAIN w = {1} /\ w[1].file = "activity"
  BY <1>1, OpFields
<1>4. \A q \in Proc : pending[q] = {}
  BY <1>2, StoreAssumption, Zenon DEF SInv, LockCoversWrites
<1>5. ASSUME NEW q \in Proc PROVE ListsOK(cmd[q], pending[q])'
  <2>1. CASE q = p
    BY <1>2, <1>3, <2>1 DEF ListsOK, Fine, Apart, RefsGoFirst, Paired, Seen
  <2>2. CASE q # p
    BY <1>2, <1>4, <2>2, Zenon DEF ListsOK, Apart
  <2> QED BY <2>1, <2>2, Zenon
<1>6. LockCoversWrites' /\ AtRest'
  BY <1>2, <1>4, StoreAssumption, Zenon DEF LockCoversWrites, AtRest
<1>7. RefsHaveBuilder' /\ NamesAgree'
  BY <1>2, Zenon DEF SInv, RefsHaveBuilder, NamesAgree
<1>8. Settled'
  BY <1>2, <1>4, Zenon DEF SInv, Settled, unset
<1> QED BY <1>5, <1>6, <1>7, <1>8, Zenon DEF SInv

(* A name in lower case is its own instance's name.                         *)
LEMMA LowerFixed ==
    /\ \A b \in AnyName : ~b.upper => Lower(b) = b /\ b \in LowerName
    /\ \A b \in LowerName : ~b.upper
<1>1. ASSUME NEW b \in AnyName, ~b.upper PROVE Lower(b) = b /\ b \in LowerName
  <2>1. b \in Name
    BY LowerNames, Zenon
  <2>2. Lower(b) = b
    BY <1>1, <2>1, Zenon DEF Name, Lower
  <2> QED BY <2>2, LowerNames, Zenon
<1>2. \A nm : Lower(nm).upper = FALSE
  BY Zenon DEF Lower
<1> QED BY <1>1, <1>2, Zenon DEF LowerName

LEMMA SaveRefIInv ==
    ASSUME IInv, NEW p \in Proc, SaveRef(p)
    PROVE  IInv'
<1>1. cmd[p] \in Command /\ cmd[p].kind = "solve"
  BY Zenon DEF IInv, SaveRef
<1>2. cmd[p].name \in AnyName
  BY <1>1, CommandName, Zenon
<1>3. Idle \in Command
  BY Zenon DEF Idle, Command
<1> QED BY <1>2, <1>3, Zenon DEF IInv, WritesOK, SaveRef

(* saveLocalState, without the lock: what it saves behind rm's back is       *)
(* stray.                                                                   *)
LEMMA SaveRefSInv ==
    ASSUME IInv, SInv, NEW p \in Proc, SaveRef(p)
    PROVE  SInv'
<1>1. PICK nm : nm = cmd[p].name
  BY Zenon
<1>2. /\ refs' = refs \cup {nm} /\ cmd[p].kind = "solve" /\ cmd' = [cmd EXCEPT ![p] = Idle]
      /\ stray' = IF instances[Lower(nm)] = NoGroup \/ removing(Lower(nm))
                  THEN stray \cup {nm} ELSE stray
      /\ UNCHANGED <<instances, current, defaults, lock, pending, torn>>
  BY <1>1, Zenon DEF SaveRef
<1>3. nm \in AnyName
  BY <1>1, <1>2, CommandName, Zenon DEF IInv
<1>4. lock # p /\ pending[p] = {}
  BY <1>2, Zenon DEF SInv, AtRest, LockCoversWrites
<1>5. cmd'[p] = Idle /\ \A q \in Proc : q # p => cmd'[q] = cmd[q]
  BY <1>2, Zenon DEF IInv
<1>6. ASSUME NEW q \in Proc, NEW s \in pending[q] PROVE RefsGoFirst(s)'
  <2> SUFFICES ASSUME NEW i \in DOMAIN s, s[i].file = "instances", s[i].val = NoGroup,
                      s[i].at \notin refs, s[i].at = nm
               PROVE  nm \in stray'
    <3>1. RefsGoFirst(s)
      BY <1>6, Zenon DEF SInv, ListsOK, Fine
    <3> QED BY <1>2, <3>1, Zenon DEF RefsGoFirst
  <2>1. s[i] \in FileOp(GoodGroup)
    BY <1>6 DEF IInv, WritesOK
  <2>2. s[i] \in InstanceOp(GoodGroup)
    BY <2>1, Zenon DEF FileOp, InstanceOp, ActivityOp, RefsOp, CurrentOp, DefaultsOp
  <2>3. s[i] = Op("instances", nm, NoGroup) /\ nm \in LowerName
    BY <2>2, Zenon DEF InstanceOp, Op
  <2>4. Lower(nm) = nm
    BY <1>3, <2>3, LowerFixed, Zenon
  <2>5. removing(nm)
    BY <1>6, <2>3, Zenon DEF removing
  <2> QED BY <1>2, <2>4, <2>5, Zenon
<1>7. ASSUME NEW q \in Proc PROVE ListsOK(cmd[q], pending[q])'
  <2>1. CASE q = p
    BY <1>2, <1>4, <2>1, Zenon DEF ListsOK, Apart
  <2>2. CASE q # p
    <3>1. ListsOK(cmd[q], pending[q])
      BY Zenon DEF SInv
    <3>2. ASSUME NEW s \in pending[q] PROVE Fine(cmd[q], s)'
      <4>1. Fine(cmd[q], s)
        BY <3>1, Zenon DEF ListsOK
      <4>2. Paired(s)'
        BY <1>2, <4>1, Zenon DEF Fine, Paired
      <4>3. Seen(cmd[q], s)'
        BY <1>2, <1>5, <2>2, <4>1, Zenon DEF Fine, Seen
      <4> QED BY <1>6, <4>2, <4>3, Zenon DEF Fine
    <3>3. ASSUME cmd[q].kind = "load", NEW s \in pending[q] PROVE LooksUp(s)'
      BY <1>2, <3>1, <3>3, Zenon DEF ListsOK, LooksUp
    <3>4. Apart(cmd[q], pending[q])'
      BY <1>2, <1>5, <2>2, <3>1 DEF ListsOK, Apart, Selects
    <3> QED BY <1>2, <1>5, <2>2, <3>2, <3>3, <3>4, Zenon DEF ListsOK
  <2> QED BY <2>1, <2>2, Zenon
<1>8. LockCoversWrites' /\ AtRest'
  BY <1>2, <1>4, <1>5, Zenon DEF SInv, LockCoversWrites, AtRest
<1>9. RefsHaveBuilder'
  <2> SUFFICES ASSUME NEW b \in refs', ~b.upper, b \notin stray'
               PROVE  instances[b] # NoGroup
    BY <1>2, Zenon DEF RefsHaveBuilder
  <2>1. CASE b = nm
    BY <1>2, <1>3, <2>1, LowerFixed, Zenon
  <2>2. CASE b # nm
    BY <1>2, <2>2, Zenon DEF SInv, RefsHaveBuilder
  <2> QED BY <2>1, <2>2, Zenon
<1>10. NamesAgree' /\ Settled'
  BY <1>2, Zenon DEF SInv, NamesAgree, Settled, unset
<1> QED BY <1>7, <1>8, <1>9, <1>10, Zenon DEF SInv

-----------------------------------------------------------------------------
(* Starting a command with well-formed writes.                              *)
LEMMA BeginIInv ==
    ASSUME IInv, NEW p \in Proc, NEW c \in Command,
           NEW lists, \A s \in lists : s \in Seq(FileOp(GoodGroup)),
           Begin(p, c, lists)
    PROVE  IInv'
<1>1. WritesOK'
  BY Zenon DEF IInv, WritesOK, Begin
<1> QED BY <1>1, Zenon DEF IInv, Begin, files

LEMMA BeginSInv ==
    ASSUME IInv, SInv, NEW p \in Proc, NEW c, NEW L, Begin(p, c, L), ListsOK(c, L)
    PROVE  SInv'
<1>1. /\ lock = NoProc /\ lock' = p /\ cmd'[p] = c /\ pending'[p] = L \ {<<>>}
      /\ UNCHANGED <<instances, activity, refs, current, defaults, torn, stray>>
      /\ \A q \in Proc : q # p => cmd'[q] = cmd[q] /\ pending'[q] = pending[q]
  BY Zenon DEF Begin, IInv, files
<1>2. \A q \in Proc : pending[q] = {}
  BY <1>1, StoreAssumption, Zenon DEF SInv, LockCoversWrites
<1>3. ASSUME NEW q \in Proc PROVE ListsOK(cmd[q], pending[q])'
  <2>1. CASE q = p
    <3>1. PICK K : K = L \ {<<>>}
      BY Zenon
    <3>2. ListsOK(c, K)'
      BY <1>1, <3>1, SameFiles, Zenon
    <3> QED BY <1>1, <2>1, <3>1, <3>2, Zenon
  <2>2. CASE q # p
    BY <1>1, <1>2, <2>2, Zenon DEF ListsOK, Apart
  <2> QED BY <2>1, <2>2, Zenon
<1>4. LockCoversWrites' /\ AtRest'
  <2>1. c.kind \notin {"idle", "loaded", "solve"}
    BY StoreAssumption, Zenon DEF Begin
  <2> QED BY <1>1, <1>2, <2>1, StoreAssumption, Zenon DEF LockCoversWrites, AtRest
<1>5. RefsHaveBuilder' /\ NamesAgree'
  BY <1>1, Zenon DEF SInv, RefsHaveBuilder, NamesAgree
<1>6. Settled'
  BY <1>1, <1>2, Zenon DEF SInv, Settled, unset
<1> QED BY <1>3, <1>4, <1>5, <1>6, Zenon DEF SInv

LEMMA BeginInv ==
    ASSUME IInv, SInv, NEW p \in Proc, NEW c \in Command, NEW w,
           w \in Seq(FileOp(GoodGroup)), Fine(c, w), c.kind = "load" => LooksUp(w),
           Begin(p, c, {w})
    PROVE  IInv' /\ SInv'
<1>1. ListsOK(c, {w})
  BY OneList, Zenon
<1> QED BY <1>1, BeginIInv, BeginSInv, Zenon

LEMMA UseInv ==
    ASSUME IInv, SInv, NEW p \in Proc, Use(p)
    PROVE  IInv' /\ SInv'
<1>1. PICK key \in Key, nm \in BuilderName \cup {NoName},
           global \in BOOLEAN, def \in BOOLEAN :
        /\ nm = NoName => ~def
        /\ Begin(p, [kind |-> "use"], {SetCurrent(key, nm, global, def)})
  BY Zenon DEF Use
<1>2. nm \in AnyName \cup {NoName} /\ (def => nm # NoName)
  BY <1>1, LowerNames, Zenon
<1>3. PICK c : c = [kind |-> "use"]
  BY Zenon
<1>4. /\ c \in Command /\ c.kind = "use"
      /\ Begin(p, c, {SetCurrent(key, nm, global, def)})
  BY <1>1, <1>3, Zenon DEF Command
<1>5. /\ SetCurrent(key, nm, global, def) \in Seq(FileOp(GoodGroup))
      /\ Fine(c, SetCurrent(key, nm, global, def))
  BY <1>2, SetCurrentType, SetCurrentFine, Zenon
<1> QED BY <1>4, <1>5, BeginInv, Zenon

(* The goroutines of rm remove different groups.                            *)
LEMMA RmInv ==
    ASSUME IInv, SInv, NEW p \in Proc, Rm(p)
    PROVE  IInv' /\ SInv'
<1>1. PICK S \in SUBSET {b \in LowerName : instances[b] # NoGroup} :
        Begin(p, [kind |-> "rm", saw |-> {instances[b] : b \in S}],
              {Remove(instances[b].name) : b \in S})
  BY Zenon DEF Rm
<1>2. PICK c : c = [kind |-> "rm", saw |-> {instances[b] : b \in S}]
  BY Zenon
<1>3. PICK L : L = {Remove(instances[b].name) : b \in S}
  BY Zenon
<1>4. c.kind = "rm" /\ c.saw = {instances[b] : b \in S} /\ Begin(p, c, L)
  BY <1>1, <1>2, <1>3, Zenon
<1>5. \A b \in S : Lower(instances[b].name) = b
  BY Zenon DEF SInv, NamesAgree
<1>6. ASSUME NEW b \in S
      PROVE  /\ Fine(c, Remove(instances[b].name)) /\ ~Selects(Remove(instances[b].name))
             /\ \A i \in DOMAIN Remove(instances[b].name) :
                   Remove(instances[b].name)[i].file = "instances" =>
                      Remove(instances[b].name)[i].at = b
  <2>1. instances[Lower(instances[b].name)] \in c.saw
    BY <1>4, <1>5, Zenon
  <2> QED BY <1>5, <2>1, RemoveFine, Zenon
<1>7. ASSUME NEW s \in L, NEW t \in L, s # t
      PROVE  /\ ~Selects(s)
             /\ \A i \in DOMAIN s, j \in DOMAIN t :
                   s[i].file = "instances" /\ t[j].file = "instances" => s[i].at # t[j].at
  <2>1. PICK a \in S : s = Remove(instances[a].name)
    BY <1>3, Zenon
  <2>2. PICK b \in S : t = Remove(instances[b].name)
    BY <1>3, Zenon
  <2>3. a # b
    BY <1>7, <2>1, <2>2, Zenon
  <2> QED BY <1>6, <2>1, <2>2, <2>3
<1>8. \A s \in L : Fine(c, s)
  BY <1>3, <1>6, Zenon
<1>9. ListsOK(c, L)
  BY <1>4, <1>7, <1>8, Zenon DEF ListsOK, Apart
<1>10. \A b \in S : instances[b] \in SavedGroup /\ instances[b].name \in AnyName
  BY Zenon DEF IInv, GoodGroup, SavedGroup
<1>11. c \in Command
  <2>1. c.saw \in SUBSET (SavedGroup \cup {NoGroup})
    BY <1>4, <1>10, Zenon
  <2>2. c = [kind |-> "rm", saw |-> c.saw]
    BY <1>2, Zenon
  <2> QED BY <2>1, <2>2 DEF Command
<1>12. \A s \in L : s \in Seq(FileOp(GoodGroup))
  BY <1>3, <1>10, RemoveType, Zenon
<1> QED BY <1>4, <1>9, <1>11, <1>12, BeginIInv, BeginSInv, Zenon

LEMMA RmCurrentInv ==
    ASSUME IInv, SInv, NEW p \in Proc, RmCurrent(p)
    PROVE  IInv' /\ SInv'
<1>1. PICK key \in Key :
        Begin(p, [kind |-> "rm", saw |-> {NodeGroupByName(CurrentName(key))}],
              {CurrentWrites(key) \o
               (IF CurrentName(key) = NoName THEN <<>>
                ELSE Remove(NodeGroupByName(CurrentName(key)).name))})
  BY Zenon DEF RmCurrent
<1>2. PICK nm : nm = CurrentName(key)
  BY Zenon
<1>3. PICK g : g = NodeGroupByName(nm)
  BY Zenon
<1>4. nm # NoName => /\ g \in GoodGroup /\ g.name \in AnyName
                     /\ Lower(nm) \in LowerName /\ g = instances[Lower(nm)]
  BY <1>2, <1>3, CurrentNameType, LookupType, LowerNames, Zenon DEF GoodGroup, SavedGroup
<1>5. g \in SavedGroup \cup {NoGroup}
  BY <1>2, <1>3, <1>4, LookupType, Zenon DEF GoodGroup
<1>6. PICK c : c = [kind |-> "rm", saw |-> {g}]
  BY Zenon
<1>7. PICK rest : rest = IF nm = NoName THEN <<>> ELSE Remove(g.name)
  BY Zenon
<1>8. PICK first : first = CurrentWrites(key)
  BY Zenon
<1>9. /\ c \in Command /\ c.kind = "rm" /\ c.saw = {g}
      /\ Begin(p, c, {first \o rest})
  BY <1>1, <1>2, <1>3, <1>5, <1>7, <1>8, <1>6, Zenon DEF Command
<1>10. /\ first \in Seq(FileOp(GoodGroup)) /\ Fine(c, first)
      /\ \A i \in DOMAIN first : first[i].file # "instances"
  BY <1>8, CurrentWritesFine, CurrentWritesType, Zenon
<1>11. /\ rest \in Seq(FileOp(GoodGroup)) /\ Fine(c, rest)
       /\ \A i \in DOMAIN rest : rest[i].file \notin {"reset", "defaults"}
  <2>1. CASE nm = NoName
    BY <1>7, <2>1 DEF Fine, RefsGoFirst, Paired, Seen
  <2>2. CASE nm # NoName
    <3>1. rest = Remove(g.name) /\ g # NoGroup
      BY <1>4, <1>7, <2>2, StoreAssumption, Zenon DEF GoodGroup, SavedGroup
    <3>2. Lower(g.name) = Lower(nm)
      BY <1>4, <2>2, <3>1, Zenon DEF SInv, NamesAgree
    <3>3. Fine(c, rest) /\ ~Selects(rest) /\ rest \in Seq(FileOp(GoodGroup))
      BY <1>4, <1>9, <2>2, <3>1, <3>2, RemoveFine, RemoveType, Zenon
    <3> QED BY <3>3, Zenon DEF Selects
  <2> QED BY <2>1, <2>2, Zenon
<1>12. Fine(c, first \o rest) /\ first \o rest \in Seq(FileOp(GoodGroup))
  BY <1>10, <1>11, ConcatFine, ConcatIndex, Zenon
<1> QED BY <1>9, <1>12, BeginInv, Zenon

LEMMA LoadInv ==
    ASSUME IInv, SInv, NEW p \in Proc, Load(p)
    PROVE  IInv' /\ SInv'
<1>1. ASSUME NEW key \in Key,
             Begin(p, [kind |-> "load",
                       name |-> IF CurrentName(key) = NoName THEN NoName
                                ELSE NodeGroupByName(CurrentName(key)).name],
                   {CurrentWrites(key)})
      PROVE  IInv' /\ SInv'
  <2>1. PICK nm : nm = IF CurrentName(key) = NoName THEN NoName
                       ELSE NodeGroupByName(CurrentName(key)).name
    BY Zenon
  <2>2. nm \in AnyName \cup {NoName}
    BY <2>1, CurrentNameType, Zenon DEF GoodGroup, SavedGroup
  <2>3. PICK c : c = [kind |-> "load", name |-> nm]
    BY Zenon
  <2>4. c \in Command /\ Begin(p, c, {CurrentWrites(key)})
    BY <1>1, <2>1, <2>2, <2>3, Zenon DEF Command
  <2> QED BY <2>4, CurrentWritesType, CurrentWritesFine, BeginInv, Zenon
<1>2. ASSUME NEW b \in LowerName, instances[b] # NoGroup,
             Begin(p, [kind |-> "load", name |-> instances[b].name], {})
      PROVE  IInv' /\ SInv'
  <2>1. instances[b].name \in AnyName
    BY <1>2, Zenon DEF IInv, GoodGroup, SavedGroup
  <2>2. PICK c : c = [kind |-> "load", name |-> instances[b].name]
    BY Zenon
  <2>3. c \in Command /\ Begin(p, c, {})
    BY <1>2, <2>1, <2>2, Zenon DEF Command
  <2>4. ListsOK(c, {})
    BY Zenon DEF ListsOK, Apart
  <2> QED BY <2>3, <2>4, BeginIInv, BeginSInv
<1> QED BY <1>1, <1>2, Zenon DEF Load
=============================================================================
