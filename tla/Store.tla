------------------------------- MODULE Store -------------------------------
(***************************************************************************)
(* The builder store (store/store.go): the files under the config          *)
(* directory, the lock that serialises transactions on them, and the       *)
(* commands that run inside a transaction: create, leave, use, rm and the   *)
(* lookup of the current builder every other command starts with.          *)
(*                                                                         *)
(* A command takes the file lock, reads what it needs, and then performs a *)
(* list of file operations one at a time.  It can be killed between any    *)
(* two of them, which also drops the lock.  `rm` of several builders runs  *)
(* one goroutine, so one list, per builder under a single lock.  A build    *)
(* takes the lock only to load its builder and to record its activity; it   *)
(* saves its local state ref in between, without the lock.                 *)
(***************************************************************************)
EXTENDS NodeGroup

CONSTANTS Proc,         \* concurrently running buildx processes
          Key,          \* endpoints of the docker contexts (current's key)
          BuilderName,  \* builder names, as users spell them
          CreateArg,    \* the option records `create` is called with
          Commands,     \* the commands processes run
          NoProc, NoGroup, NoFile   \* model values

VARIABLES instances,    \* instances/<lower name>: the saved group or NoGroup
          activity,     \* the names that have a file in activity/
          refs,         \* the builder names that have a directory in refs/
          current,      \* the file current: [key, name, global] or NoFile
          defaults,     \* defaults/<hash of key>: a name or NoFile
          lock,         \* holder of .lock
          cmd,          \* what each process is running
          pending,      \* the file operations each process still has to do
          torn,         \* keys whose last SetCurrent was cut short
          stray         \* builders whose refs were saved behind rm's back

files == <<instances, activity, refs, current, defaults>>
vars == <<instances, activity, refs, current, defaults, lock, cmd, pending,
          torn, stray>>

LowerName == {Lower(nm) : nm \in BuilderName}
AnyName == BuilderName \cup LowerName
SavedGroup == {g \in Group : g.name \in AnyName}
Selection == [key : Key, name : AnyName \cup {NoName}, global : BOOLEAN]
Idle == [kind |-> "idle"]

ASSUME StoreAssumption ==
    /\ BuilderName \subseteq Name
    /\ Commands \subseteq {"create", "leave", "use", "rm", "load", "build"}
    /\ NoProc \notin Proc /\ NoGroup \notin Group
    /\ NoFile \notin Selection /\ NoFile \notin Name \cup {NoName}
    /\ \A o \in CreateArg :
          /\ o.name \in BuilderName /\ o.driver \in Driver
          /\ o.update \in UpdateArg /\ o.use \in BOOLEAN

-----------------------------------------------------------------------------
(* File operations.                                                         *)
Op(file, at, val) == [file |-> file, at |-> at, val |-> val]

Apply(op) ==
    /\ instances' = IF op.file = "instances"
                    THEN [instances EXCEPT ![op.at] = op.val] ELSE instances
    /\ activity' = IF op.file # "activity" THEN activity
                   ELSE IF op.val = "write" THEN activity \cup {op.at}
                                            ELSE activity \ {op.at}
    /\ refs' = IF op.file = "refs" THEN refs \ {op.at} ELSE refs
    /\ current' = IF op.file \in {"current", "reset"} THEN op.val ELSE current
    /\ defaults' = IF op.file = "defaults"
                   THEN [defaults EXCEPT ![op.at] = op.val] ELSE defaults

(* NodeGroupByName: the group saved under the lower-cased name.             *)
NodeGroupByName(nm) == IF ValidName(nm) THEN instances[Lower(nm)] ELSE NoGroup

(* Save: the activity file is written under the name as the user spelled    *)
(* it, the instance file under the lower-cased name.                        *)
Save(g) == << Op("activity", g.name, "write"),
              Op("instances", Lower(g.name), g) >>

RemoveInstanceFirst(nm) ==      \* mutant: the instance file goes first
              << Op("instances", Lower(nm), NoGroup),
                 Op("activity", Lower(nm), "remove"),
                 Op("refs", Lower(nm), "remove") >>

(* Remove: the instance file goes last.                                     *)
Remove(nm) == << Op("activity", Lower(nm), "remove"),
                 Op("refs", Lower(nm), "remove"),
                 Op("instances", Lower(nm), NoGroup) >>

SetCurrentKeepsDefault(key, nm, global, def) ==   \* mutant: no removal
    << Op("current", NoFile, [key |-> key, name |-> nm, global |-> global]) >>
    \o (IF def THEN << Op("defaults", key, nm) >> ELSE <<>>)

SetCurrent(key, nm, global, def) ==
    << Op("current", NoFile, [key |-> key, name |-> nm, global |-> global]),
       Op("defaults", key, IF def THEN nm ELSE NoFile) >>

reset(key) ==
    << Op("reset", NoFile, [key |-> key, name |-> NoName, global |-> FALSE]) >>

(* Current: which branch is taken, the name found and the writes made.      *)
selectedGlobally ==
    current # NoFile /\ current.global /\ NodeGroupByName(current.name) # NoGroup
selectedFor(key) ==
    current # NoFile /\ current.name # NoName /\ current.key = key

CurrentName(key) ==
    CASE selectedGlobally -> current.name
      [] ~selectedGlobally /\ selectedFor(key) ->
            IF NodeGroupByName(current.name) # NoGroup THEN current.name
                                                       ELSE NoName
      [] OTHER ->
            IF defaults[key] # NoFile /\ NodeGroupByName(defaults[key]) # NoGroup
            THEN defaults[key] ELSE NoName

CurrentWritesGlobal(key) ==     \* mutant: the default is selected globally
    CASE selectedGlobally \/ selectedFor(key) -> <<>>
      [] ~(selectedGlobally \/ selectedFor(key)) /\ defaults[key] = NoFile ->
            reset(key)
      [] OTHER -> SetCurrent(key, defaults[key], TRUE, TRUE)

CurrentWrites(key) ==
    CASE selectedGlobally \/ selectedFor(key) -> <<>>
      [] ~(selectedGlobally \/ selectedFor(key)) /\ defaults[key] = NoFile ->
            reset(key)
      [] OTHER ->
            (IF NodeGroupByName(defaults[key]) = NoGroup THEN reset(key) ELSE <<>>)
            \o SetCurrent(key, defaults[key], FALSE, TRUE)

-----------------------------------------------------------------------------
(* Txn and release: a command runs with the lock from its first read to the *)
(* last of its writes.  lists holds one list of writes per goroutine.       *)
BeginUnlocked(p, c, lists) ==   \* mutant: the lock is not waited for
    /\ c.kind \in Commands
    /\ cmd[p] = Idle
    /\ lock' = p
    /\ cmd' = [cmd EXCEPT ![p] = c]
    /\ pending' = [pending EXCEPT ![p] = lists \ {<<>>}]
    /\ UNCHANGED <<files, torn, stray>>

Begin(p, c, lists) ==
    /\ c.kind \in Commands
    /\ cmd[p] = Idle /\ lock = NoProc
    /\ lock' = p
    /\ cmd' = [cmd EXCEPT ![p] = c]
    /\ pending' = [pending EXCEPT ![p] = lists \ {<<>>}]
    /\ UNCHANGED <<files, torn, stray>>

(* create: add or change a node of a new or existing group, save it, then   *)
(* initialise the nodes.  outcome says how that goes: "nodeErr" rolls the   *)
(* saved group back, "loadErr" returns the error and leaves it saved.       *)
Outcome == {"ok", "nodeErr", "loadErr"}

rollback(old, saved) ==
    IF old = NoGroup THEN Remove(saved.name) ELSE Save(Copy(old))

createWrites(o, key, old, saved, outcome) ==
    Save(saved) \o
    CASE outcome = "ok" ->
            IF o.use THEN SetCurrent(key, saved.name, FALSE, FALSE) ELSE <<>>
      [] outcome = "nodeErr" -> rollback(old, saved)
      [] OTHER -> <<>>

CreateCmd(o, old, r, outcome) ==
    [kind |-> "create", name |-> Lower(o.name), saw |-> {old, r.group},
     old |-> old, err |-> r.err, outcome |-> outcome]

Create(p) ==
    \E o \in CreateArg, key \in Key, outcome \in Outcome :
        LET old   == NodeGroupByName(o.name)
            empty == [name |-> o.name, driver |-> o.driver, nodes |-> <<>>]
            r     == Update(IF old = NoGroup THEN empty ELSE old, o.update)
        IN  /\ o.update.append => old # NoGroup
            /\ old # NoGroup => /\ o.update.append \/ o.update.node # NoName
                                /\ old.driver = o.driver
            /\ Begin(p, CreateCmd(o, old, r, outcome),
                     {IF r.err = "none"
                      THEN createWrites(o, key, old, r.group, outcome)
                      ELSE <<>>})

(* create --leave: drop a node from an existing group.  (The refs of the    *)
(* node go too: refs is kept here per builder, not per node.)               *)
LeaveNode(p) ==
    \E nm \in BuilderName :
        LET old == NodeGroupByName(nm)
        IN  /\ old # NoGroup
            /\ \E node \in NamesOf(old) :
                  LET r == Leave(old, node)
                  IN  /\ r.err = "none"
                      /\ Begin(p, [kind |-> "leave", name |-> Lower(nm),
                         saw |-> {old, r.group}], {Save(r.group)})

(* use: NoName stands for "default" or the current context's own name.      *)
Use(p) ==
    \E key \in Key, nm \in BuilderName \cup {NoName}, global, def \in BOOLEAN :
        /\ IF nm = NoName THEN ~global /\ ~def ELSE NodeGroupByName(nm) # NoGroup
        /\ Begin(p, [kind |-> "use"], {SetCurrent(key, nm, global, def)})

(* rm of the named builders, or of all inactive ones: the drivers of each   *)
(* are loaded and removed first; a builder whose drivers do not load stays. *)
Rm(p) ==
    \E S \in (SUBSET {b \in LowerName : instances[b] # NoGroup}) \ {{}} :
        Begin(p, [kind |-> "rm", saw |-> {instances[b] : b \in S}],
              {Remove(instances[b].name) : b \in S})

(* rm without a name: the current builder is looked up, then removed.       *)
RmCurrent(p) ==
    \E key \in Key :
        LET nm == CurrentName(key)
        IN  Begin(p, [kind |-> "rm", saw |-> {NodeGroupByName(nm)}],
                  {CurrentWrites(key) \o
                   (IF nm = NoName THEN <<>>
                    ELSE Remove(NodeGroupByName(nm).name))})

(* builder.New: every other command loads the current builder, or a named   *)
(* one, in a transaction of its own.                                        *)
Load(p) ==
    \/ \E key \in Key :
          LET nm == CurrentName(key)
          IN  Begin(p, [kind |-> "load",
                        name |-> IF nm = NoName THEN NoName
                                 ELSE NodeGroupByName(nm).name],
                    {CurrentWrites(key)})
    \/ \E b \in LowerName :
          /\ instances[b] # NoGroup
          /\ Begin(p, [kind |-> "load", name |-> instances[b].name], {})

(* One write of one goroutine of p.  Nothing re-checks the lock here.       *)
Step(p) ==
    /\ \E s \in pending[p] :
          /\ Apply(Head(s))
          /\ pending' = [pending EXCEPT ![p] = (@ \ {s}) \cup ({Tail(s)} \ {<<>>})]
          /\ torn' = IF Head(s).file = "defaults" THEN torn \ {Head(s).at} ELSE torn
          /\ stray' = IF Head(s).file = "refs" THEN stray \ {Head(s).at} ELSE stray
    /\ UNCHANGED <<lock, cmd>>

(* release.  After loading, a build goes on to record its activity.         *)
Release(p) ==
    /\ lock = p /\ pending[p] = {}
    /\ lock' = NoProc
    /\ cmd' = [cmd EXCEPT ![p] =
                  CASE @.kind = "load" /\ @.name # NoName /\ "build" \in Commands ->
                          [kind |-> "loaded", name |-> @.name]
                    [] @.kind = "touch" -> [kind |-> "solve", name |-> @.name]
                    [] OTHER -> Idle]
    /\ UNCHANGED <<files, pending, torn, stray>>

(* updateLastActivity: a transaction on the group loaded earlier.           *)
UpdateLastActivity(p) ==
    /\ cmd[p].kind = "loaded" /\ lock = NoProc
    /\ lock' = p
    /\ cmd' = [cmd EXCEPT ![p] = [kind |-> "touch", name |-> @.name]]
    /\ pending' = [pending EXCEPT ![p] = {<<Op("activity", cmd[p].name, "write")>>}]
    /\ UNCHANGED <<files, torn, stray>>

(* saveLocalState: the build saves its ref without the lock.                *)
removing(b) == \E q \in Proc : \E s \in pending[q] : \E i \in DOMAIN s :
                  s[i] = Op("instances", b, NoGroup)

SaveRef(p) ==
    /\ cmd[p].kind = "solve"
    /\ refs' = refs \cup {cmd[p].name}
    /\ stray' = IF \/ instances[Lower(cmd[p].name)] = NoGroup
                   \/ removing(Lower(cmd[p].name))
                THEN stray \cup {cmd[p].name} ELSE stray
    /\ cmd' = [cmd EXCEPT ![p] = Idle]
    /\ UNCHANGED <<instances, activity, current, defaults, lock, pending, torn>>

unset(lists) == {k \in Key : \E s \in lists : \E i \in DOMAIN s :
                    s[i].file = "defaults" /\ s[i].at = k}

(* A write fails.  The errors of reset and of the removal of a default are  *)
(* ignored; after any other that goroutine returns the error and makes no    *)
(* more writes.  The other goroutines go on, and the lock is released when   *)
(* all have returned.                                                       *)
errorIgnored(op) == op.file = "reset" \/ (op.file = "defaults" /\ op.val = NoFile)

FailWrite(p) ==
    /\ \E s \in pending[p] :
          /\ pending' = [pending EXCEPT ![p] = (@ \ {s}) \cup
                           (IF errorIgnored(Head(s)) THEN {Tail(s)} \ {<<>>} ELSE {})]
          /\ torn' = torn \cup unset({s})
          /\ cmd' = [cmd EXCEPT ![p] = IF @.kind = "rm" \/ errorIgnored(Head(s))
                                      THEN @ ELSE [kind |-> "failed"]]
    /\ UNCHANGED <<files, lock, stray>>

(* The process is killed: no more writes, and the kernel drops its lock.    *)
Kill(p) ==
    /\ cmd[p] # Idle
    /\ cmd' = [cmd EXCEPT ![p] = Idle]
    /\ lock' = IF lock = p THEN NoProc ELSE lock
    /\ pending' = [pending EXCEPT ![p] = {}]
    /\ torn' = torn \cup unset(pending[p])
    /\ UNCHANGED <<files, stray>>

Init ==
    /\ instances = [b \in LowerName |-> NoGroup]
    /\ activity = {} /\ refs = {}
    /\ current = NoFile
    /\ defaults = [k \in Key |-> NoFile]
    /\ lock = NoProc
    /\ cmd = [p \in Proc |-> Idle]
    /\ pending = [p \in Proc |-> {}]
    /\ torn = {} /\ stray = {}

Next == \E p \in Proc :
    \/ Create(p) \/ LeaveNode(p) \/ Use(p) \/ Rm(p) \/ RmCurrent(p) \/ Load(p)
    \/ Step(p) \/ Release(p) \/ UpdateLastActivity(p) \/ SaveRef(p)
    \/ FailWrite(p) \/ Kill(p)

Spec == Init /\ [][Next]_vars

-----------------------------------------------------------------------------
InstanceOp(G) == [file : {"instances"}, at : LowerName, val : G \cup {NoGroup}]
ActivityOp == [file : {"activity"}, at : AnyName, val : {"write", "remove"}]
RefsOp     == [file : {"refs"}, at : LowerName, val : {"remove"}]
CurrentOp  == [file : {"current", "reset"}, at : {NoFile}, val : Selection]
DefaultsOp == [file : {"defaults"}, at : Key, val : AnyName \cup {NoFile}]
FileOp(G)  == InstanceOp(G) \cup ActivityOp \cup RefsOp \cup CurrentOp \cup DefaultsOp

Command ==
    [kind : {"idle", "use", "failed"}]
        \cup [kind : {"load"}, name : AnyName \cup {NoName}]
        \cup [kind : {"loaded", "touch", "solve"}, name : AnyName]
        \cup [kind : {"rm"}, saw : SUBSET (SavedGroup \cup {NoGroup})]
        \cup [kind : {"leave"}, name : LowerName, saw : SUBSET (SavedGroup \cup {NoGroup})]
        \cup [kind : {"create"}, name : LowerName, err : Err, outcome : Outcome,
              old : SavedGroup \cup {NoGroup}, saw : SUBSET (SavedGroup \cup {NoGroup})]

(* Every file holds what its reader expects to parse; every process is in   *)
(* a known command with well-formed writes left.                            *)
TypeOK ==
    /\ instances \in [LowerName -> SavedGroup \cup {NoGroup}]
    /\ activity \subseteq AnyName /\ refs \subseteq AnyName
    /\ current \in Selection \cup {NoFile}
    /\ defaults \in [Key -> AnyName \cup {NoFile}]
    /\ lock \in Proc \cup {NoProc}
    /\ cmd \in [Proc -> Command]
    /\ DOMAIN pending = Proc
    /\ \A p \in Proc : \A s \in pending[p] : s \in Seq(FileOp(SavedGroup)) /\ s # <<>>
    /\ torn \subseteq Key /\ stray \subseteq AnyName

(* Whatever sequence of create, append, modify, leave, failed create and    *)
(* rollback produced it, a saved group has its nodes at distinct endpoints  *)
(* and no platform is claimed by two of its nodes (validateDuplicates), so  *)
(* a build for a platform has at most one node configured for it.           *)
GroupsWellFormed ==
    \A b \in LowerName : instances[b] # NoGroup =>
        UniqueEndpoints(instances[b]) /\ DisjointPlatforms(instances[b])

(* A process has writes left to make only while it holds the file lock, so  *)
(* no two transactions ever interleave their writes.                        *)
LockCoversWrites == \A p \in Proc : pending[p] # {} => lock = p

(* No lost update: a command replaces or removes a saved group only if that *)
(* group is the one it read, or one it saved itself (Create reads, updates  *)
(* and saves the whole group; another process may be appending to it).      *)
NoLostUpdate ==
    [][\A p \in Proc : Step(p) =>
         \A b \in LowerName :
            instances'[b] = instances[b] \/ instances[b] \in cmd[p].saw]_vars

(* When no transaction is running, the default recorded for the endpoint    *)
(* that was selected last is absent or is that very selection: a plain      *)
(* `use` or create --use takes an older `use --default` back.  (SetCurrent  *)
(* makes two writes; keys whose pair was cut short are excepted.)           *)
DefaultAgrees ==
    lock = NoProc /\ current # NoFile /\ current.key \notin torn =>
        defaults[current.key] \in {NoFile, current.name}

(* `use --default`: a builder that is the default of an endpoint, and what  *)
(* the endpoint resolves to, is not lost because commands look up the       *)
(* current builder of another endpoint (Current writes on lookups).         *)
LookupsKeepDefault ==
    [][\A p \in Proc : Step(p) /\ cmd[p].kind = "load" =>
         \A k \in Key : CurrentName(k) # NoName /\ CurrentName(k) = defaults[k] =>
            CurrentName(k)' = CurrentName(k)]_vars

(* rm can be interrupted anywhere and repeated: the instance file goes last,*)
(* so local state left behind still has its builder, except the refs that   *)
(* a build saved while its builder was being removed or was gone already.   *)
(* (Builders created with an upper-case letter are excepted: their refs are *)
(* not where Remove looks for them.)                                        *)
RefsHaveBuilder ==
    \A b \in refs : ~b.upper /\ b \notin stray => instances[b] # NoGroup

(* A create whose nodes cannot be initialised "could not rollback to        *)
(* previous state" only when a write fails: otherwise the group is again    *)
(* what it was before (a nil map or slice and an empty one are the same).   *)
settings(g) ==
    LET norm(x) == IF x = "nil" THEN "empty" ELSE x
    IN  IF g = NoGroup THEN NoGroup
        ELSE [g EXCEPT !.nodes = [i \in DOMAIN g.nodes |->
                [g.nodes[i] EXCEPT !.flags = norm(@), !.files = norm(@)]]]

RollbackRestores ==
    \A p \in Proc :
        (/\ lock = p /\ pending[p] = {} /\ cmd[p].kind = "create"
         /\ cmd[p].outcome = "nodeErr" /\ cmd[p].err = "none")
        => settings(instances[cmd[p].name]) = settings(cmd[p].old)

(* --node "specifies the name of the node to be created or modified": a     *)
(* name stands for one node of its group.                                   *)
NodeNamesUnique ==
    \A b \in LowerName : instances[b] # NoGroup => UniqueNames(instances[b])

(* Modifying a node of an existing builder with a config file does not      *)
(* crash the command.                                                       *)
UpdateDoesNotPanic ==
    \A p \in Proc : cmd[p].kind = "create" =>
        cmd[p].err # "panic"
=============================================================================
