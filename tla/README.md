# buildx: a verification development

TLA+ modules for the parts of buildx whose correctness depends on the order in
which things happen: several buildx processes on one config directory, the
goroutines and remote procedure calls of the controller, builds that are
cancelled, processes that are killed; and for three algorithms that plan a build
and are easier to get wrong than to test. TLC checks small instances; TLAPS
proves the most important safety properties for every instance.

Every definition that stands for code is listed in `PROJECT.json` under `map`,
with the file and the lines it is translated from. The map covers about 30%
of the lines of code (28% with blank lines and comments). Almost two thirds of that are the generated methods of
the controller's messages (`controller_vtproto.pb.go` and its like), which the
tables of two modules stand for; of the code written by hand the map covers a much
smaller share, the concurrent and stateful part.

## The system

| part | source | module |
|---|---|---|
| builder store, commands that change it | `store/`, `builder/`, `commands/{create,use,rm}.go` | `Store` |
| node groups | `store/nodegroup.go` | `NodeGroup` |
| bake files: groups, inheritance, overrides, links | `bake/bake.go` | `Bake` |
| bake expressions: order of evaluation, cycles | `bake/hclparser/hclparser.go` | `HclParser` |
| platforms to nodes, booting and asking nodes | `build/driver.go` | `NodeResolver` |
| targets of a build and their links | `build/build.go`, `util/waitmap` | `Targets`, `WaitMap`, abstractly `TargetGraph` |
| replicated standard input | `build/replicatedstream.go` | `MultiReader` |
| result handles | `build/result.go` | `ResultHandle` |
| processes in containers of a result | `controller/processes`, `build/invoke.go` | `Processes` |
| controller server and its client | `controller/remote/{server,client}.go` | `RemoteServer` |
| stream of an Invoke call | `controller/remote/io.go` | `RemoteIO` |
| messages of the controller | `controller/pb`, `controller/errdefs` | `ControllerMessages`, `ControllerVT`, `ControllerClone`, `ControllerCodec` |
| monitor and its multiplexer | `monitor/`, `util/ioset/mux.go` | `Monitor` |
| forwarding of standard streams | `util/ioset/ioset.go` | `Forwarder` |
| progress display and held-back logs | `util/progress`, `util/logutil` | `Printer` |

A command selects a builder (`Store`), bake or the command line says what to
build (`Bake`, `HclParser`), platforms are given to nodes (`NodeResolver`), and
the targets are solved (`Targets`), each through a gateway session that stays
open behind a result handle (`ResultHandle`) with processes in it (`Processes`).
With `--invoke` a server keeps the handles (`RemoteServer`); the monitor
(`Monitor`, `Forwarder`) talks to it over a stream (`RemoteIO`) of encoded
messages (`ControllerCodec`) while the display is paused (`Printer`).

`Reachability` has the graph operators that the reference definitions of `Bake`
and `HclParser` use. The modules whose names begin with `MC` instantiate the
others for TLC.

## Runs

| run | module | instance |
|---|---|---|
| `store_selection` | `MCStore` | one process, two builders, two docker endpoints: the selection depends on the history of commands, not on who runs them |
| `store_races` | `MCStore` | three processes, alike under symmetry, one builder, two endpoints, so at most two nodes; creates, changes, builds, removals, kills, failing writes |
| `store_rollback` | `MCStore` | violation, see Findings |
| `planning` | `MCPlanning` | `Bake`, `HclParser` and `NodeResolver` side by side |
| `bake_override` | `MCPlanning` | violation, see Findings |
| `targets` | `MCTargets` | three targets in a chain, two nodes, three assignments (one without the result that is needed), a shared directory |
| `results` | `MCResults` | `MultiReader` (three readers, five bytes through a buffer of two) and `ResultHandle` (two callers of Done, two cleanups, two status messages) |
| `processes` | `Processes` | two calls, one with Rollback, a cancelling session, an Invoke call that leaves and returns, Done |
| `remote_server` | `MCRemoteServer` | two builds with IDs of their own, one watched and interruptible, one Invoke; or three builds under one ID |
| `wire` | `MCWire` | `ControllerCodec` (every message, with every field set in turn) and `RemoteIO` (two chunks in all) |
| `monitor` | `Monitor` | the first process and one command, C-a-c three times |
| `terminal` | `MCTerminal` | `Printer` (the build command, two terminals, two reloads, two sources, two log lines) and `Forwarder` (one reader, two writers, two bytes, three Set calls) |

`MCPlanning`, `MCResults`, `MCTerminal` and `MCWire` put components that share
no state next to each other: a variable `part`, chosen in the initial state and
never changed, says which of them runs while the others rest. (`MCRemoteServer`
chooses in the same way between two instances of one component.) A behaviour of such a module is a behaviour of one component, and it assumes
no more fairness than the component's own specification (in `MCWire` less: that
some goroutine of the stream runs while one can), so a property that holds there
holds of the component. `MCWire` and `MCTerminal` also bound what their component
does, see there.

Deadlock is not checked where the system may rest: users need not act, and calls
that are over leave nothing to do. What must not get stuck is stated as
liveness instead.

### Store, NodeGroup

`NodeGroup` has the operations of `store/nodegroup.go` as operators on records.
A name is a record: its spelling without case, its trailing index and whether
some letter is upper case, because the code lower-cases a name in some places
and not in others.

`Store` has one variable per kind of file, the lock, and, for every process,
the command it runs and the file operations it has left. A command is one
action that takes the lock, reads, decides and lists its file operations
(`Create`, `LeaveNode`, `Use`, `Rm`, `RmCurrent`, `Load`); `Step` performs one
operation, `Release` gives up the lock when none is left. Reading all at once
is right because only the holder of the lock changes what a command reads.
`FailWrite` lets an operation fail: reset and the removal of a default ignore
that, everything else makes the goroutine return. `Kill` ends a process
anywhere. A build loads its builder, records its activity and saves its ref in
three steps of its own, the last without the lock.

`store_selection` checks that the selection and the default of an endpoint agree
(`DefaultAgrees`) and that lookups do not change a default
(`LookupsKeepDefault`); `store_races` that groups stay well-formed
(`GroupsWellFormed`), that what an interrupted rm leaves behind still has its
builder (`RefsHaveBuilder`) and that no update is lost (`NoLostUpdate`). Nodes have
distinct endpoints, so the endpoints bound the group; nothing else grows.

### Bake, HclParser, NodeResolver

`Bake` is `ReadTargets`: names are resolved one by one, then targets are linked
in any order, as Go ranges over its map. A target has one field for each rule
that `Merge` and `AddOverrides` have: a pointer, a list, a set, a map and outputs.
Outputs are Go slices of pointers: `mem` has the arrays, in which `append` and the
loop of `setPushOverride` write, and the attribute of every entry, and targets that
inherit outputs share both. The overrides of a target and its contexts are maps,
so operators over them yield the set of what may come out. Groups, inheritance and links are recursive
operators; the properties compare them with reference definitions: what a group
contains transitively (`GroupsExpanded`), which definition decides a field where
inheritance has no cycle (`LastInheritedWins`), what links add and why a call fails (`LinksResolved`). An
override of push takes effect in whatever order it comes to the other overrides,
and outputs are left alone where no related target is overridden (`PushOverridden`). Files have
three targets and up to three groups, enough for a chain and a cycle of each
relation and for a target that is reached in two ways. The renaming of a group
with the name of a target is left out.

`HclParser` is the order in which `Parse` resolves variables, functions, blocks
and attributes, in any order within a map. An expression is the list of names
that it refers to, and a block may have a matrix, and then two evaluation
contexts. Parse succeeds only without a cycle and fails only for a cause
(`ErrorsExact`), and without an error every field is evaluated once per context
(`EvaluatedOnce`). The instance has one of several expressions for each of nine
names, in all combinations.

`NodeResolver` is `Resolve` with the goroutines that boot and ask nodes. Every
platform of a target is on one node, the first with the closest platform, in
whatever order the targets are resolved (`PlacedOnClosest`, against a definition
of "closest" that does not follow the loop of `get`); and no node is asked twice
(`AskedOnce`). The order of platforms is that of containerd's `platforms` library,
for the architectures of the instance.

### Targets, WaitMap, TargetGraph

`Targets` is `BuildWithResultHandler`: its loop over targets and nodes, one
goroutine per request (a target on a node), one per target that waits for its
requests, one per node with shared sessions. `WaitMap` has the operations of
`util/waitmap`, on which requests wait for one another's results. A request may
fail in every step that can, and the context may be cancelled at any time.

`TargetGraph` is the abstract specification: a set of solved requests that grows
by one request at a time, whose context targets are in the set. `ImplementsGraph`
says that `Targets` implements it, with the keys of the wait map as the set.
`SessionsCounted`: the wait group of a node counts the requests that run there.
`WaitCoversAll`: a call that succeeds has a response of every target, and when
all targets were started no goroutine of a request outlives the call.
`BuildReturns`: the call returns, under fairness of its goroutines and of solves,
which BuildKit ends when their context does.

### MultiReader, ResultHandle

`MultiReader` replicates standard input to the nodes of a build. Bytes are
positions in the source, so "the same bytes" compares numbers. Each way through
the loop of `read` is an action, because the mutex is held between waits. What a
reader has not read yet is in the buffer or the source, where the slice that `read`
takes finds it, and every reader gets the bytes in order and the end after all of them (`WholeInput`), and
nobody waits for good (`ReadersFinish`). Five bytes through a buffer of two take
three fills, the last partial. Readers are made before the first read or after
the input was kept, because `toSolveOpt` runs for all nodes before the first solve.
The sources are files and pipes, which report their end without data; a source
that returned bytes together with its end would lose them for the reader that
filled the buffer (`replicatedstream.go:140`). `Peek` changes no state and has no
action; on the kept copy it returns what follows the first n bytes
(`replicatedstream.go:41`), where on the source it returns these bytes.

`ResultHandle` is `NewResultHandle`: the goroutine that watches the caller's
context, the one that runs the build in a gateway session, the one that forwards
status messages, the function itself, and the callers of `Done`. A session whose
handle was recorded before the context ended stays open until `Done`, and is over
when `Done` returns (`OpenUntilDone`). The function returns a handle or an error,
and `Done` returns (`HandleEnds`). The watcher is taken to be waiting in its select
when the build begins: it has nothing else to do before.

### Processes

One session's process manager, its containers and `ResultHandle.Done`. A call
of StartProcess passes through `StartProcess`, `NewContainer`, `StoreContainer`
and `Register`; its goroutine through `ExecStarts` or `ExecFails`, `ExecEnds`,
`Exited` and `SendError`. CancelRunningProcesses has a step that unregisters and
one that cancels, and is run by a session or, in the background, by
StartProcess. No running process escapes cancellation (`RunningCancellable`), and
`Done` ends all of them (`DoneEndsProcesses`). Two calls are enough for the races
between an old and a new container; the safety is proved for any number.
Fairness: a started goroutine goes on, a killed process or one without container
ends, and Done finishes. No process has to end by itself.

### RemoteServer, RemoteIO

`RemoteServer` has the sessions of the build server and the client build that
waits for it. A Build call is cut where it takes or gives up `sessionMu` or blocks:
`BuildStart` or `BuildOngoing`, `WriteStatus`, `BuildReturns`, `Record`,
`CloseStatus`, `Finish`. `Finish` and `Record` look the session up by ID again, as
the code does, and may find another object or none. Disconnect has two steps
because an Invoke call starts its process without the lock.

Results stay where Disconnect finds them (`ResultsHeld`), no process outlives
its session (`ProcessesBelong`), one session has one build (`OneBuildPerSession`), and
the client's build returns (`OwnBuildsReturn`). Three of these have an exception
that is part of what they say: a build whose session is disconnected before it
records its result drops the result (`cut`); a build that outlives its session
resets the guard of the next session under its ID (`disturbed`); and a build whose
session is disconnected before Status has found its channel blocks on its first
message (`unseen`). With one ID for two
builds the second drops the result of the first without `Done`; `ResultsHeld`
and `ProcessesBelong` speak of builds that have their ID to themselves (`alone`),
as the client makes them. Fairness: the goroutines of
server and client go on, a build ends, and a Disconnect that holds the mutex
finishes. Clients need not make calls.

`RemoteIO` is the stream of one Invoke call: on either side a goroutine that copies
into a pipe, one that sends, one that receives and one that dispatches. Each side
writes out a prefix of what the other has read, and all of it before the end
(`NoGaps`); both sides return when the process exits or the client leaves
(`BothEnd`). The client may also be told to end by a status with an error; a stream
that the server ends without one leaves the client's receiver waiting until the
client cancels, and `BothEnd` says nothing of it before. Two chunks in all
(`MaxChunksInAll`), both in one direction or one in each, suffice for an end that
overtakes a chunk between others; the proof has no such bound.

### ControllerMessages, ControllerVT, ControllerClone, ControllerCodec

`ControllerMessages` lists the fields of the messages. `ControllerVT` and
`ControllerClone` have, for every message, a table for each generated method: what
`SizeVT` adds for a field, in which order and with which tags
`MarshalToSizedBufferVT` writes, which tags and wire types `UnmarshalVT` takes; how
`CloneVT` treats a field, which fields `EqualVT` compares.
`ControllerCodec` interprets the tables on bytes. What is sent is what is read,
also from a newer version whose fields are passed on (`RoundTrip`). A oneof whose
wrapper holds no message is the one value for which the methods disagree: `SizeVT`
counts three bytes and two are written. The program builds no such wrapper, and the
peer refuses it, which is part of `RoundTrip`. A message cut
short is refused or read as its whole fields (`CutShort`); a clone does not change
with its original, and `EqualVT` sees every change (`CloneIndependent`). Samples:
absent, short and long values, one-byte, two-byte and negative numbers, empty and
full lists, maps in both orders, absent, empty and full messages. Messages are
nested two deep, and deeper ones are sent as messages of their own.

### Monitor, Forwarder, Printer

`Monitor` is `RunMonitor` on `MuxIO`: the goroutine that reads the keyboard, the loop,
terminals that execute commands, and one goroutine per invoked process. The
keyboard goes to an enabled output and the command line is served when it goes
there (`KeyboardServed`); exit returns and switches end (`MonitorLive`). That the command
line is served and that switches end leaves out C-a-c in the middle of another
switch (`collided`), where the code gets stuck.
Three C-a-c let one come before, in and after a switch of the other goroutine.

`Forwarder` is `SingleForwarder`: bytes of one reader arrive in order (`InOrder`),
what is replaced or closed is closed (`StreamsClosed`), and its goroutines end
(`ForwarderLive`). A write to an open pipe returns only when the far end reads or is
closed, which nothing guarantees (`WriteBytes` is not fair): a copier ends unless it
is left writing, and Close, which closes the writer, ends also one that is. SetReader
returns as long as `doForward` is there to receive. One reader and two writers are enough: a reader is used once
and every reader has its own copier.

`Printer` is the goroutine of `NewPrinter`, the channels that feed it, the log output
held back meanwhile, and its users: the build command, which builds, prints an
error, runs the monitor and waits, and reloads in terminals of the monitor. Every
access to a field that is shared without a lock is a step of its own, and a panic
(`crashed`) ends the process. No log line is lost, duplicated or drawn into a display,
however calls overlap (`LogsKept`). In an orderly use a display shows the logs of a
vertex from one source (`OneSource`), no line is held back at rest (`LogsKept`),
nothing panics and all calls return (`PrinterLive`). A use is not orderly
(`Orderly`) in two cases:

* `early`: Unpause comes before the goroutine has made its next `ready` channel. It
  finds the closed channel of the last display and returns at once, and a write or
  Wait may then use channels of the display that has ended (`printer.go:63`).
* `overlapped`: a terminal of the monitor was left while its reload was running, and
  another reload begins, or the monitor ends and the command goes on
  (`reload.go:63`, `commands/build.go:362`).

In `MCTerminal`, `inTurn` uses channels and terminals in one order, as they differ in
name only. After a use that is not orderly, `followed` bounds what the instance goes
through: at most one reload, and at most one channel or log lines. There only
`LogsKept` promises anything, and the proof of it has no such bound.

Fairness of these: goroutines run, and calls that were begun go on. Nothing makes
a user act, a process exit or a reader supply bytes.

## Proofs

For every value of the constants:

| theorem | says |
|---|---|
| `StoreProofs!TypeCorrect`, `WellFormedGroups`, `WritesUnderLock` | `Spec => []TypeOK`, `[]GroupsWellFormed`, `[]LockCoversWrites` |
| `StoreProofs!RefsKeepBuilder`, `SelectionAgrees` | `Spec => []RefsHaveBuilder`, `[]DefaultAgrees` |
| `StoreProofs!NoUpdateLost`, `LookupsHarmless` | `Spec => NoLostUpdate`, `LookupsKeepDefault` (action properties) |
| `TargetsProofs!TypeCorrect`, `SessionsCountedHolds`, `WaitCoversAllHolds` | `Spec => []TypeOK`, `[]SessionsCounted`, `[]WaitCoversAll` |
| `TargetsProofs!Implements` | `Spec => ImplementsGraph` (refinement) |
| `SessionProofs!ReaderTypeCorrect`, `NoReaderMisses`, `ReadersAgree`, `NoLostWakeUp` | `MultiReader`: `[]TypeOK`, `[]InWindow`, `[]WholeInput`, `[]WaitsForSomeone` |
| `SessionProofs!HeldUntilDone` | `ResultHandle`: `[]OpenUntilDone` |
| `SessionProofs!ProcsTypeCorrect`, `NoneEscapes`, `ListedRun` | `Processes`: `[]TypeOK`, `[]RunningCancellable`, `[]ListsRunning` |
| `RemoteServerProofs!OneBuild`, `ResultsKept`, `ProcessesStay` | `Spec => []OneBuildPerSession`, `[]ResultsHeld`, `[]ProcessesBelong` |
| `StreamProofs!NothingDropped` | `StreamSpec => []NoGaps` |
| `StreamProofs!BytesInOrder`, `AllClosed` | `ForwarderSpec => []InOrder`, `[]StreamsClosed` |
| `StreamProofs!KeyboardStays` | `MonitorSpec => []KeyboardServed` |
| `PrinterProofs!OneSourceShown` | `Spec => []OneSource` |
| `PrinterProofs!LogsComeOut` | `Spec => LogsKept` (three invariants and an action property) |
| `PrinterProofs!NobodyPanics` | `Spec => []NoPanics` (the safety part of `PrinterLive`) |
| `NodeResolverProofs!NodesAskedOnce` | `Spec => []AskedOnce` |

`StoreWritesProofs` holds lemmas of `StoreProofs`. Each result rests on an inductive
invariant that strengthens the property:

* **Store.** `GroupsWellFormed` is not inductive: a group is computed when the
  command begins and written two steps later, and a rollback writes a copy of the
  group that was read. `IInv` adds that every group in a pending write is
  well-formed, whichever of a command's file operations come before it. `SInv` adds
  what the order of the writes has to be for the other four: refs are removed
  before the builder, the two writes of SetCurrent follow each other, a group that
  is replaced is the one the command has read, and alternative lists of one command
  do not contradict each other (`ListsOK`); meanwhile a default may lag behind the
  selection by the write that is still to come (`Settled`). `StoreWritesProofs`
  shows that one write, a failure, a kill and the release of the lock keep these
  and that the operations make such lists; `StoreProofs` that `Update`,
  `Leave` and `Copy` keep a group well-formed, that `nextNodeName` finds a free name,
  and so that create and leave keep the invariant too. Assumptions:
  `BaseAssumption` (the empty name is no name), `StoreAssumption` (types of
  constants; model values are no groups or names).
* **Targets.** `DepsInv`, `SolvedInv` and `AtInv` tie the place of a request to the
  wait map: the keys it no longer waits for are set, and its own key is set
  exactly from its solve on. `LoopInv` says which goroutines the loop has started,
  `GroupInv` what the error groups know. That `Solve` is a step of `TargetGraph`
  follows from `DepsInv`; every other action leaves the wait map's keys alone.
  Assumption: `ConstantsAssumption` (types; finitely many targets and nodes).
* **MultiReader.** `Aligned`: the buffer begins at `mr.offset`, a reader that does
  not exist has read nothing, and a reader is told of an error only when it is set.
  Assumption: `ReaderAssumption` (the buffer holds at least one byte).
* **ResultHandle.** `Woken` orders the two events that wake the watcher, `Announced`
  says in which steps of the build a handle can exist and the channel `done` can
  be closed, `OneInside` that one caller at a time is in `doneOnce` and leaves it
  with everything done. Assumption: `CallersAssumption` (a caller is told from the
  other states of `doneOnce`).
* **Processes.** A sweep that begins again must not forget what it has collected,
  and no process is cancelled before it is registered; `Swept` says both.
  Assumption: `ProcessesAssumption` (sessions are not processes).
* **RemoteServer.** `Made` says that a session object is only ever under the ID of
  the call that made it. `Guarded` says that the guard of a session is up while a
  build is in progress there, `Kept` that a build alone under its ID finds its own
  session until a Disconnect and leaves its result there, and `Ran` that what Invoke
  has read of such a session without the lock is still the session's own. `Ran`
  rests on `Kept`: it is the result that keeps a late Invoke from starting a process
  in a session that is gone. Assumption: `ServerAssumption`.
* **RemoteIO.** `NoGaps` says nothing of the chunks on their way. `StreamInv` counts
  them: what the dispatcher, the receiver, the stream, the sender and the copier
  hold continues the output without a gap (`InTurn`, `Follows`), nothing comes after
  EOF (`EofLast`), and unless the sender was stopped EOF is preceded by all that was
  read (`Complete`).
* **Forwarder.** `CopiesInv`: what a copier holds is later than all that was
  written of its reader. `ClosesInv`: what was given and is not closed is in use, in
  the hands of SetReader or in those of Close. Assumption: `StreamsAssumption` (the
  values that stand for nil are no streams).
* **Monitor.** `Locked`: a process switches under the mutex of `MuxIO`. `Heading`: while
  the keyboard goes to a disabled output, somebody is about to pass it over.
  `Served`: unless switches collide there is one at a time, and the loop is between
  its hooks or serves exactly output 0. Assumption: `CommandsAssumption` (a
  command's process is neither the keyboard nor the loop).
* **Printer.** `LogsInv`: only the last of the chained log writers holds lines back,
  and only while a display is prepared, drawn or taken down. `LinesInv`: a writer
  that does not hold lines back has none left, so those on the terminal and in the
  last writer are all. `CountsInv` numbers the `ready`, `done` and `paused` channels. These
  three hold in every use. `StepInv` holds in an orderly one: one user at a time
  drives the printer while the others rest (`Driver`), where the goroutine can be
  follows from the call that user is in (`Drives`), only channels of its build are
  fed (`Feeds`), and logs on their way or shown are of the source that has claimed
  the vertex or of ended ones (`Claims`). Assumption: `NamesAssumption` (nobody is no
  source; a terminal is neither the command nor another state of `closeOnce`).
* **NodeResolver.** `Asked`: a node that was asked is in the cache of its group, or
  its goroutine is under way or has made Resolve fail. `Flights`: a goroutine that
  has ended knows its node. `Covered`: from the start of opts on every node in use
  has a goroutine, first to boot it and then to ask it. None of this depends on
  which nodes `get` chooses.

## Findings

* `store_rollback`: `Node.Copy` uses Go's `copy` into empty slices, so the copy that
  a failed create saves as its rollback has lost platforms, flags and files.
* `bake_override`: an override of `no-cache-filter` is stored as a value and applied
  as a list, so it clears the field instead of setting it. Overrides of `network`,
  `ulimits` and `annotations` are also treated differently in the two places; and
  `--set foo*.no-cache` without `=`, in the documentation, is refused.

The modules also state the following. The code does not have these properties:
TLC finds a counterexample when they are added to the instance named. No run
checks them.

| property | instance | what happens |
|---|---|---|
| `Store!NodeNamesUnique` | `UpperName`, `UpperArgs` | `nextNodeName` compares names in the builder's spelling with nodes in lower case (`nodegroup.go:203`): two nodes get one name |
| `Store!UpdateDoesNotPanic` | `ConfigArgs` | a node created without a config file has a nil map, which a change with one writes to (`nodegroup.go:96`) |
| `RemoteServer!NoResultForgotten` | `remote_server`, `part = "own"` | a build that outlives its session drops an open result (`server.go:222`), against "the caller must call Done() on it" (`result.go:30`) |
| `RemoteServer!InvokeDoesNotPanic` | `remote_server` | Invoke before the first result exists uses a nil result (`server.go:404`) |
| `Processes!SparesOwnProcess` | `processes` | the background cancellation is late and cancels the new process (`processes.go:108`) |
| `ResultHandle!LateStatusDiscarded` | `results` | the base channel is closed between the test and the send of a status message (`result.go:71`) |
| `Targets!HeldForChildren` | `targets` | a target waits for its children's results, not for their exports |
| `Targets!SessionOpenWhileUsed` | two targets without links, one directory, one node | the wait group is empty before the second target joins (`build.go:400`) |
| `Monitor!ToggleFinishes` | `monitor` | C-a-c during a switch runs the same hook twice (`mux.go:100`) |
| `Monitor!ProcessReachable` | `monitor` | the process that is replaced disables the output after the new one has enabled it (`monitor.go:322`) |
| `Bake!OthersKeepOutputs` | `planning` | an override of push writes into an output that another target inherits too (`bake.go:1475`) |
| `Forwarder!SetReaderReturns` | `terminal` | once Close has ended the forwarder nobody receives the reader; the caller waits and keeps the mutex (`ioset.go:273`) |
| `Forwarder!EofPropagates` | `terminal` | the copier returns at EOF before it propagates it (`ioset.go:194`), against `ioset.go:67` |

`Printer` has no such property, but without `Orderly` in them `OneSource`, `NoPanics`
and the rest of `PrinterLive` do not hold: either of `early` and `overlapped` (above)
alone leads to a panic.

## What is only model-checked

* All liveness, because the proof system handles neither fairness nor `ENABLED`:
  `BuildReturns`, `ReadersFinish`, `HandleEnds`, `DoneEndsProcesses`, `OwnBuildsReturn`,
  `BothEnd`, `MonitorLive`, `ForwarderLive` and the leads-to parts of `PrinterLive`.
* `Bake` and `HclParser` (`GroupsExpanded`, `LastInheritedWins`, `LinksResolved`,
  `PushOverridden`, `ErrorsExact`, `EvaluatedOnce`) and `ControllerCodec` (`RoundTrip`,
  `CutShort`, `CloneIndependent`). They are recursive, and what a recursive operator
  computes for every input takes an induction that is out of the prover's reach.
* `PlacedOnClosest` of `NodeResolver`: `get` and `recombineNodes` are folds over
  lists, with the same difficulty.

## Not modelled

* Drivers: sequences of calls to docker or Kubernetes, whose behaviour is not in
  this repository. A solve, a container or a gateway session is an outcome that is
  chosen freely. Kubernetes manifests are constructions of objects; the choice of
  a pod is by random number or hash.
* Local controller: one session without locks and one user; its process manager
  and result handle are `Processes` and `ResultHandle`. A second build replaces the
  first handle without `Done` (`controller/local/controller.go:55`), and with several
  nodes only one handle is kept (`controller/build/build.go:222`).
* Groups of refs in the local state: `RemoveBuilderNode` compares the refs of one
  node with those of the whole group (`localstate.go:195`), so a group that spans
  nodes is never removed.
* The exit error of a process whose Invoke call has left is never received
  (`processes.go:152`); `Processes` has the blocked state and no property about it.
* Start of the server process, gRPC stubs, conversions of options: one pass over
  their input, with nothing shared or ordered.
* Bake entitlements, compose files and remote bake definitions: comparison of
  paths, questions to the user, conversions and downloads.
* Image tools, build flags, command line, history, traces: parsing, documents
  fetched from registries, formatting of records that other programs made.

`PROJECT.json` lists every part with its status.
