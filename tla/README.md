# A verification project for jpyCloudForGoApi

The program is one Go process that stands between a web console, a command line
client, the cloud control platform of the vendor, and the Android devices
themselves. This directory models the parts of it that keep state over time and
share it between goroutines, checks them with TLC and proves theorems about
them with TLAPS.

## 1. Inventory

| component | where | state it keeps | operations |
|---|---|---|---|
| RPA engine | `internal/rpa/engine.go`, `step.go` | `running`, `stopCh`, `historyMap`, `stepMap`; per goroutine the snapshot of a tick | `Start`, `Stop`, `loop`, `tick`, `processDevice`, `handleStepResult`, `handleFlowComplete`, `Start/CompleteHistory`, `Start/CompleteStepRecord` |
| RPA handlers | `internal/rpa/handler.go` | none between requests | flow CRUD, bind, start, pause, resume, stop, engine switch, single step, script debug |
| RPA tables | `internal/database` (SQLite through gorm) | `device_rpa_config`, `rpa_flow`, `rpa_execution_history`, `rpa_execution_step`, `rpa_log`, `script_repo` | statements; several are a read followed by a `Save` of the whole row |
| step executors | `internal/rpa/steps` | sub-step, retry counts and deadlines in `StepContext` | `Execute` of fifteen step types, each a machine of sub-steps (`probe.go` is a helper of one) |
| device hub | `internal/devicews` | map of connections by device id, an atomic count, per connection: id, last-seen time, info, sequence number, task results | accept, INIT, heartbeat, messages, cleanup of dead connections, push, disconnect |
| console push | `internal/service/frontend_ws.go` | clients, subscriptions, hash of what each topic was last pushed with | subscribe, unsubscribe, request, check and push, notify, broadcast |
| session | `internal/service/service.go` | the login, the API objects made from it, the configuration | `EnsureLogin`, `forceRelogin`, `UpdateConfig`, connect, disconnect |
| unified handlers | `internal/service/unified_*.go`, `device_control.go` | `unifiedKey`, `deviceCache`, clients that read the log | one handler per command; each finds its device, logs in again when the session is gone, and calls the platform or the device |
| mapping manager | `internal/manager` | map of port mappings | add, remove, get, list, reset |
| middleware client | `third_party/JpyApiAgent` | the Core and its session, agents and their links, the map `Wait` of pending calls, port maps | login, connect, reconnect, synchronous and asynchronous messages, port maps |
| transports | `pkg/netclient`, `Packages/websocketClient` | links (signalling, peer, channel), a pool of packets with reference counts, send queues | dial, signal, send, receive, close |
| port forwarding | `pkg/portmap`, `pkg/socks5` | a multiplexer and a listener per port map | listen, forward, monitor, close |
| command line | `cmd/cli` | none (one JSON file of settings) | `rpa`, `script`, `file`, `debug` commands over HTTP |
| helpers | `pkg/utils`, `pkg/public`, `pkg/framework`, `pkg/logger`, `internal/config`, `internal/model`, `main.go`, `static.go` | log files | pure helpers, wiring |

How they interact. The console and the command line call HTTP handlers; the RPA
handlers write the tables; the engine reads the tables every two seconds and
calls a step executor for each device that runs; executors send commands to a
device through the device hub or through the middleware client and read the
answers on later polls; the hub's callbacks tell the console push that the list
of devices has changed; the session gives everybody the API objects of the
current login.

Where it is hard.

* The engine and the handlers share rows with no transaction and no lock: a row
  is read, changed in memory and saved as a whole (`StartDevice`,
  `SetDeviceRpa`, `SetDeviceCompleted`, `IncrementLoopCount`), so two goroutines
  can undo each other's writes.
* A tick works on a snapshot of rows, and an executor may take seconds: what the
  poll writes at the end is about a device that may have been stopped, bound
  again and started again meanwhile.
* Two maps in memory point into tables that survive a crash; they do not.
* `Engine.Stop` and `Engine.Start` can overlap, and a goroutine looks up the
  channel it waits on at each turn.
* A device reconnects while its old connection has not noticed yet that it is
  dead; both are handled by goroutines of their own, and entries of the hub are
  removed by device id.
* A step of a flow is polled every two seconds for minutes. What it knows from one
  poll to the next is in a context that goes through JSON and may be read back
  by another process; the platform answers late, twice or never.
* A call over a WebRTC link waits for an answer that another goroutine reads;
  the timer, the answer and the loss of the link race.
* Several goroutines notice the end of one link, and each calls the same closing
  code; taking a port map down removes the callback that would have freed it.
* The platform session is replaced (by a login, by a failed command, by a callback
  three seconds after its loss) under requests that use it with no lock.
* A push is suppressed when a hash says it was made already, while another
  goroutine is about to make it.

What makes each component correct: the execution history tells one consistent
story of each run (one open execution, owned by the map that will close it; step
records closed once; counts that agree with them); a stop sticks; a run goes on
to its end; the engine that says it runs does run. For the hub: the count agrees
with the map, a connection that is served can be reached, a dead one goes away.
For a step: it succeeds only when its own commands did, no later than one call after
its limits, and it ends. For the session: whenever the lock is free the login is
whole, and every request comes to its end unless a dial never does.
For the console push: a client ends up with the newest state. For the middleware
client: an answer reaches the call that waits for it, and no other; a link that
ended is dialled anew once; the messages that arrive are those that were sent; a
port is free when its tunnel is gone. Three of these the code keeps only in part. The
properties except exactly those cases, each by a definition with a name: a client that
subscribes between two changes of which the second undoes the first
(`ConsolePush!ShownBetween`), a SOCKS5 listener whose multiplexer ended before it was opened
(`PortForward!ListensUnwatched`), and a session that was logged in with a token kept from
an earlier login (the key `""` in `PlatformSession`).

## 2. Plan

1. **The RPA engine, its tables and its handlers** (`RpaEngine`, this is the core
   of the program), the promise to the user (`FlowRun`), the refinement between
   them (`RpaRefinement`), and proofs. *Done.*
2. **The device hub** (`DeviceHub`: `internal/devicews`): connections, the map, the
   count, the cleanup, reconnects, and proofs. *Done.*
3. **The step executors** (`Conditions`, `StepExecutors`): every step type as it is
   polled, with its retries, deadlines and context. *Done.*
4. **The services below the engine**: synchronous calls (`SyncCalls`), WebRTC links
   (`RtcLinks`), port maps (`PortForward`), packets (`PacketStream`), console push
   (`ConsolePush`), session and unified requests (`PlatformSession`). *Done.*
5. **More proofs.** *Done:* every safety property that a passing run checks, of every
   module, the safety halves of two liveness properties of `RtcLinks` and `PortForward`, and
   that `RpaEngine` implements `FlowRun` (section 6).

Runs are few and each asks a question of its own: one storm of overlapping
calls, one quiet refinement and one liveness run per concurrent component, and
one violation run for each disagreement between the code and what its comments
or manuals say.

## 3. The models and the code

### RPA: `RpaEngine`

| state | code |
|---|---|
| `row` | `device_rpa_config`: status, mode, flow, step, sub-step, loop count, variables. Counts of successes, times and messages are left out: nothing reads them to decide |
| `flow` | `rpa_flow`: the list of steps, each by its kind: no output (`act`), an output that is saved (`out`), one that has `stopFlow`, `jumpToStep` or `skipNext` besides (`steer`: `condition_check`, and `set_variables` or `http_request` when the user names a variable or a returned key so, since the engine takes these keys from any output), a type nobody registered (`bad`) |
| `hist`, `recs` | `rpa_execution_history`, `rpa_execution_step` |
| `historyMap`, `stepMap`, `running`, `stopCh` | the fields of `Engine`; channels are numbered as they are made |
| `loop[l]` | one goroutine of `Engine.loop`: where it is, the snapshot of its tick, the device and the row it is at work on |
| `req[r]` | one HTTP handler: where it is and the row it has read |

A database statement is one action. `StartDevice`, `SetDeviceRpa`,
`SetDeviceCompleted`, `IncrementLoopCount` and `MergeFlowVariables` read a row and
save it later: two actions (`StartRead`, `StartSave`, ...), with the row kept by
the goroutine in between. The four functions that hold `historyMu` are one
action each. An engine goroutine goes `Tick` → (`ProcessBroken` | `ProcessEmpty` |
`ProcessAtEnd` | `ProcessStep`) for each device of the snapshot; `ProcessStep` ends
before `Execute`, and `ExecSuccess`, `ExecFail`, `ExecPending` choose what the
executor answered. A database call that fails (`engine.go:121`, `handler.go:214`: the error is
logged or dropped, and the code goes on) is not modelled, and a step whose output steers
is taken to save something besides. `Crash` drops the two maps and every goroutine and
boots the engine again, as `main` does.

### RPA: `FlowRun` and `RpaRefinement`

`FlowRun` is what a user believes: a run goes from step to step, fails or finishes,
and start, pause, resume and stop take effect at once. `RpaRefinement` maps the
engine to it: while a handler or a poll is between two of its statements, the
mapping (`Target`) shows the row as it will leave it. It holds when no handler
overlaps a poll (`Quiet`; proved in `RpaRefinementProofs`); the runs with `Quiet = FALSE`
show what remains of it, and what does not, when they do.

### Device hub: `DeviceHub`

| state | code |
|---|---|
| `conn[c].pc` | where the goroutine of `handleConnection` / `messageLoop` is |
| `conn[c].id`, `.closed`, `.old` | `DeviceID`, `closed`, and whether `LastSeen` is more than `HeartbeatTimeout` ago |
| `conn[c].phone`, `.link` | environment: which device dialled, and what has become of the TCP connection |
| `devices` | the map of all shards. Shards matter for two things, and both are kept: each has a lock of its own, and the cleanup visits them one after another |
| `totalConnections` | the atomic count, changed outside the lock by `Add` |
| `sweep` | the local state of `cleanupTimeoutConnections` |

`Add` and `Remove` are the critical sections of `manager.go`; `Counted` is the rest of
`Add`. `AckFailed` and `Teardown` are the two places where a handler removes *by the id
its connection has then*. `HandleInit` is the late INIT that sets `DeviceID` without
moving the entry. A connection record is used again for a new connection once its
goroutine has ended and neither the map nor the cleanup refers to it.
`Break(c, "cut")` loses packets without notice, `"fin"` makes reads fail.

### Step executors: `Conditions`, `StepExecutors`

`Conditions` holds the pure parts: how a parameter is resolved from the variables
of a run (`resolveParams`, with dotted paths of one or two names; the single-step
handler passes the parameters on as they are written, `asWritten`) and how
`condition_check` compares (`compareEqual`, `toFloat64`, ...). It looks its variable up
by the flat name, without resolving a path. Numbers are written in several ways:
`Spellings` are the texts that read as a number, `Numeral` what `%v` prints of it as an
`int`, `Printed` what it prints as a `float64`, with an exponent from a million on, so
that the number 1000000 of a flow is not `eq` to the text "1000000". `StepExecutors`
takes one step of one kind through its life.

| state | code |
|---|---|
| `row` | the sub-step and the `StepContext` as the caller holds them. The engine writes the context as JSON and reads it back (`Json`: an `int64` becomes a `float64`); `runSingleStep` does not, and so a number remembers which of the two it is |
| `phase`, `pc`, `acc` | where the call of `Execute` is. The executors that send several commands and sleep in between (`start_bot`, `download_cloud`, `network_check`) can be cut by the death of the process between any two |
| `ret`, `retAt` | the result of the last `Execute`, not yet stored |
| `tasks`, `inbox`, `bot`, `net`, `conn` | environment: what became of each task submitted, results the device's connection holds, what the bot has started, pings, the connection |
| `now`, `lag` | the clock, and its ticks since the last poll |

Each sub-step is an operator (`SendTask`, `WaitDownload`, `WaitInstall`, `WaitOnline`,
`CloudWait`, `WaitConnection`, `WaitResult`, ...). A wait on the platform looks at its
limit and asks (`Asks`), and judges the answer when it has come (`Asked`); between the two
time passes, the platform works, and the process may die. `Execute` is a step of any of
them, `Store` writes its result as `handleStepResult` does; `Crash` between the two loses
the result and the place, not what the platform was told. In `RpaEngine` an executor is a choice of its outcomes:
what `StepExecutors` shows is that the choices made in sequence end.

Taken as one: two readings of the clock with no call between them; a round of
`CloudWait`, whose queries read statuses that only move forward; the two moments at
which a condition's variables are read (`engine.go:272`, `condition_check.go:73`).
`SuccessIsOwn` takes the shell of a device that was ready to stay ready
(`start_bot.go:363` calls the channel unstable), and `ResentOnlyAfterDeath` is about one
poller: two goroutines of the engine that poll one device are the run `RpaEngineStop`.

### Services below the engine

They share no state that is modelled; `MCServices` runs one of them in each
behaviour.

* `SyncCalls` (`syncSendMessage.go`, `onData`, `onOpen`). A call sends, enters its
  number in `wait`, then receives; these are three actions, because the answer can
  come between any two. `ReadMessage` is the lookup of an answer's number, `Offer`
  the `select` with a default. Answers come late, in any order, or not at all.
* `RtcLinks` (`webRTC/client.go`, `BufferRTC/rtc.go`, `middleAgentRtc`, `deviceRtc`,
  `creatRtcObject.go`). A link is its signalling loop, its peer connection, its
  channel and the closes under way; `CloseOnce` is the `sync.Once`, and the
  handler it starts closes the link its agent has *then* and dials another.
* `PortForward` (`ConnectDevice`, `DisconnectDevice`, `httpPortMap`,
  `portMapSocket5Rtc`, `streamRTC`, `pkg/portmap`). A map, its tunnel, its forwarder.
  Requests that make or take down a map are served one at a time; everything the
  network and the tunnels' goroutines do happens between their steps. A SOCKS5 map
  starts its monitor before it listens (`forwarder.go:122`, `193`): when the multiplexer
  dies in between, nobody is left to close the listener. The model has this leak;
  `PortReleased` covers SOCKS5 maps and excepts only it (`ListensUnwatched`).
* `PacketStream` (`bufferPool`, `BufferRTC`, `streamRTC`, `webRTC/dataChannel.go`,
  `BufferTCP/tcp.go`). Packets have a reference count and a content that the next
  owner overwrites. A message longer than a reader takes is refused by a data
  channel, and ends the connection on a stream: both as the code does.
* `ConsolePush` (`frontend_ws.go`). What a kind of data contains is a version; two
  versions can have the same hash. Each write is begun and ended. `offered` and
  `shown` are history: the newest version a write was begun with, and ended with.
  Data that came back to what an older hash says is not pushed. Who was shown it
  before is up to date; a client that subscribed in between, and was shown what it was
  for that moment, stays stale in the code (`frontend_ws.go:403`). `ShownBetween` is that
  client, and `PushReaches` promises nothing to it alone.
* `PlatformSession` (`service.go`, `unified_*.go`, `device_control.go`,
  `centControlPlatform/Function.go`). A request is the list of the steps in which
  its handler touches shared state; a step may put others before the rest (log in,
  look the device up). There is only ever one Core (`NewCore` returns the same one),
  so `jpyCore` is whether it is set. A nil pointer is a panic that is recovered, and
  the lock it held is released, as `defer` does. `Relogins` are the goroutines that log
  in again in the background, which nobody waits for and which take no lock; several can
  be at it at once. A session remembers the host it was dialled to and the key it was
  logged in with, where they are known: a relogin may dial an address the Core no longer
  has, and a login with the token the Core keeps (`Function.go:64`) is one as whoever
  that token was given to. A dial has no timeout and may hang for ever, with `loginLock`
  held. Any other remote call is one step with its answer.

## 4. Runs

| run | question | result |
|---|---|---|
| `RpaStorm` | Two calls of any kind (bind, start, pause, resume, stop, flow edits and deletions) overlap each other, the poll and one crash: are history, step records and the two maps consistent? | yes: seven properties |
| `RpaQuiet` | Handlers and polls that do not overlap: does the engine do what `FlowRun` says, and carry a run on to its end? | yes, with one open execution per device, own variables only, and a cause for each failure |
| `RpaLive` | Starts and stops of the engine overlap, with two goroutines: does somebody poll, does a single run end, is a stop answered? | yes |
| `RpaTwoRunning` | Can two executions of one device be open? | **yes**: two overlapping starts both cancel first and both open one |
| `RpaStopLost` | Does a stop stick? | **no**: `IncrementLoopCount` saves a row read before it |
| `RpaEngineStop` | Does a stopped goroutine of the engine go away? | **no**: stopped and started again during its tick, it waits on the new channel |
| `HubStorm` | Three connections of two devices and of broken clients: do the count, the map and the closed flags agree, whatever the order? | yes: four properties |
| `HubLive` | After three upsets of one device: does it end up with a connection that is served and found; do dead connections leave the map? | yes, for a device that waits before it dials again |
| `StepsAll` | Each step type alone, polled by the engine or by the single-step handler, with a pause or a death of the process: does it end, no later than one call after its limits, with the outcome of its own commands? | yes: eight properties, of which `SingleScriptFails` says that scripts never succeed in single-step mode |
| `Services` | The six services, one in each behaviour: do answers reach their callers, are links dialled anew once, are ports freed, are messages whole, are changes shown, do requests end? | yes: twelve properties, three of them but for the cases named at the end of section 1, and requests end unless a dial hangs |
| `SyncCallPanic` | Does the `select` around the send in `onData` keep a closed channel from panicking? | **no**: an answer looked up before the call timed out is sent after it closed its channel |
| `HubReconnect` | Does a device keep the connection it has just made? | **no**: the handler of its old connection removes by device id and closes the new one |

The runs with a bold answer are the findings of `PROJECT.json`, each with the line of a
comment or a manual that says otherwise.

Bounds, and why they are enough. The RPA rows of different devices never meet
(every statement and map entry is of one device), except that a tick takes its
devices one after another: one device, and two handlers beside one goroutine,
have every race of two writers; `RpaLive` and `RpaEngineStop` have two goroutines.
Flows have up to two steps, so that there is a first, a last, and a jump;
`OddFlows` has the empty flow, the unregistered type and a step that steers. `MaxHist`
and `MaxRec` leave room for every execution the allowed calls can open, and for a
round. `MaxPoll` is the deadline of an unfinished step. `MaxReq` counts handler
calls, `MaxCrash` crashes; two calls and a crash bring every pair of
statements of two handlers, or of a handler and a poll, side by side. `RpaStorm` has two calls, too few to stop a run, resume
it and poll a step on: what holds of step records then is shown by the theorems
`OpenRecords` and `RecordsFinal`, which hold for any number of calls. In the hub, three connections are an old one, its
successor, and the successor's; two devices and the id 0 of the broken INIT let
a late INIT collide with another device. `MaxUpset` bounds what the environment
does to live connections: a break, a time-out of the first packet, a packet of
the wrong kind, a user's disconnect, a wrong id in a late INIT, silence for the
length of `HeartbeatTimeout`. Liveness properties need it to be finite: nothing
settles while networks never do.

In `StepsAll` a tick of the clock is a minute: limits of 5, 5, 3, 2, 2 and 1 keep
the order of the code's 300, 300, 180, 120, 60 and 5 seconds, and `MaxLag` = 2 lets a
limit pass between two polls. Two files make one download finish before the other,
`MaxTasks` = 4 leaves room for both to be sent twice, one break of the process or
the run is enough for each place where it can fall, two connections let a result
come by one and be looked for in the other. `Epoch` is larger than every limit, as
1970 is long ago: a start time that was lost reads as 0 and is late at once. The
numbers of the conditions have one and two digits (texts compare otherwise than
numbers), 0 (what is no number reads as), and two of seven digits and more, which print
with an exponent, one of them spelled in three ways.

In `Services`: two callers and two numbers let an answer of a timed-out call meet
another call; two links are one and its successor; two maps and two tunnels are one
and its replacement on the same port; two senders, two packets and a queue of one
fill the queue and use a packet again, and the lengths are 0, those that with
their prefix of 1 end at the edge of a piece of 3 or one past it (2, 3, 5, 6), and 8,
which is longer than the largest message (7): a data channel refuses it, and a stream ends at it. The push is checked twice, because
each case needs room the other does not: one kind of data that changes twice and a
client that comes back (so that a hash repeats), and two kinds, one of which may
fail to be fetched. The session likewise: three requests of one user with one
fault, so that two relogins of requests overlap a third request, and two requests of
every kind of two users with two faults. The first has one relogin in the
background, the second two, which overlap.

Deadlock is not checked: the bounds on calls and upsets end every behaviour.

Symmetry is used only where no liveness property is checked.

## 5. Fairness

* `Poll(l)` and `Handle(r)`, weakly fair: the Go scheduler runs every goroutine, the
  ticker fires every two seconds, a database statement returns, an executor
  comes back (its HTTP calls and waits have time-outs).
* `ExitLoop(l)`, strongly fair: a closed channel stays readable, and Go's `select`
  chooses at random among the cases that are ready.
* No handler ever *begins* by fairness: users owe nothing.
* `Handler(c)` and `Sweep`, weakly fair: as above; the cleanup's ticker fires every
  ten seconds.
* `GrowOld(c)`, weakly fair: time passes, and what is not heard of grows old.
* `Dial`, weakly fair for each device: devices reconnect (`WebSocket协议规范.md`, the
  table of intervals). `Patient` is that table's first interval of two seconds,
  against the milliseconds a handler takes to notice that its connection was
  closed. An impatient device is checked for safety only: it can lose each new
  connection to the teardown of the one before.
* `StepsAll`: `Execute`, `Store`, the handler's giving up and the clock, weakly fair, and
  `Resume`, since a run that stays paused for ever is the user's wish. The platform
  and the device may stay silent for ever: a step ends by its own limits.
* `Services`: weak fairness only, of what the program's own goroutines do: the timer
  and the return of a call and the reading goroutine (`SyncFair`), closing and
  handling a link (`RtcFair`), the forwarder's goroutines and the notice that a
  connection is gone (`ForwardFair`), the push loop and writes (`PushFair`), the next
  step of a request (`SessionFair`): remote calls have time-outs, except the dial of a
  login (`Function.go:35` sets no `HandshakeTimeout`), which is not fair (`RunsOn`). It holds
  `loginLock`, so one that hangs holds up every request that has to log in: `RequestEnds`
  says that requests end unless some dial hangs for ever. A token that is
  asked for again and again is given in the end, without which a link that ended
  is asked a token for every five seconds for ever. New requests, events, answers and
  losses are never fair. Liveness is stated as `[]<>` of a condition, since the
  services are idle again and again.

Nothing is assumed of networks and users.

## 6. Proofs

All theorems hold for any sets and bounds the assumptions of the modules allow
(`EngineAssumption`, `HubAssumption`, `StepAssumption`, `ServicesAssumption`, ...: finite sets where sets
are counted, distinct null values, bounds that are naturals, no caller that is called
"nobody" or is a relogin, no sender of packets that is the send loop, no device that is the
null of the port maps). `NumberAssumption` says of the ways numbers are written that a text
is read as one number, and that what `%v` prints of a number is read as that number. `PushAssumption` and `SessionAssumption` are hypotheses of the
two theorems about these modules alone; `MCServices` assumes them of its constants,
and every run that uses it checks them.

| theorem | argument |
|---|---|
| `TypeCorrect`: `Spec => []TypeOK` (`RpaEngineProofs`) | `TypeInv`: `TypeOK` alone is not inductive, since what a goroutine holds must fit where it is: one that is at work has a device, one that executes a step has an index inside the flow, one about to save has a row |
| `LiveHistory`, `RunningOwned` (`RpaEngineProofs`) | `HistInv`. `HistSteps` shows that every step of the system touches the history by `StartHistory`, `CompleteHistory`, `StartCancel`, a crash, or not at all; the two invariants are proved together, for a new execution keeps the second only because the first says which one the map had |
| `OrphansClosed` (`RpaEngineProofs`) | over the same split: no step makes an execution of an earlier process running, and the only way into a start is `StartCancel`, which closes them all |
| `OpenRecords`, `RecordsFinal`, `RoundsRevive` (`RpaEngineProofs`) | `RecInv`, over the same split (`RecSteps`); `RecordsFinal` and `RoundsRevive` are action properties, from the invariant and the case of each poll action |
| `Alive` (`RpaEngineProofs`) | `EngineAlive` is inductive over the types: a poll never ends a goroutine whose channel is open, and a start that sets the switch goes on to `go loop` |
| `VariablesOwned`: `Quiet => (Spec => []OwnVariables)` (`RpaQuietProofs`) | `VarsInv`: handlers and polls take turns (`NoOverlap`), and the row a goroutine or a handler is about to save has the variables of the run the table has |
| `OneRunning`: `Quiet /\ OneLoop /\ MaxCrash = 0 => (Spec => []OneRunningHistory)` | `OneInv`: an execution that is open is the one `historyMap` holds, and there is none when a start or a round is about to open another |
| `FailuresCaused`: `Quiet /\ OneLoop /\ NothingSteers => (Spec => []FailureHasCause)` | `CauseInv`: what is known at each place of a poll of the record that was opened, from the start of the step to the counts |
| `FlowRunImplemented`: `Quiet /\ OneLoop /\ MaxCrash = 0 /\ PlainRuns => (Spec => ImplementsFlowRun)` (`RpaRefinementProofs`) | `RunState`: the invariants of the last two theorems, and `RunInv`, what a goroutine half way through relies on: a polled device runs, at a step its flow has, with the snapshot the table has (`OnCourse`); the row a handler is about to save is the one it announced (`Prepared`); `historyMap` holds an open execution unless a start has just cancelled it (`HeldOpen`); a device with no row never ran (`NoneUnused`). `PollShows` and `HandlerShows` say what the mapping shows in between. One lemma for each action then shows that it is the step of `FlowRun` its handler or poll stands for (`FStart`, `FAdvance`, ...), or changes nothing that shows; `OneDevice` and `NoDeviceStep` give what all of them keep, at the other devices |
| `HubTypes` (`DeviceHubProofs`) | `HubInv` |
| `OpenRegistered` | `MapInv`: a connection not registered yet is not in the map, one in the map is there once and is open, and an open one that is served is in it. `Steps` shows that every step is an addition, a removal, a dial, or leaves the map and the closed flags alone |
| `GhostsRenamed` | inductive over `HubInv` with the same split: the only steps that end a registered handler remove the id its connection has |
| `CountNeverDrifts` | the cardinalities of `Held` and `Uncounted` change by the element each kind of step adds or removes |
| `AnswersOwn`, `WaitsForgotten` (`ServicesProofs`) | `SyncInv`: a number that was given out belongs to one command, so that whatever is in the inbox, in a channel or on its way under that number answers that command; an entry of `Wait` belongs to a caller that has not forgotten it and whose channel is open |
| `RedialsOnce` (`ServicesProofs`, an action property) | `RtcInv`: no handler runs before its link was closed once, and a link that was not dialled is as it was made |
| `DeadLinksNoticed` (`ServicesProofs`): the safety half of `DeadLinkRedialled` | `Noticed` (part of `RtcBounds`): a link whose signalling ended without a peer connection is still read by its loop, or has a call of `Close` under way, or a handler; `SeenTo`: a handler that is done has a successor whose `by` it is, or found its agent told to stay down. `SeenKeeps` shows both kept by whatever leaves the agents of dialled links and what agents were told alone; it needs `AgentsMade`, for only an agent nobody has is made anew |
| `ListenersWatched` (`ServicesProofs`): the safety half of `PortReleased` | `ForwardInv`: a map's tunnel and forwarder were made for that map (`MapsOwn`), a request half way through has its map (`JobWhole`), and a forwarder that has not started has no listener, so that the step that opens one is the step that has it watched |
| `FramesStayWhole` (`ServicesProofs`) | `PacketInv`. The reference count of a packet is the number of those who hold it, sender and queue or send loop (`RefsCount`, `HeldOnce`), so a packet that is queued or being sent is not written; what waits in the queue, is with the loop or holds the lock are the messages that follow those sent (`InOrder`). `PiecesFlow` replaces the induction over the pieces: there is a function from the places of the wire to a message and a count in it, from where the reader is to where the sender is, and each piece takes the one before to the one after; sending a piece extends the function, receiving one shifts it |
| `TypesHold` (`ServicesProofs`) | the invariants of all components together (`ServicesInv`). The bounds need arguments of their own: the inbox, the references of a packet, and the closes of a link under way, which `Counted` weighs against what has not happened yet (a peer connection that has not failed calls twice, a loop that has not ended once); for the push `PushBounded`, for the session `KnownTypes` |
| `Types`, `VerdictsInTime`, `SuccessOwned`, `ScriptVerdicts`, `SingleScripts` (`StepExecutorsProofs`) | `StepInv`. At each sub-step the stored context has what the next ones read (`Carries`, one conjunct per kind): the numbers of tasks that exist and, for a task that was waited for, its outcome; times that are float64 once they went through JSON. A result about to be stored has the same (`Returned`), and one that is final satisfies the five properties (`Judged`); the platform and the device answer only for what they were asked (`Answered`). A crash or a store hands the row on with what it carries, and nothing the environment does takes back an outcome |
| `ConditionsAgree` (`StepExecutorsProofs`) | `JudgedRight`: a condition is judged by the first call of `Execute`, and its result is the verdict on its parameters as this caller passes them. `ReadAs` and `NumbersCompare` reduce the comparisons to those of the integers the values stand for, `NumeralsEqual` does so for `eq` where both print as numerals, and `LikeItself` compares a variable with a reference to itself |
| `OneAttemptPerLife` (`StepExecutorsProofs`) | `SentInv`: while nothing is recorded as sent the tasks number at most what the attempts that died have sent (`Lost`), plus those of the attempt under way (`UnderWay`); once the sending is recorded, one attempt more (`Allowed`). `AllowedGrows`, since no step goes back to a sub-step before its sending |
| `NoneMissedEver`: `PushAssumption => (Spec => []NothingMissed)` (`ConsolePushProofs`); `PushesReachAll` (`ServicesProofs`) | `PushInv`: nobody was shown a version that does not exist yet, and whoever subscribed and has not been offered the version of the hash has a fetch or a broadcast under way that brings it or a newer one (`WillBring`) |
| `SessionWhole`: `SessionAssumption => (Spec => []SessionHeld)` (`PlatformSessionProofs`); `SessionsHeld` (`ServicesProofs`) | `SessionInv`: whoever has the lock is at one of the steps of a login, with what the steps before have left behind (`Progress`), and nobody else has such steps; whoever is to reset the Core without the lock is to clear the login next (`Ready`). `Own` says that the session is dialled to the Core's host or by a relogin, and logged in with the Core's key or a kept token, `Connected` that besides there is one, unless somebody is about to clear. A session that disappears while the lock is held is announced by somebody at "clear", who stays there until the lock is free |

The components of `MCServices` share no variable. `OneSteps` says that each of its steps
is one of a component or leaves that component alone, so that an invariant of the
component is one of the whole; `PushesReachAll` and `SessionsHeld` take theirs from the
modules that prove it for every value of the constants, instantiated with the two sets
of bounds of the run (`SamePush`, `SameSession`: both instances have the same
definitions).

Why the hypotheses. `Quiet`: that it is needed is what the runs `RpaTwoRunning` and
`RpaStopLost` show. `OneLoop`, one engine goroutine: two of them poll one device side by
side, and the run `RpaEngineStop` shows how there come to be two. `MaxCrash = 0` in `OneRunning`:
after a crash the execution that was open still reads running until the next start, while
the device, which is still running too, opens another at its next round. `NothingSteers` in `FailuresCaused`:
a flow can be edited so that a step that was half done becomes one that steers, and a
step that stops the flow completes the run with a sub-step other than 0 and no open
record; after a resume the step at that place fails without a record of its own.
`PlainRuns` in `FlowRunImplemented`: a flow that is deleted, or has a step nobody
registered, ends its run in error and leaves the execution open; a flow with no steps
completes without closing it; a step that steers jumps and stops. `FlowRun` promises none of
these, and `RpaStorm` has them all. `MaxCrash = 0` there: a run that goes on after a crash
comes to its end with its execution left open, since the new process does not know it.

Model-checked only:

* Liveness (`RunEnds`, `StopReturns`, `DeadLeave`, `Settles`, `StepEnds`, `CallEnds`,
  `DeadLinkRedialled`, `PortReleased`, `PushReaches`, `RequestEnds`, the fair refinement):
  the prover has no rule for fairness. `ImplementsFairFlowRun` is `ImplementsFlowRun`,
  which is proved, and the fairness of the steps of a run, which only TLC checks.

Every invariant and every safety action property of a passing run is a theorem.

## 7. Not modelled

`PROJECT.json` lists every component with its status.

* RPA: log rows and times; `debugScript`; script CRUD; the read-only handlers; database
  calls that fail; no property covers what a slow step or its saved variables do to a
  run started meanwhile (two hazards of `PROJECT.json` without properties).
* Step executors: task ids are compared as they are (`%v` prints a `float64` id of a
  million and more with an exponent); two goroutines that poll one step.
* Device hub: serial numbers, sequence numbers, the caches of debug results,
  screenshots and nodes; `Stop` and `CloseAll`, which nothing calls; the API handlers
  that write one packet.
* Console push: two calls of `NotifyDevicesChanged` at once (one runs at a time here),
  and the crash of a map that is written while it is read.
* Unified handlers: the fields of each request, the WebSocket they came by, and the
  files of the log (`log_query.go`, `api_log_middleware.go`, log streaming).
  `processDeviceCommands` is not called.
* Middleware client: touch, key and video commands, which send one packet and wait for
  nothing; pictures and sound. A dial of a link that fails outright is not made again,
  and `DeadLinkRedialled` counts it as made. The platform's API client is another repository and
  is external here.
* Transports: `Packages/websocketClient`, `BufferWS` and the client of `BufferTCP`, which
  no file imports; deadlines; errors of a send on a connection that has just closed.
* Port forwarding: what is inside a forwarded connection; port maps that
  `Core.Reset` takes down while a request makes one (`PlatformSession` has the reset,
  `PortForward` the maps); two requests for one device at once.
* Left aside for good: the vendored SOCKS5 server, the command line, logging, route
  tables and pure helpers. They keep no state that another part reads, or are not
  this repository's code.
