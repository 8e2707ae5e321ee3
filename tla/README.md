# The Nu++ runtime, specified

Nu++ compiles a typed dialect of Lua. Its runtime library runs concurrent work
in *task scopes*: a block opens a scope, starts coroutine children and worker
tasks in it, and cannot leave before all of them have settled. In a browser the
same program runs in an emulated guest inside a Worker, and a JavaScript
runtime serves its requests; the documentation, the playground and the editor
extension drive the compiler the same way. This directory holds TLA+
specifications of that machinery, translated from the source, the TLC
configurations that check them and proofs checked by TLAPS.

Paths below are relative to the repository root; `PROJECT.json` maps every
definition to the lines it models.

## 1. Inventory

### The parts and how they interact

| Part | Source | State it keeps | Operations |
|---|---|---|---|
| Task scope | `src/nupp/tasks.nupp` | live children in start order, run queue, slots (`limit`, `lent`, slot waiters), flags `failed`, `cancelled`, `deliberate`, `settling`, `closed`, wakers, deadline; per child: status, `requested`, `lending`, waiters, body | spawn, work, await, cancel (task, worker task, scope), checkpoint, race, gather, close; inside: pump, frame handler, slot lending, settlement, deadline |
| Run queue | same file, 469-503, 552-562, 734-754 | array with stale entries, `head`, `tail`, counters `ready` and `stale` | mark, take, settle, compact |
| Suspension | `src/nupp/runtime/provider/suspension.nupp`, `src/nupp/suspension/` | registered readiness sources, installed handlers (extents), tickets, host turn and its activation budget | suspend, derive, poll, blocking park, deferral to the next turn, handler installation and closing |
| Worker scheduler | `src/nupp/runtime/provider/workers.nupp` | lanes (pooled and dedicated), tasks by id, unanswered tasks, parked resumes, each worker scope's list of outstanding tasks | submit, route a reply, cancel, wait, poll, retire a lane, close |
| Worker task states | `native/crates/host/src/worker_adapter.rs` | one atomic state per task shared by parent and lane; threads and their mailboxes | start, request cancellation, finish, spawn, join |
| Worker threads | `native/crates/host/src/workers.rs` | thread handle, panic slot | start, join |
| Bounded queue | `native/crates/host/src/channels.rs` 1-150 | entries, byte count, `closed`, two condition variables | try_push, push_wait, pop (now, timed, blocking), close, close_and_discard |
| Channel endpoints | `channels.rs` 262-470, `runtime/provider/channels.nupp` | two queues per channel, endpoint ownership | send, receive, close, transfer, abort |
| Host channel, native | `native/crates/host/src/host_channel.rs` | requests an embedder has registered | register, answer, cancel |

In the browser and the editors:

| Part | Source | State it keeps | Operations |
|---|---|---|---|
| Application loading | `runtime/luajit/assets.mjs`, `app-runtime.mjs` | manifest, memo of verified assets | fetch, verify, start lanes, end |
| Guest host | `runtime/luajit/host.mjs`, `vm-worker.mjs` | Worker, boot and frame timers, numbered frames | boot, fall back from a snapshot, receive, respond, close |
| Application run | `runtime/wasm/app-runtime.mjs`, `runtime/luajit/app-runtime.mjs`, `transfers.mjs` | held and detached responses, leases, limits | ship a frame, settle, wake, answer, cancel, end |
| Host channel | `runtime/wasm/host-channel.mjs` | calls in flight, answers, announced results, routes, inbound queue, uploads | call, post, cancel, fetch, push, upload, close |
| Page and Worker | `runtime/wasm/browser-entry.mjs`, `runtime/luajit/browser-worker.mjs` | the promise of the run, early pushes, controllers of calls | run, push, cancel, close |
| Worker pool | `runtime/wasm/worker-pool.mjs`, `runtime/luajit/worker-lane.mjs` | lanes, queue, tasks | submit, dispatch, cancel, settle, close; a lane boots, runs, replies, fails |
| Port channel | `runtime/wasm/channel.mjs` | credits, queue, subscribers of either end | send, receive, close, move, adopt |
| Channel host | `runtime/wasm/channel-host.mjs` | endpoint tables, supervisors, watches | create, take, adopt, release, revoke, settle, close |
| Files, HTTP, GPU, audio | `runtime/wasm/app-runtime.mjs`, `audio.mjs`, `audio-worklet.mjs` | handles and their locks; bodies; device, buffers, readbacks; chunks | the operations an application asks for |
| Documentation playgrounds | `editors/playground/src/doc-app.js` | one compiler client and its queue, a state per editor | check, hover, show Lua, run, stop |
| Playground page | `editors/playground/src/app.js`, `luajit-worker.js` | the Worker, its queue, pending requests, the panel | edit, check, hover, compile, run, stop |
| VS Code extension | `editors/vscode/extension.js` | a language client per folder | start, stop, restart, folder changes |

The remaining parts (compiler, tools, data libraries, native I/O providers,
packaging scripts) are listed in `PROJECT.json` with the reason they are not
modelled: sequential translation, bytes, or operating-system I/O that a task
scope only sees as an external wait.

Everything in a task scope runs on one Lua state. The **block** drives its
children itself: whenever it waits (for a slot, for a task, for something of
its own, or to drain the scope on the way out) it runs the loop of `pump` or of
`frameHandler`, which resumes runnable children and, when there are none, parks
outward: a blocking poll of all readiness sources, or a **host** that owns the
thread and resumes the block when it is woken. Children that wait register a
one-shot resume which marks them runnable and fires the scope's wakers. Worker
tasks run on **lanes**, other threads with a Lua state each; what crosses is a
submission, an atomic state and a reply in a bounded queue, which the parent
routes when it polls. Both kinds of task hold a slot of the scope's limit.

### What is hard

* A wakeup is one call at one moment; the thing it is about (a free slot, a
  failure, a request, the deadline, a new turn) is a condition. Every pair of
  condition and park is a chance to sleep through it.
* Cancellation meets a child in each of its states: not started, runnable,
  running, parked on a sibling, a worker task, a slot or the outside, lending
  its slot, draining a scope of its own, unwinding, or catching.
* Slots are counted in three places (children, worker tasks, lent), changed on
  different paths.
* A reply races a cancellation across threads, and the end of a lane's thread
  races whoever polls it, waits for it or joins it.
* Leaving the block must finish, whatever the children do.
* The queue's stale entries and two counters must look like a FIFO.
* On the bounded queue, `notify_one` is used with producers whose messages
  differ in size.

In the browser nothing runs in parallel inside one realm, but everything is
cut into steps by `await` and by messages, and a Worker can end at any of them:

* A message is in flight when the sender is closed, replaced or moved, and
  arrives at what took its place.
* A port is handed from realm to realm with its queue; credits, closures and
  endpoints travel with it or are lost.
* What is charged, leased or retained must be given back on the path of every
  error, the run's end among them.
* A frame is answered, refused, cancelled or cut off, and whoever waits must
  hear one of them.
* Generations and numbers decide whether an answer is still wanted.

`PROJECT.json` lists these as hazards, each at its line and with the properties
that would catch it.

### What makes the parts correct

* Scope: every failure is owned by the scope and stops the family; every live
  child is listed once and only live ones are queued; a body is called or
  dropped, once; the limit holds; a registered resume and an open wait
  correspond one to one; requests are observed; a closed scope leaves nothing.
* Queue of runnable children: a FIFO, with exact counters.
* Bounded queue: FIFO, one owner per message, no lost wakeup, close wakes all.
* Worker scheduler: a reply is routed once and past nobody who waits for it; a
  task taken back never runs; moved storage has an owner; a scope that closed
  leaves no task and no dedicated lane; every wait ends.
* Browser channels: what was accepted arrives in order, credits are conserved,
  an end has one owner, the loss of one end reaches the other.
* Worker pool: page and lane agree on who runs what, a task settles once,
  none waits while a lane could take it, endpoints are closed or passed on.
* Host channel, frames, page: each request is answered once, each result has
  one owner, no frame sleeps on something to say, limits hold.
* Files, HTTP, GPU, audio: nothing that was opened, retained or queued
  outlives its owner or is counted twice.
* Loading: everyone runs the bytes of one build.
* Editors: no button, tab or request waits for an answer that cannot come, and
  what is shown never goes back to an older program.

## 2. Modules

| Module | Models | Notes |
|---|---|---|
| `TaskScope` | one scope: block, children, worker tasks, host, lanes, clock | the core |
| `RunQueue` | the array, `ready`, `stale`, compaction | implements `FifoQueue` |
| `FifoQueue` | the FIFO of runnable children | abstract; what `TaskScope` uses |
| `BoundedQueue` | `BoundedQueue<T>` of `channels.rs` | implements `Channel` |
| `Channel` | a bounded FIFO channel | abstract |
| `NativeWorkers` | the worker scheduler, the lanes' threads and the task states they share | blocking and parked waits |
| `MCTaskScope`, `MCNative`, `MCBrowserServices`, `MCBrowserChannels`, `MCBrowserAnswers`, `MCEditors` | instances for TLC | see section 3 |
| `TaskScope_proofs`, `TaskScopeWaits_proofs` | theorems about `TaskScope` | the second, on waiting, slots, closing, cancellation and the host, extends the first |
| `RunQueue_proofs`, `BoundedQueue_proofs`, `NativeWorkers_proofs`, `AssetLoad_proofs`, `HostCalls_proofs`, `PortChannel_proofs` | theorems about these six | |

In the browser, from the bytes outwards:

| Module | Models |
|---|---|
| `AssetLoad` | loading an application and its lanes while the server is given new builds |
| `GuestSession` | one guest: `createGuest` and its VM Worker, from boot to close |
| `EffectFrames` | the frames of requests an application ships and the answers it gets |
| `HostCalls`, `HostStreams` | calls, posts and results of `os.host`; pushed messages and uploads |
| `PageSession` | the page and the application's Worker |
| `PortChannel` | both ends of a channel over a `MessagePort` |
| `ChannelHost` | the endpoint tables of the page and its lanes, and the supervisors |
| `WorkerPool` | the pool on the page composed with the worker of each lane |
| `FileStore`, `HttpBodies`, `GpuRuntime`, `AudioStream` | what serves the requests of that kind |
| `DocPlayground` | the editors of a documentation page over one compiler |
| `PlaygroundPage` | the playground's page composed with its Worker |
| `LanguageClients` | the extension's language clients |

A comment that starts with *Mutant* marks a definition that no specification
uses. It is a plausible mistake in the definition below it; putting it in that
definition's place makes TLC report the property named for it in
`PROJECT.json`, which shows that the property depends on the code. A property
that joins several has a mutant for each of them.

### TaskScope

`cpu` says who runs: the block, a child it resumed, or the host. `act[t]` and
`block` are program counters: the place where a child or the block is, what it
waits for, and whether the wait's one-shot resume has been called. A step is
what runs between two points where control, or the loop that is running, may
change.

A settlement or a cancellation calls others: it resumes waiters, walks the live
list, cancels worker tasks, and each call may settle something in turn. These
calls are the sequence `owed`; only its head runs, what it owes comes first,
and nothing else runs until `owed` is empty (`Quiet`). This is the call stack
of the code, so a property may look between two of its calls, and
`requestCancellation` walks the list as it was when it started, which is what
the code's `next` pointers give: nothing the walk calls settles a child.

| Action | Code |
|---|---|
| `Spawn`, `Work`, `BlockSpawn`, `BlockWork`, `SlotTaken`, `SlotWanted`, `Register`, `RefuseBody` | `scope:spawn`, `spawnRaw`, `startWorker`, `awaitSlot` |
| `Lend`, `WakeLender` | `lendSlot` |
| `Await`, `AwaitReturns`, `BlockAwait` | `TaskMT.await` |
| `AwaitFork`, `AwaitForkReturns`, `ReplyAwaited`, `ReplyTaken` | `ForkMT.await`, `waitFor` |
| `CancelTask`, `CancelFork`, `CancelScope` and the block's | `TaskMT.cancel`, `ForkMT.cancel`, `cancelImpl` |
| `Checkpoint`, `BlockCheckpoint` | `checkpoint` |
| `Enter`, `Wake...`, `BodyReturns`, `BodyFails`, `Unwinds`, `Catch`, `Finish` | the child's handler and `resumeChild` |
| `SettleChild`, `ForkSettled`, `Route`, `RunCancel` | `settleChild`, the worker observer, `route`, `TaskImpl:cancel` |
| `Pump...` | `pump`, `parkScope`, `deferTurn` |
| `Drive...`, `Abandon` | `frameHandler`, `parkOutward` |
| `BlockCloses`, `WorkersDrain`, `ScopeCloses` | `closeScope`, `settle`, `workerScope:close` |
| `HostResumes`, `HostArms`, `TimerFires`, `NextTurn`, `ExternalReady`, `RouteReply`, `BlockReady` | the blocking park, `armScope`, `poll`, the host turn |
| `LaneStarts`, `LaneFinishes`, `LaneReplies` | `worker_adapter.rs` task states, `runscheduler` |

Data is abstracted to what the properties tell apart. Result packs, error
values and names are left out; a failure is one kind of failure. A nested scope
is the place `drain` of the child that opened it; whether it was cancelled
deliberately is all that its closing depends on. What a body does is any
sequence of the operations in `TaskOps`, at most `TaskSteps` of them, and it may
return, fail, unwind or, where `Catches`, catch at any point.

### RunQueue and BoundedQueue

`RunQueue` has `markRunnable`, `takeRunnable`, `compactQueue` and the queue's
part of `settleChild`; `runnable` is the set of children whose flag is set. In
`BoundedQueue` every method holds the mutex except inside `Condvar::wait`, so a
body between two waits is a step; a sleeping thread is a member of `arrived` or
`space`, and a wakeup, a spurious one or a timeout removes it.

### NativeWorkers

The parent is one thread and lanes are others, so the parent's calls are cut
where a lane's step between two of its reads matters: `busy` is the call it is
in (a submission between registering and pushing, `isdone` or `cancel` between
two replies, a poll with the lanes it has still to visit, a join), and no other
call of the parent starts meanwhile. `at[f]` is where a coroutine is in its
await, `at["close"]` where closing is, and `waiters` the resumes that are
registered and not yet called. `Handled` says whether waits park or block.

| Action | Code |
|---|---|
| `Submit`, `Admit`, `Push`, their refusals | `submitImpl`, `leastBusy`, with the poll before a dedicated one |
| `Route` | `route`, `settleReply`, `release` |
| `Await`, `Isdone...`, `ReplyCame`, `LaneGone`, `Parks`, `Blocks`, `Joins`, `Returns`, `Abandon` | `TaskImpl:await`, `waitFor`, `waitForBlocking`, `waitForEnd` |
| `Cancel`, `CancelEnds` | `TaskImpl:cancel`, `nupp_rust_worker_task_cancel` |
| `Poll...`, `JoinEnds` | `pollScheduler`, `wakeEndedLane`, `retireLane`, `nupp_rust_worker_join` |
| `Close...` | `closeScope`, `settleParking` |
| `Lane...` | `runscheduler`, `workerReply`, the task states, the closure of `nupp_rust_worker_spawn` |

`LaneCrashes` is a scheduler loop that raises, on a message it cannot read or
cleaning up after a task: the task is never answered, the inbox is discarded
and both channels close. A moved allocation is followed from the function that
returned it to whoever takes or frees it (`storage`).

### The browser's modules

A step is what JavaScript runs without an `await`: a call, a continuation or an
event handler, from its start to its next `await` or its end. Ports and Workers
deliver in order, one message a step. State that the code keeps in closures and
maps is kept in functions over small sets of names; payloads are reduced to
their size, their number or the build, program or call they belong to.

* **PortChannel.** A sender spends a slot and the payload's bytes for each
  value; a consumed value gives them back in a credit message. `Loiters` says
  whether a moved end may wait on the page for its lane, `Supervised` whether
  the page reports the loss of an end to its peer. `remote` is that report: only
  `revoke` posts it, once, for an end that is terminated (`Perish`) or of whose
  closing the page has not heard (`Revoke`). An end that closes tells its peer
  itself, on the data port. A started port without a listener, data or control,
  loses what it is sent, which is what a browser does.
* **ChannelHost.** `place[x]` is where an end is: on a host, in transit, closed,
  or dead with its Worker. The supervisor of an end and the end itself exchange
  "closed", "remote-close" and "abort".
* **WorkerPool.** The pool is a record and each helper of the code a function
  of it; every event of the page is one step, the dispatch at its end included.
* **HostCalls, HostStreams.** Both halves of `host-channel.mjs`: a frame's
  inbox takes any prefix of what fits. `Cramped` names the calls whose answers
  may fail to fit.
* **EffectFrames.** `Size`, `Budget` and `Slot` stand for the bytes an answer
  may take; `PerTurn` and `PerRun` for the limits on effects.
* **GuestSession.** Two instances, the one restored from a snapshot and the one
  started without; messages of the first may arrive after it was replaced.
* **PageSession.** What the Worker does with a call after the page's answer is
  in `HostCalls`.
* **FileStore.** Operations run one after the other and stop at each `await` on
  the way to an exclusive access handle; storage may refuse and another Worker
  may take the file. A byte of its contents is the number of the
  request that wrote it.
* **GpuRuntime.** Operations run concurrently; a readback is named after the
  operation that made it.
* **AssetLoad.** Bytes are the build they belong to. `Fixed` assets hold their
  digest in their name, so the server has the old ones too. The page checks the
  lanes' script, and the browser fetches it again: where a deploy replaces
  files one by one that second copy is not covered, and `ScriptOfBuild` says so.
* **DocPlayground, PlaygroundPage.** A program is an editor and the number of
  its edits; `Clean` are the ones that check. An error of the code generator is
  treated like a program that does not check. Starting a queued operation is a
  step of its own in `DocPlayground`, which only adds interleavings.
* **LanguageClients.** The library's client is external: it refuses to stop
  while it starts, and its start, stop and disposal may fail. A restart and a
  folder change are each cut where they wait for stops to settle, and go on
  without another look: `ChangeFolders` and `FoldersStopped` are the two halves
  of one handler. A client is `left` when its handler threw before it disposed
  the watchers. `Patient` says that the user waits for servers to start before
  the next restart or folder change, `Steady` that no folder closes which a
  change under way has yet to start.

## 3. Runs

| Run | Instance | Shows |
|---|---|---|
| `task_scope` | 3 children, limit 2, catching bodies, block and children spawn, await, cancel, drain, fail | `MembersSound`, `CancellationReaches`: list, queue, waiters, bodies and requests are consistent |
| `task_scope_workers` | 2 children, 2 worker tasks, limit 2, deadline | `TypeOK`; `FailureOwned`; `SlotsSound` with the slots of worker tasks; `NothingLeft`: bodies are dropped when a slot wait is abandoned, and closing leaves nothing; `OneWay`: what was asked to stop never starts and a task settles once, whichever of reply and cancellation comes first |
| `task_scope_hosted` | 3 children, limit 1, deadline, one activation a turn, a host | the host never sleeps through work; the deadline reaches everyone; a child asked to stop settles; a lender gets on |
| `task_scope_live` | 2 children, 2 worker tasks, limit 2, no deadline; 3 steps of the block, 1 of each child | leaving the block ends; every spawn and work of the block, its awaits of a child or a worker task and its own waits end, also where a spawn waits for the oldest worker task |
| `native` | 2 producers, 2 consumers, 4 sizes of message, limits 2 and 3; 5 children, threshold 1; a pooled and a dedicated worker task, 2 pooled ones, with lanes that may end early; 2 under a handler; a dedicated one under a handler | `QueueSound`: accounting, order, ownership; `NoLostWakeup`; `ImplementsChannel`, `RunImplements`: `BoundedQueue` implements `Channel`, `RunQueue` implements `FifoQueue` and its counters are exact; `WorkersSound`: replies are accounted for, what was taken back never runs, moved storage is owned, and a closed scope leaves nothing; `CallsReturn`: blocked pushes and pops, awaits and closes end |
| `browser_services` | one small instance of each service, listed below | one invariant each: `OneBuildRuns`, `FramesSound`, `SessionSound`, `ChannelsSound`, `PoolSound`, `StreamsSound`, `FilesSound`, `BodiesSound`, `ReadbacksSound`, `AudioSound`; and `AppendsKeep`, of steps |
| `browser_channels` | 2 slots, 2 bytes, 3 sends, 3 moves; a channel between a page and 2 lanes; 3 tasks on one lane that may end | `NothingStranded`: no accepted value is lost and credits are exact; `LossReaches`: an end that closed or was terminated, or whose lane died, is missed at the other end, and no end outlives its resource; `TasksSettle`: a task settles once, none waits while a lane is free, and all end |
| `browser_answers` | 4 calls; 3 requests; a call of the Worker; a guest of 4 frames with a snapshot; 3 file operations; a playground with a queue of 1; an editor with 2 runs | `CallsSound`: a result has one owner; `GuestSound`, `ReplacedUnseen`: a replaced guest is not heard and performs nothing twice; `AllAnswered`: everyone who asks is answered |
| `editors` | 2 editors over one compiler; 4 requests, 2 edits, a queue of 2; 2 folders, 8 clients, 3 restarts and folder changes, stops and starts that may fail | `PlaygroundsSound`; `ClientsSound`: `ClosedStops` where `Steady`, the rest with and without; `DiagsForward` |
| `slot_wakeup`, `joiner_stranded`, `port_boot_window` | minimal | violations: section 5 |

The last five passing runs put several components into one model. `MCNative`,
`MCBrowserServices`, `MCBrowserChannels`, `MCBrowserAnswers` and `MCEditors`
extend one of them and take the others by `INSTANCE`, their clashing variables
renamed. The components of such a model share no variable, so `part`, which no
step changes, picks the one that moves, and the others stay in their initial
state: the reachable states are the sum, not the product, of the components',
and a property of one component holds of the run exactly when it holds of that
component alone. Where components do interact (a page and its Worker, the pool
and its lanes, both ends of a port, the host's tables and the supervisors), one
module models both sides.

The instances of `browser_services`: `AssetLoad` with a page, 2 lanes, 2 builds,
one asset encoded and one named by its digest; `EffectFrames` with 2 sleeps, a
leased and a plain request under a limit of 3; `PageSession` with 1 call and 2
pushes over an early bound of 1; `PortChannel` with moves that may wait;
`ChannelHost` with a page and 2 lanes; `WorkerPool` with 3 tasks, one dedicated
and two with endpoints, and a worker that cannot be opened; `HostStreams` with 3
pushes of 2 kinds over a bound of 2, and with 3 uploads over a limit of 2;
`FileStore` with 4 operations on one file, of opening and closing and of seeking
and writing; `HttpBodies` with 3 requests over a limit of 2; `GpuRuntime` with 5
operations on one buffer, 4 on two, and 3 on kernels; `AudioStream` with 4
chunks of 1 to 3 frames and a quantum of 2.

**Bounds.** Three children are the fewest that give a lender, what it started,
and a sibling that awaits or cancels one of them. A limit of 1 or 2 is full in
most states. Two worker tasks give one that settles while the other is
outstanding. `TaskSteps` and `BlockSteps` count operations, not steps: two per
child let it start something and wait for it. One activation a turn makes every
second resume meet a spent turn. A threshold of 1 instead of 32 makes five
children enough for a compaction with live entries on both sides. Message sizes
0, 1, 2 and 4 under a byte limit of 3 give messages that fit together, that fit
alone, and one that never fits. `CHECK_DEADLOCK FALSE` is set for `TaskScope`
because a closed scope stops, and because a program may wait for ever (two
children that await each other); for `native` because a closed worker scope
stops. Queues of one message between the parent and a lane are full whenever a
lane has something it has not taken, and one early end of a lane is enough,
since lanes meet only in the choice of the least busy and in a poll.

In the browser's modules two of everything that competes (lanes, buffers,
editors, kinds, builds) and one more request than a limit or a queue takes are
the smallest instances in which one can overtake, displace or be taken for the
other. Port credits of 2 slots and 2 bytes with messages of 0 and 2 bytes make
either run out first. Quantum 2 with chunks of 1 to 3 frames gives chunks that
end inside, at and past a quantum. `MaxFaults`, `MaxCrashes`, `MaxRefusals` and
`MaxInterrupts` bound failures, not what happens after one. The run
`editors` uses symmetry between the two editors, which are interchangeable in
what it checks; liveness of an editor is checked in `browser_answers`, with one
and no symmetry. Deadlock is not checked where a page may simply have nothing
more to do.

**Fairness.** The Lua state runs while it has something to run: weak fairness
on callbacks, on the block's steps and on each child's. A host looks at the
wait it was woken for, and timers fire. A poll drives every registered source,
so what is ready whenever the host polls is delivered: strong fairness on
`ExternalReady`, `BlockReady` and `RouteReply`, since control leaves the host
between two polls. Lanes run and answer. The clock is not fair: a deadline may
never come. `BoundedQueue` assumes that a woken thread gets the lock, and for
`PushReturns` that consumers keep popping, which is what a lane and its parent
do. In `NativeWorkers` without a handler the parent goes on with what it began
and with the wait it blocks in, and each lane's thread runs; nothing is assumed
of a host, and liveness under a handler is not checked there.

In the browser the event loop delivers every posted message and runs every
continuation: weak fairness on the receiving steps of pages, Workers, lanes and
ports, and on settled promises. What a handler, a Worker's boot or a program
does is fair only where the code bounds it or the property asks for it:
`CallsAnswered` and `CallsSettle` assume that handlers return, `AllSettle` that
a task body returns, `RunEnds` and `ButtonBack` that a program ends, which the
guest's hard deadline of ten seconds enforces, and `ReceiveSettles` relies on
the frame's deadline alone. `HostCalls` has strong fairness on the guest
starting its next frame, since a frame that is cut off takes the chance away.
Crashes, refusals, edits and cancellations are never fair. In `MCBrowserAnswers`
a fairness condition is written once for steps of different components: in a
behaviour, which is of one component, it is that component's own.

**Where liveness is checked, and where it is not claimed.** `BlockReturns` and
`CloseCompletes` are checked without a deadline, under a limit of two: with two
children and two worker tasks, the block and the children wait for slots, a
child lends its own, and where both slots are held by worker tasks the block
waits for the oldest. Where a lender and the child it awaits can be left without
a slot, as under a limit of one, the order in which block and lender reach a free
slot decides (observation 18); with a deadline and no host, a draining child
spins (observation 4 of section 5). `BlockReturns` says nothing of the drain and
the close that end the block, which are `CloseCompletes`.

## 4. Proofs

TLAPS proves the following for every set of children, worker tasks, threads,
messages, lanes and files and every value of the other constants, under the
named assumptions of the modules (positive limits, natural budgets, Boolean
options, producers that are not consumers). A theorem that needs more says so
in its own `ASSUME`, and the table names it.

| Theorem | States | Hypothesis |
|---|---|---|
| `TaskScope_proofs!TypeCorrect` | `Spec => []TypeOK` | |
| `TaskScope_proofs!FailureIsOwned` | `Spec => []FailureOwned` | |
| `TaskScope_proofs!MembersListed` | `Spec => []Membership` | |
| `TaskScope_proofs!ChildrenOneWay` | `Spec => OneWay`, of steps | |
| `TaskScopeWaits_proofs!MembersAlwaysSound` | `Spec => []MembersSound` | |
| `TaskScopeWaits_proofs!SlotsAlwaysSound` | `Spec => []SlotsSound` | `~LenderCatches` |
| `TaskScopeWaits_proofs!ClosedLeavesNothing` | `Spec => []NothingLeft` | `~LenderCatches` |
| `TaskScopeWaits_proofs!FamilyAlwaysAsked` | `Spec => []FamilyAsked` | |
| `TaskScopeWaits_proofs!CancellationAlwaysReaches` | `Spec => []CancellationReaches` | `TRUE \notin Deliberate` |
| `TaskScopeWaits_proofs!HostNeverNeeded` | `Spec => []HostNotNeeded` | `Forks = {}`, `"ext" \notin BlockOps` |
| `BoundedQueue_proofs!TypeCorrect`, `QueueAlwaysSound`, `WakeupsReach` | `Spec => []TypeOK`, `[]QueueSound`, `[]NoLostWakeup` | |
| `BoundedQueue_proofs!Refinement` | `Spec => ImplementsChannel` | |
| `NativeWorkers_proofs!RepliesAlwaysAccounted` | `Spec => [](RepliesAccounted /\ TakenBackNeverRuns)` | `Named` |
| `NativeWorkers_proofs!WorkersAlwaysSound` | `Spec => []WorkersSound` | `Named`, `Abandons => Moving = {}` |
| `AssetLoad_proofs!AssetsVerified`, `LanesOneBuild`, `LanesScript` | `Spec => []Verified`, `[]OneBuild`, `[]ScriptOfBuild` | |
| `AssetLoad_proofs!OneBuildAlways` | `Spec => []OneBuildRuns` | |
| `RunQueue_proofs!CountersAlwaysExact` | `Spec => [](TypeOK /\ CountsExact /\ EntriesSound)` | |
| `RunQueue_proofs!Refinement` | `Spec => ImplementsFifo` | |
| `HostCalls_proofs!CallsAlwaysSound` | `Spec => []CallsSound` | `Large \cap Cramped = {}` |
| `PortChannel_proofs!LinkAlwaysSound` | `Spec => [](TypeOK /\ NoOverrun /\ OneOwner /\ WaitersSound)` | |
| `PortChannel_proofs!NothingEverStranded` | `Spec => []NothingStranded` | `~Loiters` |

`Named` only says that the names the model uses for tasks, pooled lanes and the
coroutine that closes are different, and that dedicated tasks are tasks. The
other hypotheses are where the code itself stops short, and TLC shows each to be
needed:

* `~LenderCatches`: a body that catches the cancellation raised in `lendSlot`
  goes on with its slot lent (observation 1 of section 5).
* `TRUE \notin Deliberate`: a request that meets a child draining a scope it
  cancelled itself is used up (observation 2).
* `Forks = {}` and `"ext" \notin BlockOps` leave out the two cases in which a
  host does sleep through work: the run `slot_wakeup`, and observation 20.
* `Abandons => Moving = {}`: an await that was abandoned leaves a moved result
  without an owner (observation 19).
* `Large \cap Cramped = {}`: an answer too large to be sent whole, whose
  announcement does not fit the first inbox either, is released twice
  (observation 7).
* `~Loiters`: an end that was moved and waits on the page for its lane loses
  what arrives (the run `port_boot_window`). `LinkAlwaysSound` does without:
  what is lost there breaks no limit and leaves no end with two owners.

**TaskScope.** `TypeOK` is inductive as it stands. Two of its parts carry the
argument: a callback in `owed` is typed by what it does, so that running the
head is well typed, and `BlockOK` says that a block at `slot` is starting a
child or a worker task. `FailureOwned` is inductive relative to it: every action
is an `Owning` step, which never clears `failed` or `cancelled` and gives the
status `failed` only where both are set.

The other invariants are about children, and `TaskScope` has more than fifty
actions. `TaskScope_proofs` therefore shows once that every step is one of a
few *kinds* as far as a child can tell (`Kinds`): it starts, moves between
places, is resumed, settles, or stays. The invariants are then preserved kind by
kind, and only the actions that write the variable in question are opened.

* `LifeInv` gives `Membership` and `OneWay`. It joins the status of a child, its
  place and who runs (`Lives`, `CpuLive`): only a running child has a place in
  its body, and what has control is running. It adds who is being started
  (`Starting`), what block and child may be waiting for (`Waiting`, `Driving`),
  that the live list has each live child once (`Listed`), and that whatever is
  queued, waits, or is owed a callback was started (`Known`). The last is what
  makes a settled child stay settled: a callback that arrives late for it finds
  its status.
* `WaitInv` gives `MembersSound`. A child that waits for another is registered
  with it, or its resume is owed, or it has been marked ready: exactly one of
  the three (`Waitings`), in lists without repetition (`Registered`); a worker task
  resumes the block only out of the wait for its reply (`BlockWaits`). The property alone is not inductive because
  settling moves a waiter from the first of these to the second.
* `SlotInv` gives `SlotsSound`: `lending` is finite and `lent` is its size, a
  lender is in `lendSlot` or unwinds out of it (`Lenders`), worker
  tasks counted are those under way, and `Occupied` is within the limit until
  the scope fails (`Room`). `Drained` adds what each stage of closing has
  already emptied, which is what `NothingLeft` needs at the last.
* `CancelInv` gives `FamilyAsked` and `CancellationReaches`. A cancellation
  walks the live list, so between its steps a child may be unasked: it has been
  asked or its request is in `owed` (`Asked`). A child asked and not yet told
  is queued, is to be, or is about to look (`Heard`); that it is about to look
  rests on bodies running only under their own control (`Placed`).
* `HostInv` gives `HostNotNeeded`: a wait is open only while the block stands at
  it (`Waited`), a parked scope has an empty queue and its waker registered
  (`Parks`), and a host that was not woken has the armed wait registered, the
  deadline's timer set, and nobody it could resume in this turn (`Sleeps`).

**BoundedQueue.** `IInv` adds to the type invariant that the bytes counted are
the sum of those held (`Measured`), that a push waits only with a message an
empty queue could hold (`CallsFit`), and who owns a message at each point of a push or a
pop (`QueueOwned`, `WaitOwned`). `NoLostWakeup` counts: while a consumer sleeps,
there are no more held messages than woken consumers that have not yet looked.
The sum is a recursive function, and what it becomes after an append or a removal
is shown by `Induction`, a lemma that takes the property as a set: the library's
induction theorems take an operator, which the provers cannot instantiate. The refinement has one
lemma per kind of step: an accepted push, a delivered pop, and everything else,
which leaves the channel as it is or closes it.

**NativeWorkers.** A task is known in five places: the scope's list, the table
of its lane, the lane's queues, the thread and the state both sides share. The
invariant `Inv` says how they agree between any two steps of parent and lanes.

* `LaneInv`: a task the lane owes is in one place only, the inbox, the thread, the outbox or
  the parent's push (`Apart`); the lane's table has all that is somewhere, and
  what it has is somewhere unless the lane ended early (`Booked`), which is what
  the counter counts (`Counted`). A lane that has stopped takes nothing more
  (`Thready`), and one that is joined owes no reply (`Joined`): a dedicated lane
  has one task, so once that is answered nothing can follow.
* `TaskInv`: the task's own state against the lane's table; one taken back, or
  not begun, has not run.
* `BusyInv`: what the parent may be in the middle of. Its calls are cut where a
  lane can come between two reads, and this is what a call still knows after it.
* `FiberInv`: a parked coroutine is registered and its reply is not there; a
  wait that raised did so because the lane has ended, and an ended lane stays so.
* `ListInv`: closing has in front of it whatever is still listed.

`MoveInv` is added for moved results. That a result has an owner is not
inductive, since an await marks its task observed long before the result comes;
the invariant says who will take or free it at each point: the coroutine that
awaits, or the close that reached it. Most steps of the parent are `Calm`: they
move coroutines and leave lanes, replies and states alone. The invariants are
carried over those together, and then over submission, routing, joining and each
step of a lane.

**AssetLoad.** The inductive invariant adds to the properties that a reader
fetches only while it loads and has nothing before it does (`FetchLoads`,
`EmptyBefore`), that lanes wait for the page (`LanesWait`), that a lane past its
manifest has the page's (`LanePinned`), who asked for what was fetched
(`FetchedBy`), and an order of builds. `LanesScript` is the one that needs the
order: nobody checks the script the browser fetched for a lane, but it was
fetched after the page's manifest and before the lane's (`ScriptBetween`,
`ScriptFirst`); the two manifests are equal, so an atomic deploy cannot have
come between.

**RunQueue.** `IInv` is `TypeOK`, that finitely many children are runnable,
and the two properties: `CountsExact`, by which `ready` is the number of
runnable children and `stale` that of the entries left behind, and
`EntriesSound`, by which no child is in the array twice and one that is there
and not runnable has settled. The refinement maps the array to its runnable
entries, in order: marking appends to that sequence, settling leaves it or takes
a child out of it, taking skips stale entries up to its first, and compaction,
whenever it comes, leaves it as it is. That rests on what `Only`, the filter,
does with an appended, a removed and a dropped entry, and on filtering twice
being filtering once.

**HostCalls.** `Inv` says of each call where its result is, by its status and
by whether its handler returned one (`CallInv`), and of each queued answer that
it is the only one of its call and, where it hands a result over, that nobody
else has that (`AnswerInv`). Neither part is inductive without the other: a late
handler, a cancellation and the close each look at the status and leave the
result to what the queue says. The step that carries the argument is the end of
a frame, which takes a prefix of the queue at once; its lemma says what becomes
of an answer in the prefix, of one behind it, and of a call with none.

**PortChannel.** `LinkInv` has `Control`, the flags and the owner of each end;
`Data`, what each direction of the port may carry; and `Within`: the credits
held, the values under way, the queue and the credits coming back are, in
messages and in bytes, at most the limits. `CreditsExact` is the equality, and
is not what holds in general: closing, perishing and losing a message on the
page all take credits away. The inequality survives each of them, and is all
that `NoOverrun` needs: a credit or a value that arrives between two honest ends
always fits. Every other step keeps the equality too, as it keeps `NothingLost`,
which gives `NothingEverStranded`. The sums run over messages of one kind on a
direction, so most lemmas are about what `OfKind` and `Sized` become when a
message is posted or heard.

**Recursive definitions.** `Only`, `OfKind`, `Sized` and the sums of
`BoundedQueue` are recursive functions over a sequence. The library's induction
theorems take an operator, which the provers cannot instantiate; each proofs
module states induction as a lemma over a *set* of numbers or of sequences, and
proves with it that the function exists and what it is on an appended, a headed
and a concatenated sequence.

Only model-checked: liveness and everything else about fairness, which is out of
the prover's reach, and with it `CallsReturn`, `LossReaches`, `TasksSettle` and
`AllAnswered`; the invariants of the other modules of the browser and of the
editors (section 6). `WorkersSound` of `MCNative` is the conjunction, over its
four instances, of what `NativeWorkers_proofs!WorkersAlwaysSound` proves for
each.

## 5. What the runs found

Three runs expect a violation; `PROJECT.json` quotes the line of source or
documentation each contradicts.

* `slot_wakeup`: a worker task that settles wakes the children that lent a slot
  but not the block parked for one; the block goes on only when a child moves.
  The missing `fireWakers` also leaves a hosted block asleep in its own wait
  when a worker task fails and no child is live.
* `joiner_stranded`: a poll asks twice whether a dedicated lane has ended, first
  for whom to wake and then for what to retire. A lane that ends between the two
  is retired with a coroutine still parked for its end, and is polled no more.
* `port_boot_window`: a moved end that waits on the page for its lane has a
  started port and no listener; what arrives is lost, and credits with it.

### Observations

The modules also define properties that a comment or a document suggests and
the code does not ensure. No configuration is kept for these; each is refuted
by TLC on the module's `Spec` with the constants of the run that instantiates
it, changed as said.

| | Module, property | Constants | What happens |
|---|---|---|---|
| 1 | `TaskScope`, `LenderParked` | `LenderCatches = TRUE`, `Catches = TRUE` | a child that catches the cancellation raised in `lendSlot` (`tasks.nupp` 1152) runs on with its slot lent |
| 2 | `TaskScope`, `RequestObserved` | `Deliberate = {TRUE}` | a request that arrives while a child drains a scope it cancelled itself (1670) is used up, and the next wait parks |
| 3 | `TaskScope`, `AwaitAnswered` | a worker task, `"await"` and `"cancelFork"` in `TaskOps` | a child's await (1043) that the scope's failure ends while the scope drains has no result to return |
| 4 | `TaskScope`, `CloseCompletes` | `HasDeadline = TRUE`, not hosted, `"drain"` in `TaskOps`, `FairSpec` | past the deadline (681) a draining child is resumed in every pass, and what its drain waits for is never polled |
| 5 | `PortChannel`, `DrainedFirst` | `Supervised = TRUE`, `Loiters = FALSE` | a report that the sender's owner is gone (`channel.mjs` 111) overtakes a value, and the value makes the receiver drop its queue |
| 6 | `WorkerPool`, `EndpointsAccounted` | `IdleFails = TRUE` | every failure of a lane says its channels are closed, also one before it took its task (`worker-lane.mjs` 24); the page then never revokes the endpoints |
| 7 | `HostCalls`, `ReleasedOnce` | `Cramped` with a large call | a large answer that did not fit (`host-channel.mjs` 521) is released twice at the end |
| 8 | `HostStreams`, `NewestKept` | `Keeps = {1}` | a burst of one kind pushes out the only message of another before its route's policy is applied (561) |
| 9 | `PageSession`, `EndRuns` | any | the page's `end` does not run for an application that never used `os.host` |
| 10 | `PageSession`, `NoneLost` | any | closing the page while a handler runs (`browser-entry.mjs` 149) loses what it returns |
| 11 | `EffectFrames`, `AnswerFits` | any | with no held response, settled ones are sent past the budget (`app-runtime.mjs` 840) |
| 12 | `EffectFrames`, `NoneRetained` | any | an operation that fails before it takes its lease (475) ends the run |
| 13 | `AudioStream`, `QueuedExact` | `Chunks = {0, 2}` | an empty chunk plays a frame nobody sent (`audio-worklet.mjs` 50) |
| 14 | `DocPlayground`, `HoverOwn` | `Clean = {0, 1}` | another editor's compile replaces the parse a hover is answered from (`doc-app.js` 115) |
| 15 | `DocPlayground`, `LuaFresh`, `LuaReused` | `Clean = {0, 1, 2}`, `MaxEdits = 2`, `MaxRuns = 2` | the Lua tab shows the Lua of an older program, or nothing, after a Run (636, 691) |
| 16 | `PlaygroundPage`, `EditInvalidates` | `Clean = {0, 1, 2}` | the end of a run puts the output of a replaced program over the diagnostics of the new one (`app.js` 668) |
| 17 | `LanguageClients`, `NewestKept` | `Patient = FALSE` | after a restart during a start, a failing start drops the entry of the client that replaced it (`extension.js` 985) |
| 18 | `TaskScope`, `LenderResumes` | `MCTaskScope`, `FairSpec`, 3 tasks, no worker tasks, `Limit = 1`, `BlockOps = {"spawn"}`, `TaskOps = {"spawn", "await"}`, `BlockSteps = 2`, `TaskSteps = 1`, not hosted | the block takes the slot that was freed for a lender (`tasks.nupp` 1096), and the child it starts awaits that lender |
| 19 | `NativeWorkers`, `MovedOwned` | `Handled = TRUE`, `Abandons = TRUE`, a moving task | an await marks its task observed before it waits (`workers.nupp` 1897); when the wait is cancelled, a moved result that arrives later is neither taken nor freed by closing |
| 20 | `TaskScope`, `HostNotNeeded` | those of `task_scope_hosted`, with `"ext"` in `BlockOps` | a hosted block that waits on something of its own, its turn spent and a child runnable, is not resumed by the next turn (`tasks.nupp` 907): that turn resumes only a wait that deferred to it |
| 21 | `LanguageClients`, `ClosedStops` | `Patient = TRUE`, `Steady = FALSE` | a change that removes one folder and adds another waits for the first one's server (`extension.js` 1178); the added folder is closed meanwhile, which finds no client, and its server is then started (1179) |
| 22 | `LanguageClients`, `WatchersFreed` | any | a stop that fails leaves its folder's watchers (1002), and so does a start that fails, since a client that did not start refuses its disposal too (986) |

Two more of `NativeWorkers` follow a lane that ends early. Closing raises for the
task that was not answered and leaves the tasks after it unsettled and the
dedicated lanes unretired, and a second close does nothing (`workers.nupp`
1961): `CloseLeavesNothing` is about a close that returns. And where that lane
was dedicated and its task had been taken back, the lane's counter never comes
to 0, so under a handler it is never retired (1351) and a wait for its end is
woken and parks again in every poll.

## 6. What is not modelled, and the plan

Left out of `TaskScope`: `race` and `gather`; what `close` raises and the order
of cleanup errors; channels a scope owns; two scopes on one frame; the blocking park's error when no source is
registered (the model waits instead).

Left out of `NativeWorkers`: how values, records and regions are copied between
Lua states; starting the pool, whose failure leaves nothing behind; the wait for
a slot (`settleOldest`), which `TaskScope` has; two scopes on one scheduler; and
of the threads their panics, which a `Worker` reports as a failed job.

Left out of the browser's modules: the binary layout of records, mailboxes and
payloads; header, digest and random conversions; descriptor checks and shader
code; byte limits where the number of effects is limited the same way; sizes,
flushes and listings of files; opening the audio context; the copies of a kernel
call (`aot.mjs`) and the checks of native libraries (`native.mjs`), which run to
their end in one step; the start reports of tasks and the relay of a lane's
request for persistent storage; what the playgrounds render; and of the
extension its views of generated code, test runs, coverage and migration, which
show what a process or the server answers. The application's half of these
protocols (`src/nupp/runtime/browser`) may send any request its protocol has.

Next, in this order:

1. `Endpoint`: the endpoints of `channels.rs` over two bounded queues, transfer
   and abort; composes `BoundedQueue`, implements `Channel` in each direction.
2. `NativeWorkers` under a fair host, once a retired lane wakes its joiners; two
   scopes on its scheduler; and an abstract worker task that both it and the
   lane steps of `TaskScope` implement.
3. `Suspension`: tickets, installations, closing in at most 64 passes, turns.
4. `Family`: `race` and `gather` over an abstract scope.
5. `HostChannel`: registration and late answers of a native host.
6. An abstract channel that both `PortChannel` with prompt moves and the native
   endpoints implement, and `ChannelHost` composed with `PortChannel`.

Theorems worth proving next: in the browser `EndpointsAccounted` and the
agreement of page and lane in `WorkerPool`, the frames of `EffectFrames`, and the
other invariants that `browser_services` and `editors` check; that `PortChannel`
with prompt moves implements `Channel`, once values carry their bytes there.
