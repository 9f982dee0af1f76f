# TLA+ models of the Go SDK on a WebAssembly Core

The repository is a Temporal worker in Go: Temporal Core, compiled to
WebAssembly and translated to Go, runs in the process and hands out workflow
activations and activity tasks; the Go side runs user code and gives Core the
completions. These modules model the Go side. Every definition is written from
the source files that `PROJECT.json` ("map") names; Core and the Go runtime
appear only through what the code relies on.

## 1. Inventory

| component | code (under `src/`) | state | operations |
|---|---|---|---|
| completion pipeline | `internal/completionpipe` | active, outstanding, totalWeight, queue, results channel | Enqueue, the ticket goroutine, Finalize |
| workflow run loop | `internal/workflowworker/runloop.go`, `worker.go` | running/draining, the poll channel, first error, active processors; run cache; lanes | one handler per branch of the select; poller; processors; reserve and release a turn; Shutdown |
| workflow execution | `internal/workflowworker/worker.go`, `context.go`, `signal.go`, `update.go`, `query.go` | coroutines, futures, outstanding operations, signal buffers, handlers, commands, terminal | activate, tryApply, drive, stop; the workflow API |
| activity worker | `internal/activityworker` | as the workflow loop, plus running activities by token, active executions | start, cancel, heartbeat, drain, complete |
| Core bridge | `internal/corebridge` | owner requests, wake channel, gRPC calls in flight, polls in progress, closing and done | owner calls, drive, pump, poison, shutdown |
| combined worker | `worker/worker.go` | references to one Core | Run of two loops, Shutdown |
| hosts | `internal/wasmhost` | connection, file descriptors | gRPC calls, system calls |
| converters, invoker, registration, options | `internal/converter`, `invoker`, `functionname`, `workerconfig` | none | pure functions and reflection |

How they interact. A run loop is one goroutine with a `select` over unbuffered
channels: a poller goroutine sends it activations or tasks, processor (or
activity) goroutines send it completions, and the pipeline's buffered channel
brings back the results of submissions. The loop passes completions to the
pipeline, whose goroutines call Core. The pipeline calls back: `AfterSubmit`
releases a run's turn from a pipeline goroutine, `Finalize` forgets an activity
from the loop. An activity function calls back into Core with heartbeats. Both
loops of a combined worker share a reference-counted Core, and Core itself is
reached only through the owner goroutine of the bridge.

What is hard. The `select` takes its ready branches in any order, so results,
polls and completions overtake one another. Three parties race to end an
activity. A turn is reserved by the loop, waited for by a processor and released
by the pipeline. Draining must wait for everything the worker accepted and for
nothing else. Counters kept in one goroutine bound work done in others. Refusals
(capacity, size, limits) happen halfway through multi-step handlers.
`PROJECT.json` ("hazards") lists each of these at its line.

What makes each component correct:

- pipeline: counters exact, no ticket stranded, order of acceptance, at most
  `limit` submissions, retained bytes within the cap, everything released;
- workflow loop: a run's activations handled and submitted one after the other,
  lanes neither split nor leaked, no execution left unstopped, a quiet and caused
  end, an end that comes;
- activity worker: one terminal completion, no heartbeat after it, exact
  bookkeeping by token, a drain that does not wait for user code;
- execution: no runnable coroutine left behind, jobs applied once, signals
  neither lost nor doubled, nothing of the workflow after its terminal command;
- combined worker: Core shut down once, with its last view, and every caller told
  how it went;
- bridge: every call answered whatever fails, no wake lost, an exact count of the
  RPCs in flight, Core left alone after a panic or once its buffers are gone.

## 2. Modules

| module | what it is |
|---|---|
| `CompletionPromise` | what the pipeline promises: tickets are turned away or accepted on what is really outstanding, take slots in order, are answered once, delivered once and released |
| `CompletionPipe` | the pipeline as coded; `KeepsPromise` is `CompletionPromise!Spec` under the mapping at its end |
| `CompletionPipeProofs` | the theorems about `CompletionPipe`, but for the weights |
| `CompletionPipeWeightProofs` | the theorem about the weights the pipeline retains |
| `WorkflowRunLoop` | poller, loop, processors, lanes, run cache, a concurrent Shutdown; contains the pipeline as `Pipe` |
| `WorkflowRunLoopProofs` | the theorems about `WorkflowRunLoop` |
| `ActivityRunLoop` | poller, loop, activity goroutines, heartbeats; contains the pipeline as `Pipe` |
| `ActivityRunLoopProofs` | the theorems about `ActivityRunLoop` |
| `WorkflowExecution` | one cached execution: activations, operations, futures, signals, updates, queries, coroutines |
| `WorkflowExecutionProofs` | the theorems about the coroutines, updates and commands of `WorkflowExecution` |
| `WorkflowFutureProofs` | the theorems about its futures, operations and signals, and its type |
| `CombinedWorker` | NewWorker, Run and Shutdown over one reference-counted Core |
| `CombinedWorkerProofs` | the theorems about `CombinedWorker` |
| `CoreBridge` | calls, the owner goroutine, the gRPC pump and its goroutines, poisoning, Shutdown |
| `CoreBridgeProofs` | the theorems about `CoreBridge` |
| `MC...` | the instances that TLC checks |

**CompletionPipe.** A ticket's place is `stage` (in its caller, queued, or at a
point of its goroutine `run`) and `report` (its Result: none, in the channel,
received, finalized). Everything done under `pipeline.mu` is one action, a call
out of the package (`Submit`, `AfterSubmit`) or a channel send is one action
each. `Enqueue` has the code's outcomes: no `Submit` function, bad size or no
room, accepted with a goroutine, accepted into the queue. The options of `New`
are constants, normalised as the code does.

**WorkflowRunLoop.** One action per branch of the loop's `select`, each the
whole handler including the enqueueing of a completion and its refusal. The
poller is a goroutine that is polling, offering an activation, or offering an
error. A processor waits for its turn, decides (`BeginHandling`), finishes
(`FinishHandling`) and offers its result. Lanes are named by the activation that
created them because `runTurn` keeps a pointer that outlives the map entry.
What user code does is left open: it may succeed, fail or panic. An execution is
named by the activation that made it; `live` are the executions whose coroutines
have not been stopped. `CallShutdown` is the part of `Worker.Shutdown` under
`runsMu` (it takes the executions and empties `runs` and `runLocks`), and
`StopExecution` the stopping of one of them after the mutex is released, so that
the loop, a processor or the pipeline can come between any two of these steps.
`displacedBy` is a history variable and no part of the code's state: `deleteRun`
deletes whatever the run has, and it records which activation thereby removed an
execution other than the one it was driving (only `StopAndDelete` writes it). A
processor that finds its execution stopped may succeed, fail or panic, as the code
gives no guarantee there. The rest of `Shutdown`, Core's, shows in polls and
submissions that fail, which they may at any time. The activity worker's
`Shutdown` is nothing but that.

**ActivityRunLoop.** As above; each activity has three possible completions
(result, cancellation, shutdown), a goroutine, and a mutex that a heartbeat call
holds. `toCancel` is what the loop in `cancelRunningActivities` still has to
visit; the worker's own loop takes no other branch until it is empty.

**WorkflowExecution.** What `handleActivationLocked` calls with the run's lane
held, so one activation at a time. `phase` is the position of `activate`;
`drive` is the position of `drive` in its two nested loops (why it was called,
which priority, the next coroutine, the length of the slice when the loop
began). `Resume` hands control to a coroutine, which then makes any calls of the
workflow API, one action each, until it blocks, returns or panics: workflow code
is open. `round` is one turn of the loop that retries jobs whose operation does
not exist yet. `Setting` lists the futures one `set` reaches, depth first, and
`ReadyAfter` what is set when it panics on the way; a panic in `tryApply` leaves
the execution cached as it is (`phase = "panicked"`) until Core evicts it. A
job may come for any operation at any time, of any kind, but never twice.

**CombinedWorker.** Threads are the goroutine that calls `NewWorker`, the two
loops and the callers of `Shutdown`. Each works through `todo`, the views it has
to shut down: it asks (`AskView`: runs the view's Once, or waits for it), releases
(`Release`: takes the view off `refs` under the mutex) and, with the last view,
is in Core's `Shutdown` until that returns (`CoreStops`), keeping the mutex. The
loops are the modules above seen from outside: running, then ended. The workflow
worker has a Once of its own around its view's; only it calls that view, so one
Once stands for both, except in `NewWorker`'s error path, where only the inner one
exists.

**CoreBridge.** A call is a goroutine: the loop of one kind of poll, a
completion, a heartbeat, the caller of `newBridge` and the `Shutdown` inside the
Once. `pc` is its place in the loop of `drive` (also that of the polls and
completions): looking (reading the wake channel and the errors), handing a request
to the owner, being served, waiting. `watching` is the set of calls whose wake
channel is still open; `SignalWake` empties it. A start, a release or a refusal is
one step of the owner; a step of an operation is several, because RPCs come back
in between: take, receive responses, send requests, take again while there was
progress. A panic may happen at any of them. An RPC is queued in Core, flying (or
back and waiting for room in `grpcResponses`), then in the channel with its wake
still to be signalled. Core itself is only this: an operation of a call becomes
ready or asks for another RPC when it starts and when an RPC of it is answered; a
poll may also become ready by itself and leave its long poll out for the next one;
Core's shutdown is ready when nothing it sent is unanswered. Completions and
heartbeats are open to any number of callers; the polls have one caller each, as in
the run loops. The first error of `Shutdown` only matters as the cause it gives
`doneCtx` (`failed`).

`CoreHeld` and `CoreSlots` in both loops stand for Core's slots: Core frees a
task's slot when its completion has been taken, and hands out no task beyond
its slots. A value above the worker's limit models a Core that breaks its
contract, so that the over-limit branches are reached.

## 3. Runs

| run | question | bounds |
|---|---|---|
| `pipe` | counters, order, channels, weights, the promise, and everything accepted is finalized | 6 tickets of weights 1, 0, 1, 1 and 3 and one without Submit; limit 2, 3 items, weight 4, so that item and weight capacity, the queue and the full results channel are all reached |
| `workflow` | lanes, executions, finish, causes; a draining or cancelled worker finishes | 3 activations of a run's life (or of none), limit 2, Core one above it, one completion above 64 MiB, a Shutdown at any moment |
| `workflow_shutdown` | does a processor drive an execution alone? (violated) | 1 activation |
| `workflow_attempt` | is every accepted activation's completion attempted? (violated) | 5 initial activations, limit 2, Core within its limit, no cancellation or Shutdown |
| `activity_safety` | one completion, heartbeats, bookkeeping, finish | 3 tasks, 3 tokens with reuse, limit 2, Core one above it; a refused shutdown completion |
| `activity_live` | draining finishes, goroutines leave | 2 tasks, limit 2 |
| `execution_operations` | operations and futures agree; an activation ends | 2 activations, 2 operations (plain or child), 1 future made by the workflow, 2 jobs in either activation or both, no queries |
| `execution_messages` | nothing left to run, signals, updates first, terminal command last | 3 activations, 2 signals, 2 updates, 2 waits, 1 spawned coroutine, 1 future |
| `execution_accepted` | does an accepted update's handler run? (violated) | 1 activation, 1 update |
| `combined_worker` | one shutdown of Core, with its last view, and its error everywhere; `Run` and `Shutdown` return | both loops, 2 callers of `Shutdown`, `NewWorker` with its failures |
| `bridge_safety` | no wake missed, RPCs counted, polls known to Core, Core left alone at the end | a poll, a completion, a heartbeat, `newBridge`, `Shutdown`; 2 RPCs of which 1 may be in flight, 1 response in the channel; a panic, an undecodable request, a response that cannot be copied, an error of Core and the end of the polls' context anywhere |
| `bridge_live` | a completion returns; closing ends every call and goroutine | as above without heartbeat, 2 RPCs in flight, 1 response in the channel, a panic anywhere |

In `workflow`, the first activation starts the run or is of none, the second
evicts, updates or cannot be decoded, and the third starts the run again: enough
for a lane to be dropped, by its last turn or by a Shutdown, and made anew.
The bounds (`MaxActivations`, `MaxPolled`, the set of tickets) are small because
the interesting relations are between two activations of one run, two enders of
one activity, or a ticket and the one that frees its slot; a third actor then
provides the refusal or the drain. Five activations are the fewest for
`workflow_attempt`: two results in the channel, two goroutines behind it, and one
more completion. The bridge needs two RPCs: one that takes the other's place in flight
or in the channel. `CHECK_DEADLOCK FALSE` everywhere: a worker stops.

**Fairness.** The Go scheduler runs every runnable goroutine (WF of each
goroutine's steps). A `select` chooses at random among its ready branches, so a
branch that stays ready is taken (WF); a branch that can be withdrawn and offered
again because it also needs the activity's mutex, which Go's mutex hands over in
turn, is given SF. Core answers a submitted completion and a heartbeat, and a poll
whose context is cancelled returns. Core owes no task, the caller owes no
cancellation and no `Shutdown`, a workflow or activity function owes nothing in the activity loop;
in the workflow loop a processor whose user code runs returns, as the code
itself requires (there is no timeout). In the workflow loop each forced step can be
taken only so many times, so that weak fairness of their disjunction (`Forced`) is
weak fairness of each, and far cheaper to check. In the execution one goroutine runs
`activate` and the coroutines by turns: WF of their union; that a coroutine
reaches a blocking call is the code's own requirement, and the bounds on its
calls stand for it. In the combined worker every goroutine inside a `Shutdown`
runs on and Core's `Shutdown` returns; a loop ends once its context is cancelled
or Core answers its polls no more (what the loop modules' liveness shows), and may
otherwise run for ever. In the bridge each goroutine runs; the owner's channel
queues its senders, so a request that is sent is taken in the end even if polls
come again and again (SF of each call's steps); an RPC comes back when it has a
deadline or is cancelled, and only a long poll may stay out. Two things are left
out of `bridge_live` on purpose. A request that cannot be decoded, or a response
that cannot be copied into Core, is never answered in Core, so the operation that
waits for it, and Core's shutdown with it, may never be ready: the code returns the
error to whoever drove the pump and relies on the worker stopping. And a completion
returns only because a place in flight is left beside the long polls: the limit is
64, and with as many long polls out as there are places it would wait for one of
them. Each poller has at most one long poll out, and a poller that has received an error
does not call again, as in the run loops, which end their poller on an error of a poll:
the restart of a poll that was given up is not exercised.

### Disagreements found

`workflow_attempt`: `design/ARCHITECTURE.md:259-262` and the comment at
`internal/workflowworker/worker.go:782-783` say that an accepted activation gets
exactly one completion attempt. Core frees a task's slot when `CompleteWorkflow`
returns, but `outstanding` falls only when the loop takes the result from the
completion channel. A loop whose `select` keeps choosing polls and processor
results reaches `2*limit` outstanding completions with nothing in Core's hands;
the next `Enqueue` returns `ErrAtCapacity`, the activation is never completed and
the worker drains. The activity loop has the same structure.

`workflow_shutdown`: `design/ARCHITECTURE.md:176-179` says that the dispatcher runs
one coroutine at a time and that workflow code does not race on ordinary
goroutines. `Worker.Shutdown` may be called while `Run` is going, and its
`stopAllRuns` resumes the suspended coroutines of every cached execution from the
caller's goroutine, without waiting for the lane of the run, while a processor may
be inside `activate` of the same execution. What the two then do to it is undefined
in the code; the model leaves the outcome open.

`execution_accepted`: `design/ARCHITECTURE.md:192-195` says that each accepted
update's handler runs in its own coroutine. `activate` starts updates after the
bootstrapping `drive`; if the workflow registered its handler and returned
there, the update is accepted and its coroutine is added, but every later `drive`
returns at once because the execution is terminal.

## 4. Proofs

`CompletionPipeProofs` proves, for all tickets, weights and options:
`TypeCorrect`, `CountersCorrect`, `NoneStranded`, `ChannelsCorrect` and
`Refinement` (`Spec => KeepsPromise`). The assumptions are those of the module:
weights and options are integers, `NoOption` is not one.

The inductive invariant `IInv` is the conjunction of the four invariants and of
`IsFiniteSet(Accepted)`: only finitely many tickets have been accepted, without
which the cardinalities in `CountersMatch` mean nothing when `Tickets` is
infinite. None of the four is inductive alone: `active <= Limit` (type) needs
`SlotFree` and that a leaving goroutine is counted; the counters need the channel
facts to know that a received ticket is still live; that a popped ticket is
queued needs `ChannelsConsistent`. There is one lemma per action, and for each
the effect on `Accepted`, `Running` and `Live`, which the refinement then reuses.
`Refinement` needs, beyond the invariant, that the guard `AtCapacity`, on
counters, is the promise's guard, on sets (`FitsExactly`).

`CompletionPipeWeightProofs` proves `WeightCorrect`: `totalWeight` is the sum of the
normalised weights of the tickets that are live, and at most the cap. That sum is a
fold whose order `CHOOSE` picks, defined by recursion over subsets, so three facts
come first: that the recursion defines something (`FoldExists`), that what it defines
is determined (`FoldsAgree`), and that the sum does not depend on which element is
taken first (`TotalOfAny`). From the last, accepting a ticket adds its weight and
finalizing it takes away the same weight. The cap survives `Finalize` because no
accepted ticket has a negative weight. Integers here are not bounded: that the code's
`int` does not overflow is not claimed by itself, but follows for the counter from
`WeightCorrect`, as `totalWeight` is between 0 and the cap. All three are inductions on the size of a
finite set, for one fixed predicate each, which no library theorem can be
instantiated for; they are written as the absence of a smallest counterexample
(`SmallestSubset`).

`CombinedWorkerProofs` proves, for any set of callers of `Shutdown`,
`TypeCorrect`, `RefsCorrect`, `ShutOnceWithLastView`, `ErrorReachesEveryone` and
`FailedNewLeavesNothing`, assuming only that the goroutines are distinct
(`ThreadAssumption`). The argument: a busy Once has exactly one thread inside
(`OnceMatches`), so a view is given up once and `refs` counts what is left; Core
stops in the release of the last view, and only one thread is there
(`StoppingMatches`); the error it brings is kept by the Once of that view, the
other view's being clear (`ErrorsMatch`); and whoever has been through both Onces
has therefore heard it (`HeardMatches`, `RunMatches`). `TodoShape` and
`MakingMatches` say which views a thread may still have to visit, which is what
makes `Head(todo[t])` a view that exists.

`ActivityRunLoopProofs` proves, for any tasks, tokens, offers, weights and limit,
`TypeCorrect`, `OneTerminal`, `NoLateHeartbeat`, `Accounted` and `QuietAtTheEnd`. The
loop contains a pipeline whose tickets are the pairs of a task and one of its three
enders, so the proof takes the pipeline's lemmas through an instance of
`CompletionPipeProofs` (`PP`), and its invariant contains the pipeline's (`PipeOK`).
What has to be added: a task is in `terminal` exactly when a completion of it was
handed to the pipeline (`CompletionsMatch`), which makes the second ender see the
first; the map by token never names another token's task (`RunningMatches`), without
which a reused token could forget the wrong activity; and while the drain goes on,
`toCancel` covers everything that has started and not ended (`DrainMatches`), since no
branch of the select runs in between.

Both loops' modules end with `PipelineSound`: the pipeline inside the loop keeps
`CountersMatch`, `WorkConserving`, `ChannelsConsistent` and `WeightMatches`, and never
retains more than the 64 MiB that `New` sets without options. The loop does not call
the pipeline as the pipeline's own `Next` does: it takes a result and finalizes it in
one step, and offers only its own completions. `LoopMovesPipe` therefore goes through
every branch and shows that each leaves the pipeline alone, is one step of it, or is a
receive followed by a finalize, for which `WeightConsumed` is the lemma.

`WorkflowRunLoopProofs` proves, for any activations, runs, offers, weights and limit
and with a Shutdown at any moment, `TypeCorrect`, `LaneHeld`, `LanesAreAccounted`,
`NoneLost` and `QuietAtTheEnd`, again with the pipeline as `PP`. That the turns of a
lane follow one another is not inductive: a processor only waits for the turn before
it. `LaneChain` says that these waits form a chain through all turns of the lane, in
order, that ends at `tail`; `LaneOrder` that only one turn is past its wait; and
`LaneShape` that a lane is known by the activation that made it. `LaneShared`, that
whoever comes while a turn of the run is held joins its lane, holds until Shutdown
empties `runLocks`; from then on the theorems speak of lanes instead of runs. In the
same way `CacheMatches` says that the execution a processor drives is the one its run
has, unless what the run has belongs to another lane, which takes a Shutdown.
`ExecutionsNamed` says that executions are made by activations that had a turn, of
the same run. `NoneLost` follows: an execution that is still running and can no longer
be found was removed by the `deleteRun` of an activation of another lane, recorded in
`displacedBy`, after a Shutdown. One such loss excuses nothing else: every other
execution, of the same run too, must still be in the cache or in Shutdown's hands.

That exception needs two activations of one run at work at once, which a Core that
waits does not bring about. `NoneLostIfCoreWaits` says so: if an activation of a run
is returned by a poll only when the completions of the run's earlier ones were
submitted to Core (`CoreWaits`, an assumption on steps), every execution that has
not been stopped is in the cache or in Shutdown's hands, Shutdown or not. Its
invariant adds `OneAtATime`: a run has at most one activation at work, so
nothing has been displaced. No run repeats it: `CoreWaits` is no part of `Spec`, since the code does not enforce
it.

`CoreBridgeProofs` proves, for any polls, completions, heartbeats and RPCs, any
capacities and any faults, `TypeCorrect`, `InFlightCounted`, `NoneMissed`,
`PollsAgree` and `CoreLeftAlone`. The argument: the owner serves exactly the call that
waits for it (`OwnerMatches`); a call whose channel is still open when it waits saw
every response that had been signalled, because a signal takes everybody out of
`watching` (`WatchMatches`); an RPC that is in the channel has come back
and its goroutine has left or has only the signal to give (`RPCsMatch`); and whoever
gives the buffers back is the last user of the bridge (`LifeMatches`, `EndMatches`,
`Over`), because `Shutdown` closes it first and nobody else has it before `newBridge`
succeeds. The last gives `CoreLeftAlone` as an action property: with `released` or a
poisoned bridge the owner serves no one.

`WorkflowExecutionProofs` proves, for any number of activations, operations, futures,
coroutines, signals and updates, `NoneLeftToRun`, `UpdatesGoFirst`,
`TerminalComesLast` and `AcceptedStaysPending`. `PassMatches` is the loop invariant of
`drive`: a pass that has resumed nothing so far has left behind only coroutines that
cannot run, and no coroutine has been added, so that the last pass proves what
`NothingLeftToRun` says; `HandlersFirst` is that of the loop over the updates'
coroutines. `CurrentMatches` says that workflow code runs only inside `drive` and in a
pass that has made progress, hence never while `NothingLeftToRun` must hold, and not
after the workflow's end, from which the order of the commands follows
(`CommandsMatch`). `CoroutinesMatch` counts where coroutines come from, so that a new one
has a place. `LeastVisited` (that drive's next coroutine exists) takes the least element
of a set of numbers from the library's theorem on well-founded relations.

`WorkflowFutureProofs` proves, for any number of operations, futures and signals, the
rest about the execution: `TypeCorrect`, `OperationsCorrect` and `SignalsOnce`, from
`IInv` of `WorkflowExecutionProofs` together with `FInv`.

Setting a future sets what is chained to it, depth first (`context.go:409-420`), so all
of them need to know what `Setting` returns. It is a function by recursion on the depth
of the chain; `Recursion` proves that such a function exists for whatever step it is
given, `FlattenType` that joining the chains' orders keeps their type, and
`SetOrderType` what comes out: first the future itself, and after it only futures that
the workflow made. The reason is `ChainedToManual`, that only those are ever chained,
and the consequence is that no chain, however long, sets the future of an operation or
of a receiver: those are set by their job or their signal alone.

`OperationsTracked` alone is not inductive: it says nothing of operations that have not
begun, and starting one must not find its result already set; `OperationsMatch` adds
that. The property excepts an execution that panicked, where a job may have taken the
operation away and not have set its result; `FailureLasts` is that nothing leads back
from there. `SignalsMatch` states the order of the signals by index, which needs no
reasoning about concatenation, and adds that no two places of `waiters` are one
receiver's, without which a delivery could leave its receiver waiting.
`ReceiversMatch` is the last conjunct of the property for every receiver there may
ever be: one that has not begun to wait has no ready future.

The assumptions of all these are those named in the modules: weights, bounds and
limits are numbers, and the constants that stand for nil, for goroutines and for
callers are different from each other and from everything they are compared with.

Every state invariant that a passing run checks, the action property of the bridge
and the refinement of the pipeline are thus theorems. Only model-checked is liveness:
`AcceptedIsReleased`, `DrainFinishes`, `GoroutinesLeave`, `ActivationEnds`,
`CallsReturn`, `ClosingEndsAll` and `CompletionEnds` hold under fairness, which is
beyond this prover, as is `ENABLED`. What the three violated runs show are
counterexamples, which TLC finds.

## 5. Not modelled

Conversion of payloads and arguments, reflection, option validation, the
transport, and generated code carry no state of interest and appear as outcomes
(a codec failure, a failed start). A decode error of a polled activation is an
error of the poll, as in the code. In the bridge, the
encoding of messages, the growth of the scratch buffers (a take that finds its
buffer too small is tried again within the same request of the owner) and the counter
of completion IDs are left out. In the execution, several signal
names or update names (they share nothing) and what coroutines do when `stop`
resumes them (their commands are never read) are left out; calls that fail their
argument checks return a ready future or an error and change nothing. In the combined
worker, the variant without a shared Core, which only tests arrange, is the two loop
modules side by side.

Two hazards have no property for that reason: the growth of the bridge's output
buffer and the multiplication in the host's `grpc-timeout` are single expressions
without state, best left to table tests (`bridge_test.go` has one for the first). Two
others are modelled but nothing is claimed of them, because it is Core that keeps
them harmless: a codec failure answered outside its run's lane (Core has one
activation of a run out at a time), and a half-applied activation after a panic
(Core evicts the run).

Of the repository's Go lines most are generated: the translated WebAssembly module
alone (`internal/corewasm/generated.go`) has 236 377 and the protobuf packages some
9 000. The hand-written Go without tests has 7 136 lines, of which the definitions of
these modules stand for about 2 500; what they do not stand for is the stateless code
listed above.

## 6. Plan

The modules of the plan are written. What could follow:

1. A composition of `WorkflowExecution` with `WorkflowRunLoop`, so that a Shutdown that
   stops coroutines under a processor is followed into `drive`; it needs the outcome
   of two goroutines in one `iter.Pull` to be defined first.
2. An abstract specification of the bridge (every call is answered once, by Core or by
   the bridge's end) with a refinement, as the pipeline has.
