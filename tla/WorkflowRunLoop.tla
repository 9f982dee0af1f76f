-------------------------- MODULE WorkflowRunLoop --------------------------
(***************************************************************************)
(* internal/workflowworker/runloop.go and the part of worker.go it drives: *)
(* the poller goroutine, the run loop's select, one processor goroutine    *)
(* per dispatched activation, the per-run lanes that order processors, the *)
(* cache of runs, the completion pipeline (CompletionPipe), and a call of  *)
(* Worker.Shutdown, which may come from any goroutine at any time.         *)
(*                                                                         *)
(* Activations are numbered in the order Core returns them. A turn is      *)
(* named by its activation and a lane by the activation that created it,   *)
(* so a lane outlives its entry in runLocks exactly as the pointer in a    *)
(* turn does; an execution is named by the activation that initialized it. *)
(* What a workflow does inside an activation is left open: it succeeds,    *)
(* fails or panics.                                                        *)
(***************************************************************************)
EXTENDS Integers, Sequences, FiniteSets

CONSTANTS
  MaxActivations,  \* bound: activations Core returns in one behaviour
  Runs,            \* run IDs
  Offers,          \* Offers[a]: the <<run, kind>> pairs Core may return as a
  Weight,          \* Weight[a]: encoded size of a's completion
  MaxTasks,        \* workflowCompletionLimit()
  CoreSlots,       \* tasks Core hands out at once; MaxTasks if it keeps its limit
  None             \* nil, and the empty run ID

Activations == 1 .. MaxActivations

\* "initialize" and "initializeUnknown": the first job initializes a registered
\* or an unregistered workflow type. "evict": the only job is RemoveFromCache.
\* "update": any other jobs. "undecodable": the payload codec failed.
Kinds == {"initialize", "initializeUnknown", "evict", "update", "undecodable"}

ASSUME WorkflowAssumption ==
  /\ MaxActivations \in Nat
  /\ MaxTasks \in Nat \ {0}
  /\ CoreSlots \in Nat
  /\ None \notin Runs
  /\ None \notin Activations \cup Int
  /\ Weight \in [Activations -> Nat]
  /\ Offers \in [Activations -> SUBSET ((Runs \cup {None}) \X Kinds)]

VARIABLES
  \* completionpipe.Pipeline
  stage, outcome, report, queue, results, active, outstanding, totalWeight,
  \* Core and the poller goroutine
  delivered,         \* activations returned by Core so far
  run, kind,         \* what each of them is
  poller,            \* see PollerStates
  ctxCancelled,      \* the context given to Run is done
  \* the run loop
  state,             \* loop.state, and "finished" once run returns
  pollOpen,          \* loop.pollEventsCh is not nil
  failed,            \* loop.firstErr is not nil
  activeProcessors,  \* loop.activeProcessors
  \* processor goroutines, the run cache and the lanes
  proc,              \* see ProcessorStates
  cached,            \* worker.runs: the execution of each run
  execution,         \* the execution a processor is stopping or activating
  live,              \* the executions made and not stopped
  displacedBy,       \* history: the activation whose deleteRun removed an
                     \* execution from worker.runs that it was not driving
  runLocks,          \* worker.runLocks
  laneOf, ready,     \* runTurn.lane and runTurn.ready, by activation
  tail, refs,        \* runLane.tail and runLane.refs, by lane
  done,              \* the turns whose done channel is closed
  \* a call of Worker.Shutdown
  shutdown,          \* whether it has emptied the maps
  toStop             \* the executions it took from worker.runs and has to stop

pipeVars == <<stage, outcome, report, queue, results, active, outstanding, totalWeight>>
feedVars == <<delivered, run, kind, poller>>
loopVars == <<state, pollOpen, failed, activeProcessors>>
cacheVars == <<cached, execution, live, displacedBy, shutdown, toStop>>
turnVars == <<runLocks, laneOf, ready, tail, refs, done>>

vars == <<pipeVars, feedVars, ctxCancelled, loopVars, proc, cacheVars, turnVars>>

\* newWorkflowRunLoop passes no options.
Pipe == INSTANCE CompletionPipe WITH
  Tickets <- Activations, NilSubmit <- {}, LimitArg <- MaxTasks,
  ItemsOption <- None, WeightOption <- None, NoOption <- None

PollerStates == {"polling", "offering", "failing", "cancelling", "closed"}

ProcessorStates ==
  {"none", "waiting", "evicting", "activating", "answering", "sending", "gone"}

TypeOK ==
  /\ Pipe!TypeOK
  /\ delivered \in 0 .. MaxActivations
  /\ run \in [Activations -> Runs \cup {None}]
  /\ kind \in [Activations -> Kinds \cup {None}]
  /\ poller \in PollerStates
  /\ ctxCancelled \in BOOLEAN
  /\ state \in {"running", "draining", "finished"}
  /\ pollOpen \in BOOLEAN
  /\ failed \in BOOLEAN
  /\ activeProcessors \in 0 .. MaxTasks
  /\ proc \in [Activations -> ProcessorStates]
  /\ cached \in [Runs -> Activations \cup {None}]
  /\ execution \in [Activations -> Activations \cup {None}]
  /\ live \subseteq Activations
  /\ displacedBy \in [Activations -> Activations \cup {None}]
  /\ runLocks \in [Runs -> Activations \cup {None}]
  /\ laneOf \in [Activations -> Activations \cup {None}]
  /\ ready \in [Activations -> Activations \cup {None}]
  /\ tail \in [Activations -> Activations \cup {None}]
  /\ refs \in [Activations -> Nat]
  /\ done \subseteq Activations
  /\ shutdown \in BOOLEAN
  /\ toStop \subseteq Activations

Init ==
  /\ Pipe!Init
  /\ delivered = 0
  /\ run = [a \in Activations |-> None]
  /\ kind = [a \in Activations |-> None]
  /\ poller = "polling"
  /\ ctxCancelled = FALSE
  /\ state = "running"
  /\ pollOpen = TRUE
  /\ failed = FALSE
  /\ activeProcessors = 0
  /\ proc = [a \in Activations |-> "none"]
  /\ cached = [r \in Runs |-> None]
  /\ execution = [a \in Activations |-> None]
  /\ live = {}
  /\ displacedBy = [a \in Activations |-> None]
  /\ runLocks = [r \in Runs |-> None]
  /\ laneOf = [a \in Activations |-> None]
  /\ ready = [a \in Activations |-> None]
  /\ tail = [a \in Activations |-> None]
  /\ refs = [a \in Activations |-> 0]
  /\ done = {}
  /\ shutdown = FALSE
  /\ toStop = {}

\* stopPolling is called exactly when the loop leaves "running".
PollCancelled == ctxCancelled \/ state # "running"
-----------------------------------------------------------------------------
(***************************************************************************)
(* Core: a task keeps its slot until its completion is taken.              *)
(***************************************************************************)
CoreHeld == {a \in 1 .. delivered : outcome[a] # "ok"}

(***************************************************************************)
(* pollWorkflows.                                                          *)
(***************************************************************************)
PollReturnsActivation ==
  /\ poller = "polling"
  /\ delivered < MaxActivations
  /\ Cardinality(CoreHeld) < CoreSlots
  /\ delivered' = delivered + 1
  /\ \E offer \in Offers[delivered'] :
       /\ run' = [run EXCEPT ![delivered'] = offer[1]]
       /\ kind' = [kind EXCEPT ![delivered'] = offer[2]]
  /\ poller' = "offering"
  /\ UNCHANGED <<pipeVars, ctxCancelled, loopVars, proc, cacheVars, turnVars>>

\* An error of the poll itself, or of decoding what it returned, may come at
\* any time; the poll context's own error only once it is cancelled.
PollReturnsError ==
  /\ poller = "polling"
  /\ \/ poller' = "failing"
     \/ PollCancelled /\ poller' = "cancelling"
  /\ UNCHANGED <<pipeVars, delivered, run, kind, ctxCancelled, loopVars, proc, cacheVars,
                 turnVars>>

\* An error event is dropped when the poll context is done; an activation is
\* offered until the loop takes it.
PollerGivesUp ==
  /\ poller \in {"failing", "cancelling"}
  /\ PollCancelled
  /\ poller' = "closed"
  /\ UNCHANGED <<pipeVars, delivered, run, kind, ctxCancelled, loopVars, proc, cacheVars,
                 turnVars>>

CancelContext ==
  /\ ~ctxCancelled
  /\ state # "finished"
  /\ ctxCancelled' = TRUE
  /\ UNCHANGED <<pipeVars, feedVars, loopVars, proc, cacheVars, turnVars>>
-----------------------------------------------------------------------------
(***************************************************************************)
(* Lanes: reserveRunTurn and releaseRunTurn. The lane of a released turn   *)
(* is dropped with its last reference, unless its run is cached.           *)
(***************************************************************************)
ReserveRunTurn(a) ==
  LET r    == run[a]
      lane == IF runLocks[r] = None THEN a ELSE runLocks[r]
  IN  /\ runLocks' = [runLocks EXCEPT ![r] = lane]
      /\ laneOf' = [laneOf EXCEPT ![a] = lane]
      /\ ready' = [ready EXCEPT ![a] = tail[lane]]
      /\ tail' = [tail EXCEPT ![lane] = a]
      /\ refs' = [refs EXCEPT ![lane] = @ + 1]
      /\ done' = done

\* mistake: does not count the other turns of the lane
LastReferenceUncounted(a) ==
  /\ cached[run[a]] = None
  /\ runLocks[run[a]] = laneOf[a]

LastReference(a) ==
  /\ refs[laneOf[a]] = 1
  /\ cached[run[a]] = None
  /\ runLocks[run[a]] = laneOf[a]

LeakRunTurn(a) == UNCHANGED turnVars  \* mistake: the turn is not released

\* A nil turn (laneOf[a] = None) is not released. Closing done before taking
\* the lock makes no difference: whoever waits on the turn holds a reference.
ReleaseRunTurn(a) ==
  IF laneOf[a] = None
    THEN UNCHANGED turnVars
    ELSE /\ done' = done \cup {a}
         /\ refs' = [refs EXCEPT ![laneOf[a]] = @ - 1]
         /\ runLocks' = IF LastReference(a) THEN [runLocks EXCEPT ![run[a]] = None]
                                            ELSE runLocks
         /\ UNCHANGED <<laneOf, ready, tail>>
-----------------------------------------------------------------------------
(***************************************************************************)
(* processActivation and handleActivationLocked.                           *)
(***************************************************************************)
\* mistake: the turn passes on when the activation is handled, not submitted
TurnReadyEarly(a) == ready[a] # None => proc[ready[a]] \in {"sending", "gone"}

TurnReady(a) == ready[a] # None => ready[a] \in done

\* The decisions up to execution.activate or execution.stop. An initializer
\* caches its execution before it runs.
BeginHandling(a) ==
  LET found == cached[run[a]]
      Drive(next, e) == /\ proc' = [proc EXCEPT ![a] = next]
                        /\ execution' = [execution EXCEPT ![a] = e]
  IN
  /\ proc[a] = "waiting"
  /\ TurnReady(a)
  /\ \/ /\ kind[a] = "evict" /\ found # None
        /\ Drive("evicting", found)
        /\ UNCHANGED <<cached, live>>
     \/ /\ kind[a] = "initialize" /\ found = None
        /\ Drive("activating", a)
        /\ cached' = [cached EXCEPT ![run[a]] = a]
        /\ live' = live \cup {a}
     \/ /\ kind[a] = "update" /\ found # None
        /\ Drive("activating", found)
        /\ UNCHANGED <<cached, live>>
     \/ \* initialized twice, unregistered, or nothing to evict or to activate
        /\ \/ kind[a] = "initialize" /\ found # None
           \/ kind[a] = "initializeUnknown"
           \/ kind[a] \in {"evict", "update"} /\ found = None
        /\ Drive("answering", None)
        /\ UNCHANGED <<cached, live>>
  /\ UNCHANGED <<pipeVars, feedVars, ctxCancelled, loopVars, turnVars, displacedBy, shutdown,
                 toStop>>

DropsUnstopped(a) ==  \* mistake: the execution leaves the map unstopped
  /\ cached' = [cached EXCEPT ![run[a]] = None]
  /\ UNCHANGED <<live, displacedBy>>

\* execution.stop and deleteRun, which deletes whatever the run has by now.
StopAndDelete(a) ==
  /\ cached' = [cached EXCEPT ![run[a]] = None]
  /\ live' = live \ {execution[a]}
  /\ displacedBy' = [e \in Activations |->
                       IF e = cached[run[a]] /\ e # execution[a] THEN a ELSE displacedBy[e]]

\* activate succeeds or panics (the run stays cached) or fails (it is stopped
\* and deleted); an eviction deletes the run.
FinishHandling(a) ==
  /\ proc[a] \in {"evicting", "activating", "answering"}
  /\ proc' = [proc EXCEPT ![a] = "sending"]
  /\ execution' = [execution EXCEPT ![a] = None]
  /\ \/ proc[a] # "evicting" /\ UNCHANGED <<cached, live, displacedBy>>
     \/ proc[a] # "answering" /\ StopAndDelete(a)
  /\ UNCHANGED <<pipeVars, feedVars, ctxCancelled, loopVars, turnVars, shutdown, toStop>>
-----------------------------------------------------------------------------
(***************************************************************************)
(* The goroutines of the pipeline. AfterSubmit releases the run's turn.    *)
(***************************************************************************)
Submit(a) ==
  /\ Pipe!Submit(a)
  /\ UNCHANGED <<feedVars, ctxCancelled, loopVars, proc, cacheVars, turnVars>>

AfterSubmit(a) ==
  /\ Pipe!AfterSubmit(a)
  /\ ReleaseRunTurn(a)
  /\ UNCHANGED <<feedVars, ctxCancelled, loopVars, proc, cacheVars>>

ReportResult(a) ==
  /\ Pipe!SendResult(a) \/ Pipe!FinishAndTakeNext(a)
  /\ UNCHANGED <<feedVars, ctxCancelled, loopVars, proc, cacheVars, turnVars>>
-----------------------------------------------------------------------------
(***************************************************************************)
(* The run loop. Each branch of its select is one action; the select picks *)
(* among the ready ones in any order.                                      *)
(***************************************************************************)
\* startDraining and recordError; err says whether there is an error to record.
StartDraining(err) ==
  /\ state' = IF state = "running" THEN "draining" ELSE state
  /\ failed' = (failed \/ err)

KeepState == UNCHANGED <<state, failed>>

\* enqueueWorkflowCompletion of a completion that holds a turn (or a nil one):
\* a refusal releases the turn and drains the worker.
EnqueueCompletion(a) ==
  \/ Pipe!EnqueueAccepted(a) /\ UNCHANGED turnVars /\ KeepState
  \/ Pipe!EnqueueRejected(a) /\ ReleaseRunTurn(a) /\ StartDraining(TRUE)

TakeContextDone ==
  /\ state = "running"
  /\ ctxCancelled
  /\ StartDraining(FALSE)
  /\ UNCHANGED <<pipeVars, feedVars, ctxCancelled, pollOpen, activeProcessors,
                 proc, cacheVars, turnVars>>

TakePollClosed ==
  /\ pollOpen
  /\ poller = "closed"
  /\ pollOpen' = FALSE
  /\ IF state = "running" THEN StartDraining(~ctxCancelled) ELSE KeepState
  /\ UNCHANGED <<pipeVars, feedVars, ctxCancelled, activeProcessors, proc, cacheVars,
                 turnVars>>

TakePollError ==
  /\ poller \in {"failing", "cancelling"}
  /\ poller' = "closed"
  /\ StartDraining(~(ctxCancelled /\ poller = "cancelling"))
  /\ UNCHANGED <<pipeVars, delivered, run, kind, ctxCancelled, pollOpen, activeProcessors,
                 proc, cacheVars, turnVars>>

\* handlePollEvent with an activation in hand; the poller polls again.
TakePollActivation == poller = "offering" /\ poller' = "polling"

\* A codec failure is answered at once, outside the run's lane.
TakeUndecodable ==
  /\ TakePollActivation
  /\ kind[delivered] = "undecodable"
  /\ EnqueueCompletion(delivered)
  /\ UNCHANGED <<delivered, run, kind, ctxCancelled, pollOpen, activeProcessors, proc,
                 cacheVars>>

ProcessorFreeLate == activeProcessors <= MaxTasks  \* mistake: off by one

ProcessorFree == activeProcessors < MaxTasks

\* dispatchActivation beyond the limit: drain, and answer outside the lane.
DispatchOverLimit ==
  /\ TakePollActivation
  /\ kind[delivered] # "undecodable"
  /\ ~ProcessorFree
  /\ StartDraining(TRUE)
  /\ Pipe!EnqueueAccepted(delivered) \/ Pipe!EnqueueRejected(delivered)
  /\ UNCHANGED <<delivered, run, kind, ctxCancelled, pollOpen, activeProcessors,
                 proc, cacheVars, turnVars>>

\* dispatchActivation: the turn is reserved here, in the loop, so that lanes
\* follow the order of polling. Without a run ID the processor fails at once.
DispatchActivation ==
  /\ TakePollActivation
  /\ kind[delivered] # "undecodable"
  /\ ProcessorFree
  /\ activeProcessors' = activeProcessors + 1
  /\ IF run[delivered] = None
       THEN /\ proc' = [proc EXCEPT ![delivered] = "sending"]
            /\ UNCHANGED turnVars
       ELSE /\ proc' = [proc EXCEPT ![delivered] = "waiting"]
            /\ ReserveRunTurn(delivered)
  /\ UNCHANGED <<pipeVars, delivered, run, kind, ctxCancelled, state, pollOpen, failed,
                 cacheVars>>

\* handleProcessorResult: the unbuffered receive frees the processor.
TakeProcessorResult(a) ==
  /\ proc[a] = "sending"
  /\ proc' = [proc EXCEPT ![a] = "gone"]
  /\ activeProcessors' = activeProcessors - 1
  /\ EnqueueCompletion(a)
  /\ UNCHANGED <<feedVars, ctxCancelled, pollOpen, cacheVars>>

\* handleCompletionResult receives and finalizes in one branch.
TakeCompletionResult(a) ==
  /\ results # <<>>
  /\ a = Head(results)
  /\ results' = Tail(results)
  /\ report' = [report EXCEPT ![a] = "finalized"]
  /\ outstanding' = outstanding - 1
  /\ totalWeight' = totalWeight - Pipe!NormalizedWeight(a)
  /\ IF outcome[a] = "failed" THEN StartDraining(TRUE) ELSE KeepState
  /\ UNCHANGED <<stage, outcome, queue, active, feedVars, ctxCancelled, pollOpen,
                 activeProcessors, proc, cacheVars, turnVars>>

ShouldFinishEarly ==  \* mistake: does not wait for the pipeline
  /\ state # "running"
  /\ ~pollOpen
  /\ activeProcessors = 0

ShouldFinish ==
  /\ state # "running"
  /\ ~pollOpen
  /\ activeProcessors = 0
  /\ outstanding = 0

Cached == {cached[r] : r \in Runs} \ {None}

\* stopAllRuns under runsMu: a lane and the execution it orders go together.
EmptyMaps ==
  /\ cached' = [r \in Runs |-> None]
  /\ runLocks' = [r \in Runs |-> None]

\* finish: stopAllRuns, then Core is shut down.
Finish ==
  /\ state # "finished"
  /\ ShouldFinish
  /\ state' = "finished"
  /\ EmptyMaps
  /\ live' = live \ Cached
  /\ UNCHANGED <<pipeVars, feedVars, ctxCancelled, pollOpen, failed, activeProcessors,
                 proc, execution, displacedBy, shutdown, toStop,
                 laneOf, ready, tail, refs, done>>
-----------------------------------------------------------------------------
(***************************************************************************)
(* Worker.Shutdown, called once and on any goroutine: stopAllRuns, whose   *)
(* executions are stopped one by one after runsMu is released, and then    *)
(* Core.Shutdown, which shows in what polls and submissions return.        *)
(***************************************************************************)
CallShutdown ==
  /\ ~shutdown
  /\ shutdown' = TRUE
  /\ toStop' = Cached
  /\ EmptyMaps
  /\ UNCHANGED <<pipeVars, feedVars, ctxCancelled, loopVars, proc, execution, live, displacedBy,
                 laneOf, ready, tail, refs, done>>

StopExecution(e) ==
  /\ e \in toStop
  /\ toStop' = toStop \ {e}
  /\ live' = live \ {e}
  /\ UNCHANGED <<pipeVars, feedVars, ctxCancelled, loopVars, proc, cached, execution,
                 displacedBy, turnVars, shutdown>>
-----------------------------------------------------------------------------
LoopBranch ==
  \/ TakeContextDone
  \/ TakePollClosed
  \/ TakePollError
  \/ TakeUndecodable
  \/ DispatchOverLimit
  \/ DispatchActivation
  \/ Finish

Next ==
  \/ PollReturnsActivation
  \/ PollReturnsError
  \/ PollerGivesUp
  \/ CancelContext
  \/ LoopBranch
  \/ CallShutdown
  \/ \E a \in Activations :
       \/ BeginHandling(a) \/ FinishHandling(a)
       \/ Submit(a) \/ AfterSubmit(a) \/ ReportResult(a)
       \/ TakeProcessorResult(a) \/ TakeCompletionResult(a)
       \/ StopExecution(a)

Spec == Init /\ [][Next]_vars

\* What the goroutines of a worker owe.
Forced ==
  \/ PollReturnsError /\ PollCancelled
  \/ PollerGivesUp
  \/ LoopBranch
  \/ \E a \in Activations :
       \/ BeginHandling(a) \/ FinishHandling(a)
       \/ Submit(a) \/ AfterSubmit(a) \/ ReportResult(a)
       \/ TakeProcessorResult(a) \/ TakeCompletionResult(a)

\* Goroutines run, Core answers a submitted completion, a poll whose context is
\* cancelled returns, and the select, which picks at random among its ready
\* branches, starves none of them. Each of these steps can be taken only so many
\* times, so that fairness of their disjunction is fairness of each. Core owes
\* no activation, and nobody a call of Shutdown.
Fairness == WF_vars(Forced)

FairSpec == Spec /\ Fairness
-----------------------------------------------------------------------------
\* The activations whose turn is reserved and not yet released.
TurnHolders == {a \in Activations : laneOf[a] # None /\ a \notin done}

Settled(a) == outcome[a] # "none" \/ stage[a] = "rejected"

\* "Activations for the same run ID pass through a per-run FIFO lane; that lane
\* is held until the preceding completion has been submitted": while an
\* activation is being handled or its completion is under way, every earlier
\* one of that lane, or of that run if Shutdown has not emptied the lanes, has
\* been submitted (or refused by the pipeline).
LaneHeldUntilSubmitted ==
  \A a, b \in TurnHolders \cup done :
    /\ a < b
    /\ run[a] = run[b]
    /\ laneOf[a] = laneOf[b] \/ ~shutdown
    /\ proc[b] # "waiting"
    => Settled(a)

\* Whoever is to stop an execution can find it: its coroutines are left running
\* only while it is in worker.runs or in the hands of Shutdown. deleteRun deletes
\* whatever the run has by then; so the exception is an execution that was deleted
\* by an activation driving another one, and such an activation is of another lane
\* of the run, which only Shutdown, dropping a lane in use, brings about.
NoExecutionLost ==
  \A e \in live \ (Cached \cup toStop) :
    /\ displacedBy[e] # None
    /\ shutdown /\ laneOf[displacedBy[e]] # laneOf[e]

\* Lane bookkeeping: refs counts the unreleased turns; and, unless a Shutdown
\* has emptied the map under the processors, while a run has an unreleased turn
\* its lane is the one the next activation will join, and no lane stays in the
\* map of a run that is neither cached nor waited for.
LanesAccounted ==
  /\ \A l \in Activations : refs[l] = Cardinality({a \in TurnHolders : laneOf[a] = l})
  /\ ~shutdown =>
       /\ \A a \in TurnHolders : runLocks[run[a]] = laneOf[a]
       /\ \A r \in Runs :
            runLocks[r] # None /\ refs[runLocks[r]] = 0 => cached[r] # None

\* run returns only when nothing of it is left: the poller is gone, every
\* activation it accepted was taken, handled and answered (or refused by the
\* pipeline, and then Run reports an error), and no Submit can still reach the
\* Core that finish shuts down. Without an error its context has ended it.
FinishedIsQuiet ==
  state = "finished" =>
    /\ ctxCancelled \/ failed
    /\ poller = "closed"
    /\ TurnHolders = {}
    /\ \A a \in 1 .. delivered :
         /\ proc[a] \in {"none", "gone"}
         /\ report[a] = "finalized" \/ (stage[a] = "rejected" /\ failed)

\* A worker that is cancelled or starts to drain finishes: no processor is left
\* waiting for its turn, no goroutine blocked on a channel nobody reads.
DrainFinishes == (ctxCancelled \/ state = "draining") ~> (state = "finished")

\* "Once a workflow activation has been accepted, the worker makes exactly one
\* completion attempt even if cancellation races with processing": the one
\* Enqueue of an accepted activation's completion is never refused, so that
\* CompleteWorkflow is called for it.
AcceptedIsAttempted == \A a \in Activations : stage[a] # "rejected"

\* The dispatcher "runs only one at a time ... without letting workflow code race
\* on ordinary Go goroutines": the execution a processor activates is not one
\* whose coroutines another goroutine has stopped meanwhile.
DrivesAlone ==
  \A a \in Activations : proc[a] = "activating" => execution[a] \in live
=============================================================================
