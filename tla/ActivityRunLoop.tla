-------------------------- MODULE ActivityRunLoop --------------------------
(***************************************************************************)
(* internal/activityworker: the poller goroutine, the run loop, one        *)
(* goroutine per started activity, heartbeats, cancellation and the        *)
(* completion pipeline (CompletionPipe).                                   *)
(*                                                                         *)
(* Tasks are numbered in the order Core returns them; a start task's number*)
(* also names the runningActivity made for it. An activity can be ended by *)
(* three parties, so its possible completions are three tickets:           *)
(* <<a, "result">> from its own goroutine, <<a, "cancel">> for a           *)
(* cancellation task and <<a, "drain">> for the worker's shutdown.         *)
(***************************************************************************)
EXTENDS Integers, Sequences, FiniteSets

CONSTANTS
  MaxPolled,      \* bound: tasks Core returns in one behaviour
  Tokens,         \* task tokens
  Offers,         \* Offers[a]: the <<token, kind>> pairs Core may return as a
  Weight,         \* Weight[c]: encoded size of completion c
  MaxActivities,  \* activityCompletionLimit()
  CoreSlots,      \* tasks Core hands out at once; MaxActivities if it keeps its limit
  None            \* nil

Tasks == 1 .. MaxPolled

Enders == {"result", "cancel", "drain"}

Completions == Tasks \X Enders

\* "neither": a task with no start and no cancellation in it.
\* "undecodable": the payload codec failed on a start task.
Kinds == {"start", "cancel", "neither", "undecodable"}

ASSUME ActivityAssumption ==
  /\ MaxPolled \in Nat
  /\ MaxActivities \in Nat \ {0}
  /\ CoreSlots \in Nat
  /\ None \notin Tasks \cup Int
  /\ None \notin Tokens
  /\ Weight \in [Completions -> Nat]
  /\ Offers \in [Tasks -> SUBSET (Tokens \X Kinds)]

VARIABLES
  \* completionpipe.Pipeline
  stage, outcome, report, queue, results, active, outstanding, totalWeight,
  \* Core and the poller goroutine
  delivered,         \* tasks returned by Core so far
  token, kind,       \* what each of them is
  poller,            \* as in WorkflowRunLoop
  ctxCancelled,      \* the context given to Run is done
  \* the run loop
  state,             \* loop.state, and "finished" once run returns
  pollOpen,          \* loop.pollEventsCh is not nil
  failed,            \* loop.firstErr is not nil
  running,           \* loop.running
  activeExecutions,  \* loop.activeExecutions
  toCancel,          \* what cancelRunningActivities still has to visit
  \* runningActivity
  exec,              \* the activity's goroutine
  terminal,          \* the activities with terminal set, hence stopped and done
  beating            \* the activities whose mutex a heartbeat call holds

pipeVars == <<stage, outcome, report, queue, results, active, outstanding, totalWeight>>
feedVars == <<delivered, token, kind, poller>>
stateVars == <<state, failed, toCancel>>
activityVars == <<running, activeExecutions, terminal>>

vars == <<pipeVars, feedVars, ctxCancelled, stateVars, pollOpen, activityVars, exec, beating>>

\* Run passes no options.
Pipe == INSTANCE CompletionPipe WITH
  Tickets <- Completions, NilSubmit <- {}, LimitArg <- MaxActivities,
  ItemsOption <- None, WeightOption <- None, NoOption <- None

TypeOK ==
  /\ Pipe!TypeOK
  /\ delivered \in 0 .. MaxPolled
  /\ token \in [Tasks -> Tokens \cup {None}]
  /\ kind \in [Tasks -> Kinds \cup {None}]
  /\ poller \in {"polling", "offering", "failing", "cancelling", "closed"}
  /\ ctxCancelled \in BOOLEAN
  /\ state \in {"running", "draining", "finished"}
  /\ pollOpen \in BOOLEAN
  /\ failed \in BOOLEAN
  /\ running \in [Tokens -> Tasks \cup {None}]
  /\ activeExecutions \in 0 .. MaxActivities
  /\ toCancel \subseteq Tasks
  /\ exec \in [Tasks -> {"none", "executing", "offering", "gone"}]
  /\ terminal \subseteq Tasks
  /\ beating \subseteq Tasks

Init ==
  /\ Pipe!Init
  /\ delivered = 0
  /\ token = [a \in Tasks |-> None]
  /\ kind = [a \in Tasks |-> None]
  /\ poller = "polling"
  /\ ctxCancelled = FALSE
  /\ state = "running"
  /\ pollOpen = TRUE
  /\ failed = FALSE
  /\ running = [k \in Tokens |-> None]
  /\ activeExecutions = 0
  /\ toCancel = {}
  /\ exec = [a \in Tasks |-> "none"]
  /\ terminal = {}
  /\ beating = {}

PollCancelled == ctxCancelled \/ state # "running"

Started == {a \in Tasks : exec[a] # "none"}
-----------------------------------------------------------------------------
(***************************************************************************)
(* Core: a start keeps its slot until a completion for it is taken.        *)
(***************************************************************************)
CoreHeld ==
  {a \in 1 .. delivered :
     /\ kind[a] \in {"start", "undecodable"}
     /\ \A e \in Enders : outcome[<<a, e>>] # "ok"}

(***************************************************************************)
(* pollActivities.                                                         *)
(***************************************************************************)
PollReturnsTask ==
  /\ poller = "polling"
  /\ delivered < MaxPolled
  /\ delivered' = delivered + 1
  /\ \E offer \in Offers[delivered'] :
       /\ offer[2] \in {"start", "undecodable"} => Cardinality(CoreHeld) < CoreSlots
       /\ token' = [token EXCEPT ![delivered'] = offer[1]]
       /\ kind' = [kind EXCEPT ![delivered'] = offer[2]]
  /\ poller' = "offering"
  /\ UNCHANGED <<pipeVars, ctxCancelled, stateVars, pollOpen, activityVars, exec, beating>>

PollReturnsError ==
  /\ poller = "polling"
  /\ \/ poller' = "failing"
     \/ PollCancelled /\ poller' = "cancelling"
  /\ UNCHANGED <<pipeVars, delivered, token, kind, ctxCancelled, stateVars, pollOpen,
                 activityVars, exec, beating>>

\* An error event is dropped when the poll context is done; a task never is.
PollerGivesUp ==
  /\ poller \in {"failing", "cancelling"}
  /\ PollCancelled
  /\ poller' = "closed"
  /\ UNCHANGED <<pipeVars, delivered, token, kind, ctxCancelled, stateVars, pollOpen,
                 activityVars, exec, beating>>

CancelContext ==
  /\ ~ctxCancelled
  /\ state # "finished"
  /\ ctxCancelled' = TRUE
  /\ UNCHANGED <<pipeVars, feedVars, stateVars, pollOpen, activityVars, exec, beating>>
-----------------------------------------------------------------------------
(***************************************************************************)
(* The goroutine of a started activity.                                    *)
(***************************************************************************)
\* executeSafely returns a completion whether the function returns or panics.
FunctionReturns(a) ==
  /\ exec[a] = "executing"
  /\ exec' = [exec EXCEPT ![a] = "offering"]
  /\ UNCHANGED <<pipeVars, feedVars, ctxCancelled, stateVars, pollOpen, activityVars, beating>>

DoneNeverClosed(a) == FALSE  \* mistake: stopLocked does not close done

DoneClosed(a) == a \in terminal

\* The other branch of its select: activity.done is closed.
GoroutineLeaves(a) ==
  /\ exec[a] = "offering"
  /\ DoneClosed(a)
  /\ exec' = [exec EXCEPT ![a] = "gone"]
  /\ UNCHANGED <<pipeVars, feedVars, ctxCancelled, stateVars, pollOpen, activityVars, beating>>

\* recordHeartbeat holds the activity's mutex around the call to Core. The
\* function may have handed its context to a goroutine that outlives it.
BeginHeartbeat(a) ==
  /\ a \in Started
  /\ a \notin beating
  /\ a \notin terminal
  /\ beating' = beating \cup {a}
  /\ UNCHANGED <<pipeVars, feedVars, ctxCancelled, stateVars, pollOpen, activityVars, exec>>

EndHeartbeat(a) ==
  /\ a \in beating
  /\ beating' = beating \ {a}
  /\ UNCHANGED <<pipeVars, feedVars, ctxCancelled, stateVars, pollOpen, activityVars, exec>>
-----------------------------------------------------------------------------
(***************************************************************************)
(* Completing: enqueueCompletion and enqueueActivityCompletion.            *)
(***************************************************************************)
\* startDraining: the state changes once, and the loop then cancels every
\* running activity before it selects again.
StartDraining(err) ==
  /\ failed' = (failed \/ err)
  /\ IF state = "running"
       THEN /\ state' = "draining"
            /\ toCancel' = {running'[k] : k \in Tokens} \ {None}
       ELSE UNCHANGED <<state, toCancel>>

KeepState == UNCHANGED stateVars

\* A refused completion runs its Finalize hook and drains the worker.
EnqueueCompletion(c) ==
  \/ Pipe!EnqueueAccepted(c) /\ KeepState
  \/ Pipe!EnqueueRejected(c) /\ StartDraining(TRUE)

ForgetNothing(a) == UNCHANGED running  \* mistake: the entry stays

\* The Finalize hook of activity a's ticket.
Forget(a) ==
  running' = IF running[token[a]] = a THEN [running EXCEPT ![token[a]] = None] ELSE running

MutexIgnored(a) == TRUE  \* mistake: terminal is set without the mutex

\* queueTerminal waits for a heartbeat in progress, as its mutex does.
MutexFree(a) == a \notin beating

NeverTerminal(a) == FALSE  \* mistake: terminal is not tested

\* queueTerminal reports false.
AlreadyTerminal(a) == a \in terminal

\* enqueueActivityCompletion: only the first caller completes the activity.
\* What happens to running depends on whether the pipeline takes the ticket.
EnqueueActivityCompletion(a, ender) ==
  /\ MutexFree(a)
  /\ IF AlreadyTerminal(a)
       THEN UNCHANGED <<pipeVars, stateVars, activityVars>>
       ELSE /\ terminal' = terminal \cup {a}
            /\ activeExecutions' = activeExecutions - 1
            /\ \/ Pipe!EnqueueAccepted(<<a, ender>>) /\ UNCHANGED running /\ KeepState
               \/ Pipe!EnqueueRejected(<<a, ender>>) /\ Forget(a) /\ StartDraining(TRUE)
-----------------------------------------------------------------------------
(***************************************************************************)
(* The goroutines of the pipeline.                                         *)
(***************************************************************************)
PipelineRuns(c) ==
  /\ Pipe!Run(c)
  /\ UNCHANGED <<feedVars, ctxCancelled, stateVars, pollOpen, activityVars, exec, beating>>
-----------------------------------------------------------------------------
(***************************************************************************)
(* The run loop: one action per branch of its select, and CancelNext for   *)
(* an iteration of cancelRunningActivities.                                *)
(***************************************************************************)
Selecting == toCancel = {}

TakeContextDone ==
  /\ Selecting
  /\ state = "running"
  /\ ctxCancelled
  /\ UNCHANGED running
  /\ StartDraining(FALSE)
  /\ UNCHANGED <<pipeVars, feedVars, ctxCancelled, pollOpen, activeExecutions, terminal,
                 exec, beating>>

TakePollClosed ==
  /\ Selecting
  /\ pollOpen
  /\ poller = "closed"
  /\ pollOpen' = FALSE
  /\ UNCHANGED running
  /\ IF state = "running" THEN StartDraining(~ctxCancelled) ELSE KeepState
  /\ UNCHANGED <<pipeVars, feedVars, ctxCancelled, activeExecutions, terminal, exec, beating>>

TakePollError ==
  /\ Selecting
  /\ poller \in {"failing", "cancelling"}
  /\ poller' = "closed"
  /\ UNCHANGED running
  /\ StartDraining(~(ctxCancelled /\ poller = "cancelling"))
  /\ UNCHANGED <<pipeVars, delivered, token, kind, ctxCancelled, pollOpen, activeExecutions,
                 terminal, exec, beating>>

\* The poller hands over the latest task, of one of the given kinds.
TakeTask(kinds) ==
  /\ Selecting
  /\ poller = "offering"
  /\ kind[delivered] \in kinds
  /\ poller' = "polling"
  /\ UNCHANGED <<delivered, token, kind, ctxCancelled, pollOpen, beating>>

TakeUndecodable ==
  /\ TakeTask({"undecodable"})
  /\ UNCHANGED activityVars
  /\ EnqueueCompletion(<<delivered, "result">>)
  /\ UNCHANGED exec

ExecutionFreeLate == activeExecutions <= MaxActivities  \* mistake: off by one

ExecutionFree == activeExecutions < MaxActivities

\* startActivity refuses a task above the limit, or whose token is in use,
\* and the worker drains; the task itself is not answered.
RefuseStart ==
  /\ TakeTask({"start"})
  /\ state = "running"
  /\ ~ExecutionFree \/ running[token[delivered]] # None
  /\ UNCHANGED activityVars
  /\ StartDraining(TRUE)
  /\ UNCHANGED <<pipeVars, exec>>

StartActivity ==
  /\ TakeTask({"start"})
  /\ state = "running"
  /\ ExecutionFree
  /\ running[token[delivered]] = None
  /\ running' = [running EXCEPT ![token[delivered]] = delivered]
  /\ activeExecutions' = activeExecutions + 1
  /\ exec' = [exec EXCEPT ![delivered] = "executing"]
  /\ UNCHANGED <<pipeVars, stateVars, terminal>>

\* A start that arrives while draining is cancelled without running.
CancelStart ==
  /\ TakeTask({"start"})
  /\ state # "running"
  /\ UNCHANGED activityVars
  /\ EnqueueCompletion(<<delivered, "drain">>)
  /\ UNCHANGED exec

CancelRunningActivity ==
  /\ TakeTask({"cancel"})
  /\ LET a == running[token[delivered]]
     IN  IF a = None THEN UNCHANGED <<pipeVars, stateVars, activityVars>>
                     ELSE EnqueueActivityCompletion(a, "cancel")
  /\ UNCHANGED exec

TakeEmptyTask ==
  /\ TakeTask({"neither"})
  /\ UNCHANGED activityVars
  /\ StartDraining(TRUE)
  /\ UNCHANGED <<pipeVars, exec>>

\* handleActivityEvent ignores an activity that is no longer the one running
\* under its token.
TakeActivityEvent(a) ==
  /\ Selecting
  /\ state # "finished"
  /\ exec[a] = "offering"
  /\ exec' = [exec EXCEPT ![a] = "gone"]
  /\ IF running[token[a]] = a THEN EnqueueActivityCompletion(a, "result")
                              ELSE UNCHANGED <<pipeVars, stateVars, activityVars>>
  /\ UNCHANGED <<feedVars, ctxCancelled, pollOpen, beating>>

\* handleCompletionResult: Result.Finalize runs the ticket's hook, which only
\* the tickets of started activities have.
TakeCompletionResult(c) ==
  /\ Selecting
  /\ results # <<>>
  /\ c = Head(results)
  /\ results' = Tail(results)
  /\ report' = [report EXCEPT ![c] = "finalized"]
  /\ outstanding' = outstanding - 1
  /\ totalWeight' = totalWeight - Pipe!NormalizedWeight(c)
  /\ IF c[1] \in Started THEN Forget(c[1]) ELSE UNCHANGED running
  /\ IF outcome[c] = "failed" THEN StartDraining(TRUE) ELSE KeepState
  /\ UNCHANGED <<stage, outcome, queue, active, feedVars, ctxCancelled, pollOpen,
                 activeExecutions, terminal, exec, beating>>

\* One iteration of cancelRunningActivities. Its errors are recorded and
\* cannot start the drain again.
CancelNext(a) ==
  /\ a \in toCancel
  /\ toCancel' = toCancel \ {a}
  /\ MutexFree(a)
  /\ IF AlreadyTerminal(a)
       THEN UNCHANGED <<pipeVars, activityVars, failed>>
       ELSE /\ terminal' = terminal \cup {a}
            /\ activeExecutions' = activeExecutions - 1
            /\ \/ Pipe!EnqueueAccepted(<<a, "drain">>) /\ UNCHANGED <<running, failed>>
               \/ Pipe!EnqueueRejected(<<a, "drain">>) /\ Forget(a) /\ failed' = TRUE
  /\ UNCHANGED <<feedVars, ctxCancelled, state, pollOpen, exec, beating>>

ShouldFinishEarly == state # "running" /\ ~pollOpen  \* mistake: ignores the pipeline

\* mistake: waits for the activity functions
ShouldFinishAfterHandlers ==
  /\ state # "running"
  /\ ~pollOpen
  /\ outstanding = 0
  /\ \A a \in Tasks : exec[a] \in {"none", "gone"}

ShouldFinish ==
  /\ state # "running"
  /\ ~pollOpen
  /\ outstanding = 0

Finish ==
  /\ Selecting
  /\ state # "finished"
  /\ ShouldFinish
  /\ state' = "finished"
  /\ UNCHANGED <<pipeVars, feedVars, ctxCancelled, failed, toCancel, pollOpen,
                 activityVars, exec, beating>>
-----------------------------------------------------------------------------
TakePolledTask ==
  \/ TakeUndecodable
  \/ RefuseStart
  \/ StartActivity
  \/ CancelStart
  \/ CancelRunningActivity
  \/ TakeEmptyTask

Next ==
  \/ PollReturnsTask
  \/ PollReturnsError
  \/ PollerGivesUp
  \/ CancelContext
  \/ TakeContextDone
  \/ TakePollClosed
  \/ TakePollError
  \/ TakePolledTask
  \/ Finish
  \/ \E a \in Tasks :
       \/ FunctionReturns(a) \/ GoroutineLeaves(a)
       \/ BeginHeartbeat(a) \/ EndHeartbeat(a)
       \/ TakeActivityEvent(a) \/ CancelNext(a)
  \/ \E c \in Completions : PipelineRuns(c) \/ TakeCompletionResult(c)

Spec == Init /\ [][Next]_vars

\* As for the workflow loop. An activity function owes nothing: it may run for
\* ever. A heartbeat call into Core returns, and because a mutex that a
\* heartbeat may take again and again is handed over in turn, a waiting
\* queueTerminal gets it.
Fairness ==
  /\ WF_vars(PollReturnsError /\ PollCancelled)
  /\ WF_vars(PollerGivesUp)
  /\ WF_vars(TakeContextDone)
  /\ WF_vars(TakePollClosed)
  /\ WF_vars(TakePollError)
  /\ SF_vars(TakePolledTask)
  /\ WF_vars(Finish)
  /\ \A a \in Tasks :
       /\ WF_vars(GoroutineLeaves(a))
       /\ WF_vars(EndHeartbeat(a))
       /\ SF_vars(CancelNext(a))
       /\ SF_vars(TakeActivityEvent(a))
  /\ \A c \in Completions :
       /\ WF_vars(PipelineRuns(c))
       /\ WF_vars(TakeCompletionResult(c))

FairSpec == Spec /\ Fairness
-----------------------------------------------------------------------------
\* "The worker tracks it by task token so a cancellation task or shutdown can
\* atomically select the one terminal completion": of the result of its
\* function, a cancellation and the shutdown, only one is ever handed to the
\* pipeline for an activity.
OneTerminalCompletion ==
  \A a \in Tasks, e, f \in Enders :
    stage[<<a, e>>] # "new" /\ stage[<<a, f>>] # "new" => e = f

\* A heartbeat reaches Core only before the activity's terminal completion is
\* chosen: none is in progress, and none begins, once it is.
NoHeartbeatAfterTerminal == beating \cap terminal = {}

\* The loop's bookkeeping: activeExecutions counts the started activities not
\* yet ended; each of those is found under its token, so that a cancellation
\* or the shutdown can end it; and an activity leaves the map only after its
\* completion is submitted and its result handled, or refused.
ExecutionsAccounted ==
  /\ activeExecutions = Cardinality(Started \ terminal)
  /\ \A a \in Started \ terminal : running[token[a]] = a
  /\ \A a \in Started \cap terminal :
       running[token[a]] = a <=>
         \E e \in Enders : stage[<<a, e>>] \notin {"new", "rejected"}
                           /\ report[<<a, e>>] # "finalized"

\* run returns only when it owes nothing: the poller is gone, every activity it
\* started has been stopped and its completion submitted (or refused, and then
\* Run reports an error), and no submission can still reach the Core that Run
\* shuts down.
FinishedIsQuiet ==
  state = "finished" =>
    /\ poller = "closed"
    /\ Started \subseteq terminal
    /\ \A a \in Started : \E e \in Enders :
         report[<<a, e>>] = "finalized" \/ (stage[<<a, e>>] = "rejected" /\ failed)
    /\ ~failed => \A a \in 1 .. delivered :
         kind[a] \in {"start", "undecodable"} =>
           \E e \in Enders : outcome[<<a, e>>] = "ok" /\ report[<<a, e>>] = "finalized"

\* "Cancellation and shutdown submit a cancellation completion without waiting
\* indefinitely for the handler goroutine": a draining worker finishes even if
\* an activity function never returns.
DrainFinishes == (state = "draining") ~> (state = "finished")

\* An activity goroutine whose function has returned ends, also when the loop
\* that used to receive its event is gone.
GoroutinesLeave == \A a \in Tasks : (exec[a] = "offering") ~> (exec[a] = "gone")
=============================================================================
