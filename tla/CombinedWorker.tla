--------------------------- MODULE CombinedWorker ---------------------------
(***************************************************************************)
(* worker/worker.go: one Worker with a workflow loop and an activity loop  *)
(* over one Core. Each loop has a view of Core; sharedCombinedCore counts  *)
(* the views and shuts Core down with the last of them. NewWorker makes    *)
(* the views, Run runs the loops, and any goroutine may call Shutdown.     *)
(*                                                                         *)
(* A view's Shutdown is under a sync.Once; the workflow worker's own Once  *)
(* around its view's is the same one here, its only caller. The loops are  *)
(* WorkflowRunLoop and ActivityRunLoop: here they run, and end.            *)
(***************************************************************************)
EXTENDS Integers, Sequences

CONSTANTS
  Callers,  \* the goroutines that call Worker.Shutdown
  Maker     \* the goroutine that calls NewWorker

Views == {"workflow", "activity"}

Threads == Views \cup Callers \cup {Maker}

ASSUME ThreadAssumption ==
  /\ Callers \cap Views = {}
  /\ Maker \notin Callers \cup Views

VARIABLES
  made,       \* NewWorker: "no", its views one by one, "yes" or "failed"
  views,      \* the views that exist
  refs,       \* sharedCombinedCore.refs
  core,       \* Core: "up", "stopping" (Shutdown has been called), "down"
  coreFailed, \* Core's Shutdown returned an error: sharedCombinedCore.err
  shutdowns,  \* how often Core's Shutdown has been called
  once,       \* shutdownOnce of each view
  viewFailed, \* shutdownErr of each view
  pc, todo,   \* of each thread: where it is, the views it has yet to release
  heard,      \* whether a thread has been given an error of Core's Shutdown
  run,        \* Run: "no", "waiting", "cancelled" (after a first result), "returned"
  received,   \* the loops whose results Run has received
  runFailed   \* whether Run returns an error of Core's Shutdown

coreVars == <<refs, core, coreFailed, shutdowns>>
viewVars == <<once, viewFailed>>
runVars  == <<run, received, runFailed>>
vars == <<made, views, coreVars, viewVars, pc, todo, heard, runVars>>

TypeOK ==
  /\ made \in {"no", "workflow", "yes", "failed"}
  /\ views \subseteq Views
  /\ refs \in 0 .. 2
  /\ core \in {"up", "stopping", "down"} /\ coreFailed \in BOOLEAN /\ shutdowns \in 0 .. 1
  /\ once \in [Views -> {"new", "busy", "done"}]
  /\ viewFailed \in [Views -> BOOLEAN]
  /\ pc \in [Threads -> {"idle", "running", "asking", "releasing", "stopping", "done"}]
  /\ todo \in [Threads -> Seq(Views)]
  /\ heard \in [Threads -> BOOLEAN]
  /\ run \in {"no", "waiting", "cancelled", "returned"}
  /\ received \subseteq Views
  /\ runFailed \in BOOLEAN

Init ==
  /\ made = "no" /\ views = {}
  /\ refs = 0 /\ core = "up" /\ coreFailed = FALSE /\ shutdowns = 0
  /\ once = [v \in Views |-> "new"] /\ viewFailed = [v \in Views |-> FALSE]
  /\ pc = [t \in Threads |-> "idle"] /\ todo = [t \in Threads |-> <<>>]
  /\ heard = [t \in Threads |-> FALSE]
  /\ run = "no" /\ received = {} /\ runFailed = FALSE
-----------------------------------------------------------------------------
(***************************************************************************)
(* Releasing views.                                                        *)
(***************************************************************************)
\* t sets out to shut down the given views, one after the other.
SetOut(t, which) ==
  /\ pc' = [pc EXCEPT ![t] = "asking"]
  /\ todo' = [todo EXCEPT ![t] = which]

\* The thread's call of a view's Shutdown returns; errors are joined.
Returned(t, failed) ==
  /\ heard' = [heard EXCEPT ![t] = @ \/ failed]
  /\ todo' = [todo EXCEPT ![t] = Tail(@)]
  /\ pc' = [pc EXCEPT ![t] = IF Tail(todo[t]) = <<>> THEN "done" ELSE "asking"]

ReleaseEachTime(v) == TRUE  \* mistake: Shutdown is not under a Once

FirstCall(v) == once[v] = "new"

\* Once.Do: the first caller runs the function, another waits until it has
\* returned and is given its error.
AskView(t) ==
  /\ pc[t] = "asking"
  /\ LET v == Head(todo[t])
     IN  \/ /\ FirstCall(v)
            /\ once' = [once EXCEPT ![v] = "busy"]
            /\ pc' = [pc EXCEPT ![t] = "releasing"]
            /\ UNCHANGED <<todo, heard>>
         \/ /\ once[v] = "done"
            /\ Returned(t, viewFailed[v])
            /\ once' = once
  /\ UNCHANGED <<made, views, coreVars, viewFailed, runVars>>

FinishOnce(t, failed) ==
  LET v == Head(todo[t])
  IN  /\ once' = [once EXCEPT ![v] = "done"]
      /\ viewFailed' = [viewFailed EXCEPT ![v] = failed]
      /\ Returned(t, failed)

MutexKept == refs = 2  \* mistake: release does not unlock the mutex

\* sharedCombinedCore.mu is held across Core's Shutdown and nothing else that
\* waits.
MutexFree == \A t \in Threads : pc[t] # "stopping"

StopsWithFirst == refs > 0  \* mistake: the first view shuts Core down

IsLastView == refs = 1

\* release. That refs is zero already never happens: a view releases once.
Release(t) ==
  /\ pc[t] = "releasing"
  /\ MutexFree
  /\ refs' = refs - 1
  /\ \/ /\ ~IsLastView
        /\ FinishOnce(t, coreFailed)
        /\ UNCHANGED <<core, shutdowns>>
     \/ /\ IsLastView
        /\ core' = "stopping" /\ shutdowns' = shutdowns + 1
        /\ pc' = [pc EXCEPT ![t] = "stopping"]
        /\ UNCHANGED <<viewVars, todo, heard>>
  /\ UNCHANGED <<made, views, coreFailed, runVars>>

\* Core's Shutdown returns, and with it release.
CoreStops(t) ==
  /\ pc[t] = "stopping"
  /\ core' = "down"
  /\ \E failed \in BOOLEAN : coreFailed' = failed /\ FinishOnce(t, failed)
  /\ UNCHANGED <<made, views, refs, shutdowns, runVars>>
-----------------------------------------------------------------------------
(***************************************************************************)
(* NewWorker, for a worker with both loops.                                *)
(***************************************************************************)
AddView(v) ==
  /\ views' = views \cup {v}
  /\ refs' = refs + 1

OnlyItsOwn == <<"activity">>  \* mistake: the workflow worker is left as it is

\* Without an activity worker, what exists is shut down: the new view and the
\* workflow worker.
UndoWorkflowToo == <<"activity", "workflow">>

MakeWorkflow ==
  /\ made = "no"
  /\ AddView("workflow")
  /\ \/ made' = "workflow" /\ UNCHANGED <<pc, todo>>
     \/ made' = "failed" /\ SetOut(Maker, <<"workflow">>)
  /\ UNCHANGED <<core, coreFailed, shutdowns, viewVars, heard, runVars>>

MakeActivity ==
  /\ made = "workflow"
  /\ AddView("activity")
  /\ \/ made' = "yes" /\ UNCHANGED <<pc, todo>>
     \/ made' = "failed" /\ SetOut(Maker, UndoWorkflowToo)
  /\ UNCHANGED <<core, coreFailed, shutdowns, viewVars, heard, runVars>>
-----------------------------------------------------------------------------
(***************************************************************************)
(* Run and Shutdown.                                                       *)
(***************************************************************************)
StartRun ==
  /\ made = "yes" /\ run = "no"
  /\ run' = "waiting"
  /\ pc' = [t \in Threads |-> IF t \in Views THEN "running" ELSE pc[t]]
  /\ UNCHANGED <<made, views, coreVars, viewVars, todo, heard, received, runFailed>>

\* A loop ends when its context is cancelled, on an error, or when Core stops
\* answering its polls; its last act is to shut its view down.
LoopEnds(v) ==
  /\ pc[v] = "running"
  /\ SetOut(v, <<v>>)
  /\ UNCHANGED <<made, views, coreVars, viewVars, heard, runVars>>

FirstOnly(v) == IF received = {} THEN heard[v] ELSE runFailed  \* mistake: the second error is dropped

Joined(v) == runFailed \/ heard[v]

CancelOther == "cancelled"

\* Run receives a loop's result: with the first it cancels the other loop,
\* with the second it returns both.
ReceiveResult(v) ==
  /\ run \in {"waiting", "cancelled"}
  /\ pc[v] = "done" /\ v \notin received
  /\ received' = received \cup {v}
  /\ runFailed' = Joined(v)
  /\ run' = IF received' = Views THEN "returned" ELSE CancelOther
  /\ UNCHANGED <<made, views, coreVars, viewVars, pc, todo, heard>>

\* Worker.Shutdown, before, during or after Run.
CallShutdown(c) ==
  /\ made = "yes" /\ pc[c] = "idle"
  /\ SetOut(c, <<"workflow", "activity">>)
  /\ UNCHANGED <<made, views, coreVars, viewVars, heard, runVars>>
-----------------------------------------------------------------------------
ThreadStep(t) == AskView(t) \/ Release(t) \/ CoreStops(t)

Next ==
  \/ MakeWorkflow \/ MakeActivity \/ StartRun
  \/ \E t \in Threads : ThreadStep(t)
  \/ \E v \in Views : LoopEnds(v) \/ ReceiveResult(v)
  \/ \E c \in Callers : CallShutdown(c)

Spec == Init /\ [][Next]_vars

\* Goroutines run, Core's Shutdown returns, and a loop whose context is
\* cancelled or whose polls fail ends; a loop may run for ever otherwise, and
\* nobody has to call Shutdown.
FairSpec ==
  /\ Spec
  /\ \A t \in Threads : WF_vars(ThreadStep(t))
  /\ \A v \in Views :
       /\ WF_vars(ReceiveResult(v))
       /\ WF_vars((run = "cancelled" \/ core # "up") /\ LoopEnds(v))
-----------------------------------------------------------------------------
\* The view has been counted and nobody has taken it off the count.
Held(v) ==
  /\ v \in views
  /\ \/ once[v] = "new"
     \/ \E t \in Threads : pc[t] = "releasing" /\ Head(todo[t]) = v

\* refs is the number of views still held, whoever is halfway through giving
\* one up.
RefsMatch ==
  refs = (IF Held("workflow") THEN 1 ELSE 0) + (IF Held("activity") THEN 1 ELSE 0)

\* Core is up exactly as long as a view of it is held, or none exists yet, and
\* it is shut down once: neither under a loop that still has its view nor twice
\* by Run and Shutdown together.
CoreUpWhileHeld ==
  /\ shutdowns = (IF core = "up" THEN 0 ELSE 1)
  /\ core = "up" <=> (\E v \in Views : Held(v)) \/ views = {}

\* "Shutdown stops the Core workers. Run also shuts them down before
\* returning": either call returns only when Core is down, and with the error of
\* its shutdown, whichever call of the two reached it.
EveryoneHears ==
  /\ \A c \in Callers : pc[c] = "done" => core = "down" /\ (heard[c] <=> coreFailed)
  /\ run = "returned" => core = "down" /\ (runFailed <=> coreFailed)

\* A constructor that fails leaves no Core behind.
NoCoreLeft == made = "failed" /\ pc[Maker] = "done" => core = "down"

\* A call of Shutdown returns, whatever Run and other callers do; and Run returns
\* when a loop has ended or Core has been shut down.
CallsReturn ==
  /\ \A c \in Callers : pc[c] = "asking" ~> pc[c] = "done"
  /\ run = "waiting" /\ (core # "up" \/ \E v \in Views : pc[v] = "done") ~> run = "returned"
=============================================================================
