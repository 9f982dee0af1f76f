------------------------- MODULE WorkflowExecution -------------------------
(***************************************************************************)
(* One cached workflowExecution of internal/workflowworker: activate,      *)
(* tryApply, drive and stop in worker.go, futures and operations in        *)
(* context.go, signal channels, updates and queries. The lane of its run   *)
(* (WorkflowRunLoop) hands it one activation at a time.                    *)
(*                                                                         *)
(* Workflow code is left open: a coroutine that runs may make any call of  *)
(* the workflow API, block, return or panic. Core is left open too, except *)
(* that it sends no job twice and evicts an execution whose activation     *)
(* failed. A timer, an activity and a local activity differ only in their  *)
(* payloads: they are operations of kind "plain".                          *)
(***************************************************************************)
EXTENDS Integers, Sequences, FiniteSets, FiniteSetsExt, SequencesExt

CONSTANTS
  MaxActivations,  \* bound: activations of one behaviour
  MaxSeq,          \* bound: operations the workflow starts
  MaxManual,       \* bound: futures made by NewFuture
  MaxGo,           \* bound: coroutines started by Go
  MaxWaits,        \* bound: Receive calls that have to wait
  MaxSignals,      \* bound: signals Core delivers
  MaxUpdates,      \* bound: updates Core delivers
  MaxJobs,         \* bound: resolutions in one behaviour
  Queries,         \* whether activations ask a query: a subset of BOOLEAN
  None

Seqs == 1 .. MaxSeq

UpdateIDs == 1 .. MaxUpdates

Coroutines == 1 .. (1 + MaxUpdates + MaxGo)

\* The futures of an execution: of an operation's result, of a child's start,
\* of a blocked Receive, and those of NewFuture.
Futures ==
  ({"result", "started"} \X Seqs) \cup ({"signal"} \X (1 .. MaxWaits))
    \cup ({"manual"} \X (1 .. MaxManual))

\* Resolution jobs. "resolved" is FireTimer or ResolveActivity; the others are
\* the child-workflow jobs.
Jobs == {"resolved", "childStarted", "childStartFailed", "childDone"} \X Seqs

\* What a coroutine is for: the workflow function, a call of Go, or an update.
NoRole == <<"none", 0>>

Root == <<"root", 0>>

Spawned == <<"go", 0>>

HandlerRoles == {"update"} \X UpdateIDs

ASSUME ExecutionAssumption ==
  /\ {MaxActivations, MaxSeq, MaxManual, MaxGo, MaxWaits, MaxSignals,
      MaxUpdates, MaxJobs} \subseteq Nat
  /\ Queries \subseteq BOOLEAN
  /\ None \notin Futures
  /\ None \notin Coroutines

VARIABLES
  phase,         \* what activate is doing: see Phases
  activations,   \* activations delivered so far
  jobs,          \* the activation in hand: what is still to be delivered
  round,         \* the pending loop of activate
  drive,         \* the position of drive in its loops
  bootstrapped, terminal, registered, \* registered: an update handler is set
  commands,      \* e.commands; between activations, what the last one returned
  \* dispatcher
  count,         \* len(dispatcher.coroutines)
  role, highPriority, waiting, \* of each coroutine
  done, ran,     \* coroutines that have ended, that have begun
  current,       \* dispatcher.current
  \* futures and operations
  ready,         \* the futures that are set
  chained,       \* futureImpl.chained
  manual,        \* futures made by NewFuture
  nextSequence, kindOf, operations, \* operations: the keys of e.operations
  resolved,      \* the jobs Core has sent
  \* the signal channel
  arrived,       \* signals delivered
  buffer, waiters, waits, \* waits: blocked Receive calls so far
  got,           \* the signals handed to a receiver, in order
  \* updates
  sentUpdates, answer

activationVars == <<phase, activations, jobs, round, drive, bootstrapped>>
outputVars     == <<terminal, commands>>
coroutineVars  == <<count, role, highPriority, waiting, done, ran, current>>
futureVars     == <<ready, chained, manual>>
operationVars  == <<nextSequence, kindOf, operations, resolved>>
signalVars     == <<arrived, buffer, waiters, waits, got>>
updateVars     == <<registered, sentUpdates, answer>>

vars == <<activationVars, outputVars, coroutineVars, futureVars, operationVars,
          signalVars, updateVars>>

Phases == {"idle", "signalling", "updating", "applying", "driving", "answering",
           "panicked", "stopped"}

Answers == {"none", "accepted", "rejected", "completed"}

TypeOK ==
  /\ phase \in Phases
  /\ activations \in 0 .. MaxActivations
  /\ jobs.signals \in 0 .. MaxSignals /\ jobs.updates \in Seq(UpdateIDs) /\ jobs.query \in BOOLEAN
  /\ round.todo \in Seq(Jobs) /\ round.kept \in Seq(Jobs) /\ round.applied \in BOOLEAN
  /\ drive.for \in {"bootstrap", "retry", "final"} /\ drive.high \in BOOLEAN
  /\ drive.next \in Nat /\ drive.upto \in 0 .. count /\ drive.progressed \in BOOLEAN
  /\ {bootstrapped, terminal, registered} \subseteq BOOLEAN
  /\ count \in Coroutines
  /\ role \in [Coroutines -> {NoRole, Root, Spawned} \cup HandlerRoles]
  /\ highPriority \in [Coroutines -> BOOLEAN]
  /\ waiting \in [Coroutines -> Futures \cup {None}]
  /\ done \subseteq ran /\ ran \subseteq 1 .. count
  /\ current \in ran \cup {None}
  /\ ready \subseteq Futures
  /\ chained \in [Futures -> Seq(Futures)]
  /\ nextSequence \in 0 .. MaxSeq /\ operations \subseteq 1 .. nextSequence
  /\ kindOf \in [Seqs -> {"plain", "child", None}]
  /\ buffer \in Seq(1 .. arrived) /\ waiters \in Seq(1 .. waits)
  /\ answer \in [UpdateIDs -> Answers]

NoDrive == [for |-> "final", high |-> TRUE, next |-> 1, upto |-> 0, progressed |-> FALSE]
NoRound == [todo |-> <<>>, kept |-> <<>>, applied |-> FALSE, before |-> <<0, 0>>]
NoJobs  == [signals |-> 0, updates |-> <<>>, query |-> FALSE]

\* newWorkflowExecution and start: the root coroutine exists and has not run.
Init ==
  /\ phase = "idle" /\ activations = 0
  /\ jobs = NoJobs /\ round = NoRound /\ drive = NoDrive
  /\ bootstrapped = FALSE /\ terminal = FALSE /\ registered = FALSE
  /\ commands = <<>>
  /\ count = 1
  /\ role = [c \in Coroutines |-> IF c = 1 THEN Root ELSE NoRole]
  /\ highPriority = [c \in Coroutines |-> FALSE]
  /\ waiting = [c \in Coroutines |-> None]
  /\ done = {} /\ ran = {} /\ current = None
  /\ ready = {} /\ chained = [f \in Futures |-> <<>>] /\ manual = 0
  /\ nextSequence = 0 /\ kindOf = [s \in Seqs |-> None] /\ operations = {}
  /\ resolved = {}
  /\ arrived = 0 /\ buffer = <<>> /\ waiters = <<>> /\ waits = 0 /\ got = <<>>
  /\ sentUpdates = 0 /\ answer = [u \in UpdateIDs |-> "none"]

Emit(kind, subject) == commands' = Append(commands, <<kind, subject>>)
-----------------------------------------------------------------------------
(***************************************************************************)
(* futureImpl.set: sets the future and, depth first, those chained to it;  *)
(* it panics at the first one that is set already and leaves the rest.     *)
(* A future once set is never set again, so its chain need not be cleared. *)
(***************************************************************************)
SetOrder[depth \in 0 .. (MaxManual + 1)] ==
  [f \in Futures |->
     IF depth = 0
       THEN <<f>>
       ELSE <<f>> \o FlattenSeq([i \in DOMAIN chained[f] |-> SetOrder[depth - 1][chained[f][i]]])]

Setting(f) == SetOrder[MaxManual + 1][f]

SetTwice(order) ==
  {i \in DOMAIN order : order[i] \in ready \/ \E j \in 1 .. (i - 1) : order[j] = order[i]}

SetPanics(order) == SetTwice(order) # {}

ReadyAfter(order) ==
  ready \cup {order[i] : i \in IF SetPanics(order) THEN 1 .. (Min(SetTwice(order)) - 1)
                                                   ELSE DOMAIN order}
-----------------------------------------------------------------------------
(***************************************************************************)
(* activate: an activation arrives, its signals are delivered first, the   *)
(* first one bootstraps the coroutines, then updates start.                *)
(***************************************************************************)
Distinct(s) == \A i, j \in DOMAIN s : s[i] = s[j] => i = j

\* Core's choice; resolutions of operations not yet started come in a replay.
Deliver ==
  /\ phase = "idle"
  /\ activations < MaxActivations
  /\ activations' = activations + 1
  /\ \E signals \in 0 .. (MaxSignals - arrived), updates \in 0 .. (MaxUpdates - sentUpdates),
        query \in Queries, pending \in SeqOf(Jobs \ resolved, MaxJobs - Cardinality(resolved)) :
       /\ Distinct(pending)
       /\ jobs' = [signals |-> signals, query |-> query,
                   updates |-> [i \in 1 .. updates |-> sentUpdates + i]]
       /\ round' = [NoRound EXCEPT !.todo = pending]
       /\ sentUpdates' = sentUpdates + updates
       /\ resolved' = resolved \cup ToSet(pending)
  /\ phase' = "signalling"
  /\ commands' = <<>>
  /\ UNCHANGED <<drive, bootstrapped, terminal, coroutineVars, futureVars, nextSequence,
                 kindOf, operations, signalVars, registered, answer>>

OrdinaryFirst == FALSE  \* mistake: the two passes are swapped

\* drive visits the coroutines of updates before the others.
FirstPriority == TRUE

DriveFor(why) ==
  /\ phase' = "driving"
  /\ drive' = [for |-> why, high |-> FirstPriority, next |-> 1, upto |-> count,
               progressed |-> FALSE]

\* signalChannel.deliver: to the oldest waiting receiver, or into the buffer.
DeliverSignal ==
  /\ phase = "signalling"
  /\ jobs.signals > 0
  /\ jobs' = [jobs EXCEPT !.signals = @ - 1]
  /\ arrived' = arrived + 1
  /\ IF waiters = <<>>
       THEN /\ buffer' = Append(buffer, arrived')
            /\ UNCHANGED <<waiters, got, ready>>
       ELSE /\ ready' = ready \cup {<<"signal", Head(waiters)>>}
            /\ waiters' = Tail(waiters)
            /\ got' = Append(got, arrived')
            /\ buffer' = buffer
  /\ UNCHANGED <<phase, activations, round, drive, bootstrapped, outputVars, coroutineVars,
                 chained, manual, operationVars, waits, updateVars>>

SignalsDelivered ==
  /\ phase = "signalling"
  /\ jobs.signals = 0
  /\ IF bootstrapped THEN phase' = "updating" /\ drive' = drive
                     ELSE DriveFor("bootstrap")
  /\ UNCHANGED <<activations, jobs, round, bootstrapped, outputVars, coroutineVars,
                 futureVars, operationVars, signalVars, updateVars>>

\* An activation that ends in an error: handleActivationLocked stops the
\* execution and drops it. Code that stop resumes can no longer do anything.
Fail ==
  /\ phase' = "stopped"
  /\ current' = None

AddCoroutine(as, high) ==
  /\ count' = count + 1
  /\ role' = [role EXCEPT ![count + 1] = as]
  /\ highPriority' = [highPriority EXCEPT ![count + 1] = high]

\* startUpdate: rejected without a handler, or by decoding or the validator.
StartUpdate ==
  /\ phase = "updating"
  /\ jobs.updates # <<>>
  /\ jobs' = [jobs EXCEPT !.updates = Tail(@)]
  /\ LET u == Head(jobs.updates)
     IN  \/ /\ answer' = [answer EXCEPT ![u] = "rejected"]
            /\ Emit("rejected", u)
            /\ UNCHANGED <<count, role, highPriority>>
         \/ /\ registered
            /\ answer' = [answer EXCEPT ![u] = "accepted"]
            /\ Emit("accepted", u)
            /\ AddCoroutine(<<"update", u>>, TRUE)
  /\ UNCHANGED <<phase, activations, round, drive, bootstrapped, terminal, waiting, done,
                 ran, current, futureVars, operationVars, signalVars, registered, sentUpdates>>

UpdatesStarted ==
  /\ phase = "updating"
  /\ jobs.updates = <<>>
  /\ phase' = "applying"
  /\ UNCHANGED <<activations, jobs, round, drive, bootstrapped, outputVars, coroutineVars,
                 futureVars, operationVars, signalVars, updateVars>>
-----------------------------------------------------------------------------
(***************************************************************************)
(* tryApply, for the first job of the round that is still to be tried.     *)
(***************************************************************************)
KeepOperation(s) == operations  \* mistake: the operation is not deleted

RemoveOperation(s) == operations \ {s}

\* The futures a job sets, in order, and whether it ends its operation.
Sets(job) ==
  CASE job[1] = "childStarted"     -> Setting(<<"started", job[2]>>)
    [] job[1] = "childStartFailed" -> Setting(<<"started", job[2]>>) \o Setting(<<"result", job[2]>>)
    [] OTHER                       -> Setting(<<"result", job[2]>>)

\* The wrong kind of operation, or a child that completes before it started.
Mismatched(job) ==
  \/ (job[1] = "resolved") # (kindOf[job[2]] = "plain")
  \/ job[1] = "childDone" /\ <<"started", job[2]>> \notin ready

KeepJob ==
  /\ phase = "applying" /\ round.todo # <<>>
  /\ Head(round.todo)[2] \notin operations
  /\ round' = [round EXCEPT !.todo = Tail(@), !.kept = Append(@, Head(round.todo))]
  /\ UNCHANGED <<phase, activations, jobs, drive, bootstrapped, outputVars, coroutineVars,
                 futureVars, operationVars, signalVars, updateVars>>

\* A panic in set leaves activate before the operation is deleted, and nothing
\* stops the execution: it stays in the cache as it is.
ApplyJob ==
  /\ phase = "applying" /\ round.todo # <<>>
  /\ LET job == Head(round.todo)
     IN  /\ job[2] \in operations
         /\ \/ /\ Mismatched(job)
               /\ Fail
               /\ UNCHANGED <<round, ready, operations>>
            \/ /\ ~Mismatched(job)
               /\ ready' = ReadyAfter(Sets(job))
               /\ IF SetPanics(Sets(job))
                    THEN phase' = "panicked" /\ UNCHANGED <<round, operations>>
                    ELSE /\ round' = [round EXCEPT !.todo = Tail(@), !.applied = TRUE]
                         /\ operations' = IF job[1] = "childStarted" THEN operations
                                                                     ELSE RemoveOperation(job[2])
                         /\ phase' = phase
               /\ current' = current
  /\ UNCHANGED <<activations, jobs, drive, bootstrapped, outputVars, count, role, highPriority,
                 waiting, done, ran, chained, manual, nextSequence, kindOf, resolved, signalVars,
                 updateVars>>

\* The round is over: the last drive if every job was applied, else a drive
\* that may start the operations the others are for.
RoundOver ==
  /\ phase = "applying" /\ round.todo = <<>>
  /\ DriveFor(IF round.kept = <<>> THEN "final" ELSE "retry")
  /\ round' = [round EXCEPT !.before = <<nextSequence, Cardinality(operations)>>]
  /\ UNCHANGED <<activations, jobs, bootstrapped, outputVars, coroutineVars, futureVars,
                 operationVars, signalVars, updateVars>>
-----------------------------------------------------------------------------
(***************************************************************************)
(* drive: passes over the coroutines until none can run. Within a pass the *)
(* loop over one priority sees the coroutines that existed when it began.  *)
(***************************************************************************)
CanRun(c) ==
  /\ c \notin done
  /\ waiting[c] = None \/ waiting[c] \in ready

Candidates == {c \in drive.next .. drive.upto : highPriority[c] = drive.high /\ CanRun(c)}

RunOn == FALSE  \* mistake: drive ignores the end of the workflow

DriveStops == terminal

Driving == phase = "driving" /\ current = None

Resume ==
  /\ Driving /\ ~DriveStops
  /\ Candidates # {}
  /\ current' = Min(Candidates)
  /\ waiting' = [waiting EXCEPT ![current'] = None]
  /\ ran' = ran \cup {current'}
  /\ drive' = [drive EXCEPT !.next = current' + 1, !.progressed = TRUE]
  /\ UNCHANGED <<phase, activations, jobs, round, bootstrapped, outputVars, count, role,
                 highPriority, done, futureVars, operationVars, signalVars, updateVars>>

PassOnce == FALSE  \* mistake: drive makes one pass

AnotherPass == drive.progressed

NextLoop ==
  /\ Driving /\ ~DriveStops
  /\ Candidates = {}
  /\ \/ /\ drive.high = FirstPriority
        /\ drive' = [drive EXCEPT !.high = ~FirstPriority, !.next = 1, !.upto = count]
     \/ /\ drive.high # FirstPriority /\ AnotherPass
        /\ drive' = [drive EXCEPT !.high = FirstPriority, !.next = 1, !.upto = count,
                                  !.progressed = FALSE]
  /\ UNCHANGED <<phase, activations, jobs, round, bootstrapped, outputVars, coroutineVars,
                 futureVars, operationVars, signalVars, updateVars>>

NeverStuck == FALSE  \* mistake: the pending loop has no way out

\* The pending loop gives up: a round applied nothing and the drive after it
\* started nothing.
Stuck ==
  /\ ~round.applied
  /\ round.before = <<nextSequence, Cardinality(operations)>>

DriveReturns ==
  /\ Driving
  /\ DriveStops \/ (Candidates = {} /\ drive.high # FirstPriority /\ ~AnotherPass)
  /\ \/ /\ drive.for = "bootstrap"
        /\ bootstrapped' = TRUE /\ phase' = "updating"
        /\ UNCHANGED <<round, current>>
     \/ /\ drive.for = "retry" /\ Stuck
        /\ Fail
        /\ UNCHANGED <<round, bootstrapped>>
     \/ /\ drive.for = "retry" /\ ~Stuck
        /\ round' = [round EXCEPT !.todo = round.kept, !.kept = <<>>, !.applied = FALSE]
        /\ phase' = "applying"
        /\ UNCHANGED <<bootstrapped, current>>
     \/ /\ drive.for = "final"
        /\ phase' = "answering"
        /\ UNCHANGED <<round, bootstrapped, current>>
  /\ UNCHANGED <<activations, jobs, drive, outputVars, count, role, highPriority, waiting,
                 done, ran, futureVars, operationVars, signalVars, updateVars>>

\* Queries come last, and the activation returns its commands.
AnswerQueries ==
  /\ phase = "answering"
  /\ phase' = "idle"
  /\ IF jobs.query THEN Emit("query", None) ELSE UNCHANGED commands
  /\ jobs' = NoJobs /\ round' = NoRound /\ drive' = NoDrive
  /\ UNCHANGED <<activations, bootstrapped, terminal, coroutineVars, futureVars, operationVars,
                 signalVars, updateVars>>

\* RemoveFromCache, or the worker's end. After a panic Core sends nothing else.
Evict ==
  /\ phase \in {"idle", "panicked"}
  /\ Fail
  /\ UNCHANGED <<activations, jobs, round, drive, bootstrapped, outputVars, count, role,
                 highPriority, waiting, done, ran, futureVars, operationVars, signalVars,
                 updateVars>>
-----------------------------------------------------------------------------
(***************************************************************************)
(* The workflow API, called by the coroutine that runs.                    *)
(***************************************************************************)
Exists(f) ==
  CASE f[1] = "result"  -> f[2] <= nextSequence
    [] f[1] = "started" -> f[2] <= nextSequence /\ kindOf[f[2]] = "child"
    [] f[1] = "signal"  -> FALSE
    [] f[1] = "manual"  -> f[2] <= manual

StaleSequence == nextSequence  \* mistake: the number before the increment

NextSeq == nextSequence + 1

\* NewTimer, ExecuteActivity, ExecuteLocalActivity ("plain"), and
\* ExecuteChildWorkflow ("child").
StartOperation ==
  /\ current # None
  /\ nextSequence < MaxSeq
  /\ nextSequence' = nextSequence + 1
  /\ operations' = operations \cup {NextSeq}
  /\ \E kind \in {"plain", "child"} : kindOf' = [kindOf EXCEPT ![NextSeq] = kind]
  /\ Emit("start", NextSeq)
  /\ UNCHANGED <<activationVars, terminal, coroutineVars, futureVars, resolved, signalVars,
                 updateVars>>

\* A coroutine inherits the update, hence the priority, of the one that starts it.
Go ==
  /\ current # None
  /\ Cardinality({c \in Coroutines : role[c] = Spawned}) < MaxGo
  /\ AddCoroutine(Spawned, highPriority[current])
  /\ UNCHANGED <<activationVars, outputVars, waiting, done, ran, current, futureVars,
                 operationVars, signalVars, updateVars>>

NewFuture ==
  /\ current # None
  /\ manual < MaxManual
  /\ manual' = manual + 1
  /\ UNCHANGED <<activationVars, outputVars, coroutineVars, ready, chained, operationVars,
                 signalVars, updateVars>>

\* Settable.Set. If a chained future is set already the call panics after the
\* effect; the code may recover and go on, or end its coroutine (CoroutineFails).
SetFuture(m) ==
  /\ current # None
  /\ Exists(<<"manual", m>>) /\ <<"manual", m>> \notin ready
  /\ ready' = ReadyAfter(Setting(<<"manual", m>>))
  /\ UNCHANGED <<activationVars, outputVars, coroutineVars, chained, manual, operationVars,
                 signalVars, updateVars>>

\* Settable.Chain.
ChainFuture(m, other) ==
  /\ current # None
  /\ Exists(<<"manual", m>>) /\ <<"manual", m>> \notin ready
  /\ Exists(other)
  /\ IF other \in ready
       THEN ready' = ReadyAfter(Setting(<<"manual", m>>)) /\ chained' = chained
       ELSE /\ chained' = [chained EXCEPT ![other] = Append(@, <<"manual", m>>)]
            /\ Len(chained'[other]) <= MaxManual
            /\ ready' = ready
  /\ UNCHANGED <<activationVars, outputVars, coroutineVars, manual, operationVars, signalVars,
                 updateVars>>

Block(f) ==
  /\ waiting' = [waiting EXCEPT ![current] = f]
  /\ current' = None
  /\ UNCHANGED <<count, role, highPriority, done, ran>>

\* Future.Get of a future that is not set.
Get(f) ==
  /\ current # None
  /\ Exists(f) /\ f \notin ready
  /\ Block(f)
  /\ UNCHANGED <<activationVars, outputVars, futureVars, operationVars, signalVars, updateVars>>

NeverBuffered == TRUE  \* mistake: Receive does not look into the buffer

NothingBuffered == buffer = <<>>

\* Receive, or ReceiveAsync when a signal is there.
TakeSignal ==
  /\ current # None
  /\ ~NothingBuffered
  /\ got' = Append(got, Head(buffer))
  /\ buffer' = Tail(buffer)
  /\ UNCHANGED <<activationVars, outputVars, coroutineVars, futureVars, operationVars, arrived,
                 waiters, waits, updateVars>>

WaitForSignal ==
  /\ current # None
  /\ NothingBuffered
  /\ waits < MaxWaits
  /\ waits' = waits + 1
  /\ waiters' = Append(waiters, waits')
  /\ Block(<<"signal", waits'>>)
  /\ UNCHANGED <<activationVars, outputVars, futureVars, operationVars, arrived, buffer, got,
                 updateVars>>

SetUpdateHandler ==
  /\ current # None
  /\ ~registered
  /\ registered' = TRUE
  /\ UNCHANGED <<activationVars, outputVars, coroutineVars, futureVars, operationVars,
                 signalVars, sentUpdates, answer>>

EndCoroutine ==
  /\ done' = done \cup {current}
  /\ current' = None
  /\ UNCHANGED <<count, role, highPriority, waiting, ran>>

ForgetAnswer(verdict) == answer  \* mistake: the handler's outcome is not emitted

HandlerAnswer(verdict) == [answer EXCEPT ![role[current][2]] = verdict]

\* The function of the coroutine returns, with or without an error.
CoroutineReturns ==
  /\ current # None
  /\ EndCoroutine
  /\ \/ /\ role[current] = Root
        /\ terminal' = TRUE
        /\ \E kind \in {"complete", "fail"} : Emit(kind, None)
        /\ answer' = answer
     \/ /\ role[current] \in HandlerRoles
        /\ \E verdict \in {"completed", "rejected"} :
             Emit(verdict, role[current][2]) /\ answer' = HandlerAnswer(verdict)
        /\ terminal' = terminal
     \/ /\ role[current] = Spawned
        /\ UNCHANGED <<outputVars, answer>>
  /\ UNCHANGED <<activationVars, futureVars, operationVars, signalVars, registered, sentUpdates>>

\* It panics: the root's panic is an error of the workflow, as is one of an
\* ordinary coroutine; one of an update's coroutine fails the activation.
CoroutineFails ==
  /\ current # None
  /\ EndCoroutine
  /\ IF highPriority[current]
       THEN phase' = "stopped" /\ UNCHANGED outputVars
       ELSE phase' = phase /\ terminal' = TRUE /\ Emit("fail", None)
  /\ UNCHANGED <<activations, jobs, round, drive, bootstrapped, futureVars, operationVars,
                 signalVars, updateVars>>
-----------------------------------------------------------------------------
WorkflowCode ==
  \/ StartOperation \/ Go \/ NewFuture \/ TakeSignal \/ WaitForSignal \/ SetUpdateHandler
  \/ CoroutineReturns \/ CoroutineFails
  \/ \E m \in 1 .. MaxManual : SetFuture(m) \/ \E f \in Futures : ChainFuture(m, f)
  \/ \E f \in Futures : Get(f)

Activate ==
  \/ DeliverSignal \/ SignalsDelivered \/ StartUpdate \/ UpdatesStarted
  \/ KeepJob \/ ApplyJob \/ RoundOver
  \/ Resume \/ NextLoop \/ DriveReturns \/ AnswerQueries

Next == Deliver \/ Evict \/ Activate \/ WorkflowCode

Spec == Init /\ [][Next]_vars

\* One goroutine runs activate and, by turns, the coroutines. Workflow code
\* reaches its next blocking call or its end: its calls are bounded here.
FairSpec == Spec /\ WF_vars(Activate \/ WorkflowCode)
-----------------------------------------------------------------------------
\* An activation that returns leaves no coroutine that could still run: every
\* signal, resolution and value that arrived has had its effect before the
\* commands go to Core, whatever woke what in which pass.
NothingLeftToRun ==
  phase = "idle" /\ bootstrapped /\ ~terminal =>
    \A c \in 1 .. count : ~CanRun(c)

\* The table of outstanding operations and the futures agree: an operation is
\* in it from the command that starts it until its result is set, once, and a
\* child's result is never set before its start.
OperationsTracked ==
  phase \notin {"panicked", "stopped"} =>
    \A s \in Seqs :
      /\ s \in operations <=> s <= nextSequence /\ <<"result", s>> \notin ready
      /\ kindOf[s] = "child" /\ <<"result", s>> \in ready => <<"started", s>> \in ready

\* "Signals are buffered until a receiver consumes them, and each signal is
\* delivered once": receivers get the signals in order of arrival, the buffer
\* holds exactly the rest, and no receiver waits while there is one.
SignalsDeliveredOnce ==
  /\ got \o buffer = [i \in 1 .. arrived |-> i]
  /\ buffer # <<>> => waiters = <<>>
  /\ \A k \in 1 .. waits :
       <<"signal", k>> \in ready <=> \A i \in DOMAIN waiters : waiters[i] # k

\* "Later activations do not run ordinary workflow code before updates": once
\* bootstrapped, ordinary code runs only when every accepted update has begun.
UpdatesFirst ==
  current # None /\ bootstrapped /\ ~highPriority[current] =>
    \A c \in 1 .. count : role[c] \in HandlerRoles => c \in ran

\* The commands made by coroutines. The dispatcher's own answers to an update, its
\* acceptance and its rejection, are not among them.
OfWorkflow == {"start", "completed", "complete", "fail"}

\* The workflow's completion or failure is the last command of its coroutines:
\* nothing they do is sent after it, in the same activation or a later one. Only the
\* acceptance or rejection of an update, which activate sends itself, may follow (see
\* AcceptedHandlerRuns), and the answers to queries, which end an activation.
TerminalIsLast ==
  /\ \A i, j \in DOMAIN commands :
       i < j => /\ commands[i][1] \in {"complete", "fail"} => commands[j][1] \notin OfWorkflow
                /\ commands[i][1] = "query" => commands[j][1] = "query"
  /\ terminal /\ (\A i \in DOMAIN commands : commands[i][1] \notin {"complete", "fail"}) =>
       \A i \in DOMAIN commands : commands[i][1] \notin OfWorkflow

\* An update that has been accepted and not yet answered has a coroutine that
\* is not finished: none falls silent while its workflow runs.
AcceptedIsPending ==
  phase # "stopped" =>
    \A u \in UpdateIDs :
      answer[u] = "accepted" => \E c \in 1 .. count : role[c] = <<"update", u>> /\ c \notin done

\* An activation comes to an end: the loop that retries jobs whose operations
\* have not started yet makes progress or gives up.
ActivationEnds ==
  (phase = "signalling") ~> (phase \in {"idle", "panicked", "stopped"})

\* "Once accepted, each handler runs in its own deterministic workflow
\* coroutine": when the activation that accepted an update returns, the handler
\* has begun.
AcceptedHandlerRuns ==
  phase = "idle" =>
    \A c \in 1 .. count : role[c] \in HandlerRoles => c \in ran
=============================================================================
