--------------------------- MODULE CompletionPipe ---------------------------
(***************************************************************************)
(* internal/completionpipe/completionpipe.go: the bounded pipeline between *)
(* a worker's run loop and Core's Complete calls.                          *)
(*                                                                         *)
(* A caller hands a ticket to Enqueue. An accepted ticket either gets a    *)
(* goroutine of its own at once or waits in queue; the goroutine (Run in   *)
(* the code) calls Submit, calls AfterSubmit, sends the Result on a channel*)
(* of capacity limit, and then passes its place to the head of queue. A    *)
(* consumer receives the Result and calls Finalize, which gives back the   *)
(* ticket's share of outstanding and totalWeight. Everything under         *)
(* pipeline.mu is one action.                                              *)
(***************************************************************************)
EXTENDS Integers, Sequences, FiniteSets, FiniteSetsExt

CONSTANTS
  Tickets,       \* identities of the tickets handed to Enqueue
  Weight,        \* Weight[t]: the Weight field of ticket t
  NilSubmit,     \* the tickets that carry no Submit function
  LimitArg,      \* the limit argument of New
  ItemsOption,   \* the argument of WithMaxOutstanding, or NoOption
  WeightOption,  \* the argument of WithMaxWeight, or NoOption
  NoOption

ASSUME TicketsAssumption ==
  /\ Weight \in [Tickets -> Int]
  /\ NilSubmit \subseteq Tickets

ASSUME OptionsAssumption ==
  /\ LimitArg \in Int
  /\ NoOption \notin Int
  /\ ItemsOption \in Int \cup {NoOption}
  /\ WeightOption \in Int \cup {NoOption}

\* New, WithMaxOutstanding and WithMaxWeight raise what they are given to 1.
AtLeastOne(n) == IF n < 1 THEN 1 ELSE n

Limit == AtLeastOne(LimitArg)

\* New: twice the limit unless the option says otherwise, never below limit.
MaxItems ==
  LET asked == IF ItemsOption = NoOption THEN Limit * 2 ELSE AtLeastOne(ItemsOption)
  IN  IF asked < Limit THEN Limit ELSE asked

DefaultMaxOutstandingWeight == 67108864

MaxWeight ==
  IF WeightOption = NoOption THEN DefaultMaxOutstandingWeight
                             ELSE AtLeastOne(WeightOption)

VARIABLES
  stage,        \* where each ticket is: see Stages
  outcome,      \* what its Submit returned
  report,       \* where its Result is: see Reports
  queue,        \* pipeline.queue
  results,      \* the buffered channel pipeline.results
  active,       \* pipeline.active
  outstanding,  \* pipeline.outstanding
  totalWeight   \* pipeline.totalWeight

vars == <<stage, outcome, report, queue, results, active, outstanding, totalWeight>>

\* The places of the goroutine that runs one ticket.
RunStages == {"submitting", "afterSubmit", "sending", "leaving"}
Stages    == {"new", "refused", "rejected", "queued", "done"} \cup RunStages
Reports   == {"none", "sent", "received", "finalized"}

TypeOK ==
  /\ stage \in [Tickets -> Stages]
  /\ outcome \in [Tickets -> {"none", "ok", "failed"}]
  /\ report \in [Tickets -> Reports]
  /\ queue \in Seq(Tickets)
  /\ results \in Seq(Tickets)
  /\ active \in 0 .. Limit
  /\ outstanding \in 0 .. MaxItems
  /\ totalWeight \in Int

Init ==
  /\ stage = [t \in Tickets |-> "new"]
  /\ outcome = [t \in Tickets |-> "none"]
  /\ report = [t \in Tickets |-> "none"]
  /\ queue = <<>>
  /\ results = <<>>
  /\ active = 0
  /\ outstanding = 0
  /\ totalWeight = 0
-----------------------------------------------------------------------------
(***************************************************************************)
(* Enqueue. One call is one of the four actions below.                     *)
(***************************************************************************)
NormalizedWeight(t) == IF Weight[t] = 0 THEN 1 ELSE Weight[t]

OverWeightAlone(t) == NormalizedWeight(t) > MaxWeight  \* mistake: forgets what is held

OverWeight(t) ==
  \/ NormalizedWeight(t) > MaxWeight
  \/ totalWeight > MaxWeight - NormalizedWeight(t)

AtCapacityLate(t) == outstanding > MaxItems \/ OverWeight(t)  \* mistake: off by one

AtCapacity(t) == outstanding >= MaxItems \/ OverWeight(t)

SlotFreeLate == active <= Limit  \* mistake: off by one

SlotFree == active < Limit

\* A ticket without Submit is an error and its Finalize hook does not run.
EnqueueRefused(t) ==
  /\ stage[t] = "new"
  /\ t \in NilSubmit
  /\ stage' = [stage EXCEPT ![t] = "refused"]
  /\ UNCHANGED <<outcome, report, queue, results, active, outstanding, totalWeight>>

\* ErrInvalidSize or ErrAtCapacity: reject runs the Finalize hook.
EnqueueRejected(t) ==
  /\ stage[t] = "new"
  /\ t \notin NilSubmit
  /\ Weight[t] < 0 \/ AtCapacity(t)
  /\ stage' = [stage EXCEPT ![t] = "rejected"]
  /\ UNCHANGED <<outcome, report, queue, results, active, outstanding, totalWeight>>

EnqueueAccepted(t) ==
  /\ stage[t] = "new"
  /\ t \notin NilSubmit
  /\ Weight[t] >= 0
  /\ ~AtCapacity(t)
  /\ outstanding' = outstanding + 1
  /\ totalWeight' = totalWeight + NormalizedWeight(t)
  /\ IF SlotFree
       THEN /\ active' = active + 1
            /\ stage' = [stage EXCEPT ![t] = "submitting"]
            /\ queue' = queue
       ELSE /\ queue' = Append(queue, t)
            /\ stage' = [stage EXCEPT ![t] = "queued"]
            /\ active' = active
  /\ UNCHANGED <<outcome, report, results>>

Enqueue(t) == EnqueueRefused(t) \/ EnqueueRejected(t) \/ EnqueueAccepted(t)
-----------------------------------------------------------------------------
(***************************************************************************)
(* The goroutine of one ticket.                                            *)
(***************************************************************************)
Submit(t) ==
  /\ stage[t] = "submitting"
  /\ \E verdict \in {"ok", "failed"} : outcome' = [outcome EXCEPT ![t] = verdict]
  /\ stage' = [stage EXCEPT ![t] = "afterSubmit"]
  /\ UNCHANGED <<report, queue, results, active, outstanding, totalWeight>>

AfterSubmit(t) ==
  /\ stage[t] = "afterSubmit"
  /\ stage' = [stage EXCEPT ![t] = "sending"]
  /\ UNCHANGED <<outcome, report, queue, results, active, outstanding, totalWeight>>

ResultsFullLate == Len(results) > Limit  \* mistake: a channel one larger

ResultsFull == Len(results) >= Limit

\* The send blocks while the channel holds limit results.
SendResult(t) ==
  /\ stage[t] = "sending"
  /\ ~ResultsFull
  /\ results' = Append(results, t)
  /\ report' = [report EXCEPT ![t] = "sent"]
  /\ stage' = [stage EXCEPT ![t] = "leaving"]
  /\ UNCHANGED <<outcome, queue, active, outstanding, totalWeight>>

NeverTakesNext == TRUE  \* mistake: a finished goroutine ignores the queue

NothingQueued == queue = <<>>

\* finishAndTakeNext, and `go pipeline.run(*next)` for the ticket it took.
FinishAndTakeNext(t) ==
  /\ stage[t] = "leaving"
  /\ IF NothingQueued
       THEN /\ active' = active - 1
            /\ stage' = [stage EXCEPT ![t] = "done"]
            /\ queue' = queue
       ELSE /\ active' = (active - 1) + 1
            /\ stage' = [stage EXCEPT ![t] = "done", ![Head(queue)] = "submitting"]
            /\ queue' = Tail(queue)
  /\ UNCHANGED <<outcome, report, results, outstanding, totalWeight>>
-----------------------------------------------------------------------------
(***************************************************************************)
(* The consumer of Results().                                              *)
(***************************************************************************)
Receive(t) ==
  /\ results # <<>>
  /\ t = Head(results)
  /\ results' = Tail(results)
  /\ report' = [report EXCEPT ![t] = "received"]
  /\ UNCHANGED <<stage, outcome, queue, active, outstanding, totalWeight>>

MayFinalizeAgain(t) == report[t] \in {"received", "finalized"}  \* mistake: no sync.Once

MayFinalize(t) == report[t] = "received"

\* Result.Finalize under its sync.Once. The ticket's own hook runs just before
\* the counters change; no user of the pipeline can tell the two apart.
Finalize(t) ==
  /\ MayFinalize(t)
  /\ report' = [report EXCEPT ![t] = "finalized"]
  /\ outstanding' = outstanding - 1
  /\ totalWeight' = totalWeight - NormalizedWeight(t)
  /\ UNCHANGED <<stage, outcome, queue, results, active>>
-----------------------------------------------------------------------------
Run(t) == Submit(t) \/ AfterSubmit(t) \/ SendResult(t) \/ FinishAndTakeNext(t)

Consume(t) == Receive(t) \/ Finalize(t)

Next == \E t \in Tickets : Enqueue(t) \/ Run(t) \/ Consume(t)

Spec == Init /\ [][Next]_vars

\* Goroutines are scheduled by the Go runtime; the consumer keeps receiving
\* and finalising. Callers owe nothing.
Fairness == \A t \in Tickets : WF_vars(Run(t)) /\ WF_vars(Consume(t))

FairSpec == Spec /\ Fairness
-----------------------------------------------------------------------------
Accepted == {t \in Tickets : stage[t] \notin {"new", "refused", "rejected"}}
Running  == {t \in Tickets : stage[t] \in RunStages}
Live     == {t \in Accepted : report[t] # "finalized"}

\* pipeline.active and pipeline.outstanding are changed in four places, by
\* three kinds of goroutine; they must always count exactly the tickets that
\* hold a slot and the accepted tickets whose Result is not finalized. A lost
\* or doubled update would let more than limit submissions run, or leave a
\* run loop waiting forever for Outstanding() = 0.
CountersMatch ==
  /\ active = Cardinality(Running)
  /\ outstanding = Cardinality(Live)

\* pipeline.totalWeight is the weight of exactly the live tickets and never
\* exceeds maxWeight, so that the 64 MiB cap on retained completion payloads
\* holds and the subtraction in Finalize never goes below zero.
WeightMatches ==
  /\ totalWeight = MapThenSumSet(NormalizedWeight, Live)
  /\ totalWeight <= MaxWeight

\* A ticket may sit in the queue only while every submission slot is taken:
\* no accepted ticket is stranded when a goroutine exits.
WorkConserving == queue # <<>> => active = Limit

\* The queue holds exactly the queued tickets, the results channel exactly the
\* tickets whose result is sent and not received, neither holds one twice, and
\* a result exists only once the goroutine is past its send.
ChannelsConsistent ==
  /\ \A t \in Tickets :
       /\ stage[t] = "queued" <=> \E i \in DOMAIN queue : queue[i] = t
       /\ report[t] = "sent" <=> \E i \in DOMAIN results : results[i] = t
       /\ report[t] # "none" <=> stage[t] \in {"leaving", "done"}
  /\ \A i, j \in DOMAIN queue : queue[i] = queue[j] => i = j
  /\ \A i, j \in DOMAIN results : results[i] = results[j] => i = j
  /\ Len(results) <= Limit

\* Every accepted ticket is submitted, reported, received and finalized: its
\* room is given back, whatever Submit returned and however full the results
\* channel is. Loops that drain wait for exactly this: once no more tickets
\* come, and Tickets are finitely many, none is left.
AcceptedIsReleased == <>[](Live = {})
-----------------------------------------------------------------------------
(***************************************************************************)
(* The refinement mapping to what the pipeline promises.                   *)
(***************************************************************************)
Returned == {t \in Tickets : stage[t] \in {"afterSubmit", "sending", "leaving", "done"}}

Promise == INSTANCE CompletionPromise WITH
  Load       <- NormalizedWeight,
  WellFormed <- {t \in Tickets \ NilSubmit : Weight[t] >= 0},
  turnedAway <- {t \in Tickets : stage[t] \in {"refused", "rejected"}},
  accepted   <- Accepted,
  line       <- queue,
  busy       <- Running,
  answered   <- Returned,
  delivered  <- {t \in Tickets : report[t] \in {"received", "finalized"}},
  live       <- Live,
  load       <- totalWeight

\* The pipeline's counters, goroutines and channels implement the promise:
\* capacity is decided on what is really outstanding, slots go to waiting
\* tickets in order of acceptance, and each ticket is answered and delivered
\* once.
KeepsPromise == Promise!Spec
=============================================================================
