------------------------ MODULE WorkflowRunLoopProofs ------------------------
(***************************************************************************)
(* Proofs about WorkflowRunLoop, for any number of activations and runs,   *)
(* any offers, weights and limit, with a Shutdown at any moment. The       *)
(* completions go through a pipeline, so the lemmas of                     *)
(* CompletionPipeProofs are used through an instance of it.                *)
(***************************************************************************)
EXTENDS WorkflowRunLoop, FiniteSetTheorems, TLAPS

PP == INSTANCE CompletionPipeWeightProofs WITH
  Tickets <- Activations, NilSubmit <- {}, LimitArg <- MaxTasks,
  ItemsOption <- None, WeightOption <- None, NoOption <- None

PipeOK == PP!IInv /\ PP!OutcomesKnown

LoopTypes ==
  /\ delivered \in 0 .. MaxActivations
  /\ run \in [Activations -> Runs \cup {None}]
  /\ kind \in [Activations -> Kinds \cup {None}]
  /\ poller \in PollerStates
  /\ ctxCancelled \in BOOLEAN
  /\ state \in {"running", "draining", "finished"}
  /\ pollOpen \in BOOLEAN
  /\ failed \in BOOLEAN
  /\ activeProcessors \in 0 .. MaxTasks
  /\ proc \in [Activations -> ProcessorStates]
  /\ cached \in [Runs -> Activations \cup {None}]
  /\ execution \in [Activations -> Activations \cup {None}]
  /\ live \subseteq Activations
  /\ displacedBy \in [Activations -> Activations \cup {None}]
  /\ runLocks \in [Runs -> Activations \cup {None}]
  /\ laneOf \in [Activations -> Activations \cup {None}]
  /\ ready \in [Activations -> Activations \cup {None}]
  /\ tail \in [Activations -> Activations \cup {None}]
  /\ refs \in [Activations -> Nat]
  /\ done \subseteq Activations
  /\ shutdown \in BOOLEAN
  /\ toStop \subseteq Activations

\* The activations the run loop has taken from the poller.
Taken == {a \in 1 .. delivered : ~(poller = "offering" /\ a = delivered)}

\* An activation taken is with its processor until its completion is enqueued.
FeedMatches ==
  /\ poller = "offering" => delivered \in Activations
  /\ ~pollOpen => poller = "closed"
  /\ \A a \in Activations \ Taken : proc[a] = "none" /\ stage[a] = "new" /\ laneOf[a] = None
  /\ \A a \in Taken : proc[a] \in {"none", "gone"} <=> stage[a] # "new"
  /\ \A a \in Activations : stage[a] # "refused" /\ (stage[a] = "rejected" => failed)

Handling == {"waiting", "evicting", "activating", "answering"}

Busy == {a \in Activations : proc[a] \in Handling \cup {"sending"}}

\* The completion is past the point where the pipeline gives its turn back.
Released(a) == stage[a] \in {"sending", "leaving", "done", "rejected"}

TurnsMatch ==
  /\ activeProcessors = Cardinality(Busy)
  /\ \A a \in Activations : laneOf[a] # None => run[a] \in Runs /\ proc[a] # "none"
  /\ \A a \in Activations : proc[a] \in Handling => laneOf[a] # None
  /\ \A a \in Activations : a \in done <=> laneOf[a] # None /\ Released(a)

Laned == {a \in Activations : laneOf[a] # None}

\* A lane is known by the activation that made it, and belongs to one run.
LaneShape ==
  /\ \A a \in Activations :
       laneOf[a] # None => laneOf[laneOf[a]] = laneOf[a] /\ run[laneOf[a]] = run[a]
  /\ \A r \in Runs :
       runLocks[r] # None => laneOf[runLocks[r]] = runLocks[r] /\ run[runLocks[r]] = r

\* The turns of a lane are chained in the order of their activations.
LaneChain ==
  /\ \A l, a \in Activations : laneOf[a] = l => tail[l] # None /\ a <= tail[l]
  /\ \A l \in Activations : tail[l] # None => laneOf[tail[l]] = l
  /\ \A a, b \in Activations :
       laneOf[b] # None /\ laneOf[a] = laneOf[b] /\ a < b => ready[b] # None /\ a <= ready[b]
  /\ \A b \in Activations :
       laneOf[b] # None /\ ready[b] # None => laneOf[ready[b]] = laneOf[b] /\ ready[b] < b

\* One turn of a lane at a time is past its wait.
LaneOrder ==
  \A a, b \in Activations :
    laneOf[b] # None /\ laneOf[a] = laneOf[b] /\ a < b /\ proc[b] # "waiting" => a \in done

\* Until Shutdown, whoever comes while a turn of the run is held joins its lane.
LaneShared ==
  ~shutdown =>
    \A a \in TurnHolders, b \in Activations :
      laneOf[b] # None /\ a < b /\ run[a] = run[b] => laneOf[a] = laneOf[b]

\* An execution is made, and deleted from the cache, by activations with a turn.
ExecutionsNamed ==
  /\ live \subseteq Laned
  /\ \A r \in Runs : cached[r] \in Laned \cup {None}
  /\ \A e \in Activations : displacedBy[e] \in Laned \cup {None}

\* A processor drives the execution that its run has, unless that was dropped;
\* what the run has instead is of another lane, which takes a Shutdown.
CacheMatches ==
  /\ ~shutdown => toStop = {}
  /\ ExecutionsNamed
  /\ \A a \in Activations :
       proc[a] \in {"evicting", "activating"} =>
         \/ cached[run[a]] \in {execution[a], None}
         \/ shutdown /\ laneOf[a] # laneOf[cached[run[a]]]

EndMatches ==
  /\ state # "running" => ctxCancelled \/ failed
  /\ state = "finished" => ~pollOpen /\ activeProcessors = 0 /\ outstanding = 0

LaneInv == LaneShape /\ LaneChain /\ LaneOrder /\ LaneShared /\ LanesAccounted

IInv ==
  /\ PipeOK /\ LoopTypes
  /\ FeedMatches /\ TurnsMatch /\ LaneInv
  /\ CacheMatches /\ NoExecutionLost /\ EndMatches
-----------------------------------------------------------------------------
(***************************************************************************)
(* The pipeline of the specification is the pipeline of the lemmas.        *)
(***************************************************************************)
LEMMA PipeAssumptions ==
  /\ Weight \in [Activations -> Int]
  /\ {} \subseteq Activations
  /\ MaxTasks \in Int
  /\ None \notin Int
  /\ None \in Int \cup {None}
BY WorkflowAssumption

LEMMA SameLimits ==
  /\ Pipe!Limit = PP!Limit
  /\ Pipe!MaxItems = PP!MaxItems
  /\ \A a \in Activations : Pipe!NormalizedWeight(a) = PP!NormalizedWeight(a)
BY DEF Pipe!Limit, PP!Limit, Pipe!MaxItems, PP!MaxItems, Pipe!AtLeastOne, PP!AtLeastOne,
       Pipe!NormalizedWeight, PP!NormalizedWeight

LEMMA SamePipe ==
  ASSUME NEW a \in Activations
  PROVE  /\ Pipe!EnqueueAccepted(a) <=> PP!EnqueueAccepted(a)
         /\ Pipe!EnqueueRejected(a) <=> PP!EnqueueRejected(a)
         /\ Pipe!Submit(a) <=> PP!Submit(a)
         /\ Pipe!AfterSubmit(a) <=> PP!AfterSubmit(a)
         /\ Pipe!SendResult(a) <=> PP!SendResult(a)
         /\ Pipe!FinishAndTakeNext(a) <=> PP!FinishAndTakeNext(a)
<1>1. Pipe!AtCapacity(a) <=> PP!AtCapacity(a)
  BY SameLimits
  DEF Pipe!AtCapacity, PP!AtCapacity, Pipe!OverWeight, PP!OverWeight, Pipe!MaxWeight,
      PP!MaxWeight, Pipe!DefaultMaxOutstandingWeight, PP!DefaultMaxOutstandingWeight,
      Pipe!AtLeastOne, PP!AtLeastOne
<1>2. /\ Pipe!EnqueueAccepted(a) <=> PP!EnqueueAccepted(a)
      /\ Pipe!EnqueueRejected(a) <=> PP!EnqueueRejected(a)
  BY <1>1, SameLimits
  DEF Pipe!EnqueueAccepted, PP!EnqueueAccepted, Pipe!EnqueueRejected, PP!EnqueueRejected,
      Pipe!SlotFree, PP!SlotFree
<1>3. /\ Pipe!Submit(a) <=> PP!Submit(a)
      /\ Pipe!AfterSubmit(a) <=> PP!AfterSubmit(a)
      /\ Pipe!SendResult(a) <=> PP!SendResult(a)
      /\ Pipe!FinishAndTakeNext(a) <=> PP!FinishAndTakeNext(a)
  BY SameLimits
  DEF Pipe!Submit, PP!Submit, Pipe!AfterSubmit, PP!AfterSubmit,
      Pipe!SendResult, PP!SendResult, Pipe!ResultsFull, PP!ResultsFull,
      Pipe!FinishAndTakeNext, PP!FinishAndTakeNext, Pipe!NothingQueued, PP!NothingQueued
<1> QED
  BY <1>2, <1>3

LEMMA SamePipeType == PP!TypeOK <=> Pipe!TypeOK
BY SameLimits DEF PP!TypeOK, Pipe!TypeOK, PP!Stages, Pipe!Stages, PP!RunStages,
                  Pipe!RunStages, PP!Reports, Pipe!Reports

LEMMA SamePipeInit == PP!Init <=> Pipe!Init
BY DEF PP!Init, Pipe!Init
-----------------------------------------------------------------------------
(***************************************************************************)
(* What each use of the pipeline does to the completion of activation a.   *)
(***************************************************************************)
Others(a) == \A b \in Activations : b # a => stage'[b] = stage[b]

LEMMA EnqueueEffect ==
  ASSUME PipeOK, NEW a \in Activations, Pipe!EnqueueAccepted(a) \/ Pipe!EnqueueRejected(a)
  PROVE  /\ PipeOK'
         /\ Others(a)
         /\ stage[a] = "new"
         /\ Pipe!EnqueueAccepted(a) => stage'[a] \in {"submitting", "queued"}
         /\ Pipe!EnqueueRejected(a) => stage'[a] = "rejected"
<1>1. PP!EnqueueAccepted(a) \/ PP!EnqueueRejected(a)
  BY SamePipe
<1>2. PP!IInv'
  BY <1>1, PipeAssumptions, PP!AcceptedPreserves, PP!TurnedAwayPreserves DEF PipeOK
<1>3. /\ PP!OutcomesKnown'
      /\ \A x \in Activations : x # a => stage'[x] = stage[x]
      /\ PP!EnqueueAccepted(a) => stage'[a] \in {"submitting", "queued"}
      /\ PP!EnqueueRejected(a) => stage'[a] = "rejected"
  BY <1>1, PipeAssumptions, PP!EnqueueKeepsOutcomes DEF PipeOK
<1>4. stage[a] = "new"
  BY <1>1 DEF PP!EnqueueAccepted, PP!EnqueueRejected
<1> QED
  BY <1>2, <1>3, <1>4, SamePipe DEF PipeOK, Others

\* The steps of a pipeline goroutine other than AfterSubmit.
LEMMA RunEffect ==
  ASSUME PipeOK, NEW a \in Activations,
         Pipe!Submit(a) \/ Pipe!SendResult(a) \/ Pipe!FinishAndTakeNext(a)
  PROVE  /\ PipeOK'
         /\ outstanding' = outstanding
         /\ \A b \in Activations :
              /\ stage'[b] = "new" <=> stage[b] = "new"
              /\ stage'[b] = "refused" <=> stage[b] = "refused"
              /\ stage'[b] = "rejected" <=> stage[b] = "rejected"
              /\ Released(b)' <=> Released(b)
<1>1. PP!Submit(a) \/ PP!SendResult(a) \/ PP!FinishAndTakeNext(a)
  BY SamePipe
<1>2. PP!IInv'
  BY <1>1, PipeAssumptions, PP!SubmitPreserves, PP!SendPreserves, PP!FinishPreserves DEF PipeOK
<1>3. /\ PP!OutcomesKnown'
      /\ outstanding' = outstanding
      /\ \A x \in Activations :
           stage[x] \in PP!Outside \/ stage'[x] \in PP!Outside => stage'[x] = stage[x]
  BY <1>1, PipeAssumptions, PP!RunFrame DEF PipeOK, PP!Run
<1>4. \A b \in Activations : Released(b)' <=> Released(b)
  <2>1. CASE PP!Submit(a)
    BY <2>1 DEF PP!Submit, Released, PipeOK, PP!IInv, PP!TypeOK
  <2>2. CASE PP!SendResult(a)
    BY <2>2 DEF PP!SendResult, Released, PipeOK, PP!IInv, PP!TypeOK
  <2>3. CASE PP!FinishAndTakeNext(a)
    <3>1. queue # <<>> => Head(queue) \in Activations /\ stage[Head(queue)] = "queued"
      BY PipeAssumptions, PP!TailFacts, PP!ChannelsRestated DEF PipeOK, PP!IInv, PP!TypeOK
    <3> QED
      BY <2>3, <3>1
      DEF PP!FinishAndTakeNext, PP!NothingQueued, Released, PipeOK, PP!IInv, PP!TypeOK
  <2> QED
    BY <1>1, <2>1, <2>2, <2>3
<1> QED
  BY <1>2, <1>3, <1>4 DEF PipeOK, PP!Outside

LEMMA AfterSubmitEffect ==
  ASSUME PipeOK, NEW a \in Activations, Pipe!AfterSubmit(a)
  PROVE  /\ PipeOK'
         /\ outstanding' = outstanding
         /\ Others(a)
         /\ stage[a] = "afterSubmit"
         /\ stage'[a] = "sending"
<1>1. PP!AfterSubmit(a)
  BY SamePipe
<1>2. PP!IInv'
  BY <1>1, PipeAssumptions, PP!SubmitPreserves DEF PipeOK
<1>3. PP!OutcomesKnown' /\ outstanding' = outstanding
  BY <1>1, PipeAssumptions, PP!RunFrame DEF PipeOK, PP!Run
<1> QED
  BY <1>1, <1>2, <1>3 DEF PipeOK, Others, PP!AfterSubmit, PP!IInv, PP!TypeOK

LEMMA ResultEffect ==
  ASSUME PipeOK, NEW a \in Activations, TakeCompletionResult(a)
  PROVE  PipeOK' /\ stage' = stage
<1>1. PP!ReceiveAndFinalize(a)
  BY SameLimits DEF TakeCompletionResult, PP!ReceiveAndFinalize
<1>2. PP!IInv'
  BY <1>1, PipeAssumptions, PP!ConsumePreserves DEF PipeOK
<1>3. stage' = stage /\ outcome' = outcome
  BY DEF TakeCompletionResult
<1> QED
  BY <1>2, <1>3 DEF PipeOK, PP!OutcomesKnown, PP!Returned

LEMMA PipeStutters == PipeOK /\ UNCHANGED pipeVars => PipeOK'
<1> SUFFICES ASSUME PipeOK, UNCHANGED pipeVars PROVE PipeOK'
  OBVIOUS
<1>1. UNCHANGED PP!vars
  BY DEF pipeVars, PP!vars
<1>2. PP!IInv'
  BY <1>1, PipeAssumptions, PP!StutterPreserves DEF PipeOK
<1> QED
  BY <1>2 DEF PipeOK, pipeVars, PP!OutcomesKnown, PP!Returned

LEMMA EmptyPipe ==
  ASSUME PipeOK, outstanding = 0
  PROVE  /\ results = <<>>
         /\ \A a \in Activations :
              \/ stage[a] \in {"new", "refused", "rejected"}
              \/ report[a] = "finalized" /\ stage[a] \in {"leaving", "done"}
<1>1. /\ \A a \in Activations : stage[a] \in PP!Outside \/ report[a] = "finalized"
      /\ results = <<>>
  BY PipeAssumptions, PP!NoneOutstanding DEF PipeOK
<1>2. \A a \in Activations : report[a] = "finalized" => stage[a] \in {"leaving", "done"}
  BY DEF PipeOK, PP!IInv, PP!TypeOK, PP!ChannelsConsistent
<1> QED
  BY <1>1, <1>2 DEF PP!Outside
-----------------------------------------------------------------------------
(***************************************************************************)
(* Lanes: what survives a step that adds no turn.                          *)
(***************************************************************************)
LEMMA LanedTurns ==
  ASSUME TurnsMatch, LoopTypes
  PROVE  /\ TurnHolders \cup done = Laned
         /\ TurnHolders = Laned \ done
         /\ \A a \in TurnHolders : ~Released(a)
BY DEF TurnsMatch, LoopTypes, TurnHolders, Laned

LEMMA LanedTaken ==
  ASSUME FeedMatches
  PROVE  Laned \subseteq Taken
BY DEF FeedMatches, Laned

LEMMA FiniteSets ==
  ASSUME LoopTypes
  PROVE  /\ IsFiniteSet(Activations)
         /\ \A S \in SUBSET Activations : IsFiniteSet(S) /\ Cardinality(S) \in Nat
         /\ Taken \subseteq Activations
<1>1. IsFiniteSet(Activations)
  BY WorkflowAssumption, FS_Interval DEF Activations
<1>2. Taken \subseteq Activations
  <2>1. delivered \in 0 .. MaxActivations /\ MaxActivations \in Nat
    BY WorkflowAssumption DEF LoopTypes
  <2> QED
    BY <2>1 DEF Taken, Activations
<1> QED
  BY <1>1, <1>2, FS_Subset, FS_CardinalityType

\* A turn that is ready is the first of its lane not yet done.
LEMMA ReadyIsFirst ==
  ASSUME IInv, NEW b \in Laned, TurnReady(b),
         NEW a \in Activations, laneOf[a] = laneOf[b], a < b
  PROVE  a \in done
<1> DEFINE p == ready[b]
<1>1. /\ p # None /\ a <= p /\ p \in done /\ p \in Activations
      /\ laneOf[p] = laneOf[b]
  BY DEF IInv, LaneInv, LaneChain, Laned, TurnReady, LoopTypes
<1>2. proc[p] # "waiting"
  BY <1>1, FiniteSets DEF IInv, TurnsMatch, Released, FeedMatches, Handling
<1>3. laneOf[p] # None
  BY <1>1 DEF Laned
<1>4. a = p \/ a < p
  BY <1>1 DEF Activations
<1> QED
  BY <1>1, <1>2, <1>3, <1>4 DEF IInv, LaneInv, LaneOrder

LEMMA LanesPersist ==
  ASSUME IInv, UNCHANGED <<laneOf, ready, tail>>,
         \A a \in Laned : run'[a] = run[a],
         done \subseteq done',
         shutdown => shutdown',
         \A r \in Runs : runLocks'[r] \in {runLocks[r], None},
         \A b \in Laned : proc'[b] # "waiting" => proc[b] # "waiting" \/ TurnReady(b)
  PROVE  LaneShape' /\ LaneChain' /\ LaneOrder' /\ LaneShared'
<1>1. LaneShape'
  <2>1. ASSUME NEW a \in Activations, laneOf[a] # None
        PROVE  laneOf'[laneOf'[a]] = laneOf'[a] /\ run'[laneOf'[a]] = run'[a]
    <3>1. laneOf[laneOf[a]] = laneOf[a] /\ run[laneOf[a]] = run[a] /\ laneOf[a] \in Activations
      BY <2>1 DEF IInv, LaneInv, LaneShape, LoopTypes
    <3> QED
      BY <2>1, <3>1 DEF Laned
  <2>2. ASSUME NEW r \in Runs, runLocks'[r] # None
        PROVE  laneOf'[runLocks'[r]] = runLocks'[r] /\ run'[runLocks'[r]] = r
    <3>1. /\ runLocks'[r] = runLocks[r] /\ runLocks[r] \in Activations
          /\ laneOf[runLocks[r]] = runLocks[r] /\ run[runLocks[r]] = r
      BY <2>2 DEF IInv, LaneInv, LaneShape, LoopTypes
    <3> QED
      BY <2>2, <3>1 DEF Laned
  <2> QED
    BY <2>1, <2>2 DEF LaneShape
<1>2. LaneChain'
  BY DEF IInv, LaneInv, LaneChain
<1>3. LaneOrder'
  <2> SUFFICES ASSUME NEW a \in Activations, NEW b \in Activations,
                      laneOf[b] # None, laneOf[a] = laneOf[b], a < b, proc'[b] # "waiting"
               PROVE  a \in done'
    BY DEF LaneOrder
  <2>1. CASE proc[b] # "waiting"
    BY <2>1 DEF IInv, LaneInv, LaneOrder
  <2>2. CASE TurnReady(b)
    BY <2>2, ReadyIsFirst DEF Laned
  <2> QED
    BY <2>1, <2>2 DEF Laned
<1>4. LaneShared'
  <2> SUFFICES ASSUME ~shutdown', NEW a \in TurnHolders', NEW b \in Activations,
                      laneOf'[b] # None, a < b, run'[a] = run'[b]
               PROVE  laneOf'[a] = laneOf'[b]
    BY DEF LaneShared
  <2>1. a \in TurnHolders /\ a \in Laned /\ b \in Laned
    BY DEF TurnHolders, Laned
  <2> QED
    BY <2>1 DEF IInv, LaneInv, LaneShared
<1> QED
  BY <1>1, <1>2, <1>3, <1>4

\* The lanes of held turns do not depend on what is cached, except that a run
\* may leave the cache only while one of its turns is held.
LEMMA AccountedStays ==
  ASSUME IInv, UNCHANGED turnVars,
         \A a \in Laned : run'[a] = run[a],
         ~shutdown' => ~shutdown,
         ~shutdown' => \A r \in Runs : cached'[r] = None =>
                         cached[r] = None \/ \E a \in TurnHolders : run[a] = r
  PROVE  LanesAccounted'
<1>1. /\ TurnHolders' = TurnHolders /\ TurnHolders \subseteq Laned
      /\ refs' = refs /\ runLocks' = runLocks /\ laneOf' = laneOf
  BY DEF turnVars, TurnHolders, Laned
<1>2. \A l \in Activations :
        refs'[l] = Cardinality({a \in TurnHolders' : laneOf'[a] = l})
  BY <1>1 DEF IInv, LaneInv, LanesAccounted
<1>3. ASSUME ~shutdown'
      PROVE  \A a \in TurnHolders' : runLocks'[run'[a]] = laneOf'[a]
  BY <1>1, <1>3 DEF IInv, LaneInv, LanesAccounted
<1>4. ASSUME ~shutdown', NEW r \in Runs, runLocks[r] # None, refs[runLocks[r]] = 0
      PROVE  cached'[r] # None
  <2>1. cached[r] # None
    BY <1>4 DEF IInv, LaneInv, LanesAccounted
  <2>2. ASSUME NEW a \in TurnHolders, run[a] = r PROVE FALSE
    <3> DEFINE S == {x \in TurnHolders : laneOf[x] = runLocks[r]}
    <3>1. a \in S
      BY <1>4, <2>2 DEF IInv, LaneInv, LanesAccounted
    <3>2. Cardinality(S) = 0 /\ IsFiniteSet(S)
      <4>1. runLocks[r] \in Activations
        BY <1>4 DEF IInv, LoopTypes
      <4>2. S \subseteq Activations
        BY DEF TurnHolders
      <4> QED
        BY <1>4, <4>1, <4>2, FiniteSets DEF IInv, LaneInv, LanesAccounted
    <3> QED
      BY <3>1, <3>2, FS_EmptySet
  <2> QED
    BY <1>4, <2>1, <2>2
<1> QED
  BY <1>1, <1>2, <1>3, <1>4 DEF LanesAccounted

\* Steps that leave the executions as they are, and turns in their lanes.
LEMMA CacheStays ==
  ASSUME IInv, UNCHANGED cacheVars,
         \A x \in Laned : laneOf'[x] = laneOf[x] /\ run'[x] = run[x],
         \A b \in Activations : proc'[b] = proc[b] \/ proc'[b] \notin {"evicting", "activating"}
  PROVE  CacheMatches' /\ NoExecutionLost'
<1>1. /\ cached' = cached /\ execution' = execution /\ live' = live
      /\ displacedBy' = displacedBy /\ shutdown' = shutdown /\ toStop' = toStop
      /\ Cached' = Cached
  BY DEF cacheVars, Cached
<1>2. Laned \subseteq Laned'
  BY DEF Laned
<1>3. CacheMatches'
  <2>1. ExecutionsNamed'
    BY <1>1, <1>2 DEF IInv, CacheMatches, ExecutionsNamed
  <2>2. ASSUME NEW a \in Activations, proc'[a] \in {"evicting", "activating"}
        PROVE  \/ cached'[run'[a]] \in {execution'[a], None}
               \/ shutdown' /\ laneOf'[a] # laneOf'[cached'[run'[a]]]
    <3>1. proc[a] \in {"evicting", "activating"}
      BY <2>2
    <3>2. a \in Laned /\ run[a] \in Runs
      BY <3>1 DEF IInv, TurnsMatch, Handling, Laned
    <3>3. cached[run[a]] \in Laned \cup {None}
      BY <3>2 DEF IInv, CacheMatches, ExecutionsNamed
    <3> QED
      BY <1>1, <3>1, <3>2, <3>3 DEF IInv, CacheMatches
  <2>3. ~shutdown' => toStop' = {}
    BY <1>1 DEF IInv, CacheMatches
  <2> QED
    BY <2>1, <2>2, <2>3 DEF CacheMatches
<1>4. NoExecutionLost'
  <2> SUFFICES ASSUME NEW e \in live, e \notin Cached \cup toStop
               PROVE  /\ displacedBy[e] # None
                      /\ shutdown /\ laneOf'[displacedBy[e]] # laneOf'[e]
    BY <1>1 DEF NoExecutionLost
  <2>1. e \in Laned /\ displacedBy[e] \in Laned \cup {None}
    BY DEF IInv, CacheMatches, ExecutionsNamed, Laned
  <2> QED
    BY <2>1 DEF IInv, NoExecutionLost
<1> QED
  BY <1>3, <1>4

\* Steps that leave processors, lanes and the cache as they are.
LEMMA OutsideLanes ==
  ASSUME IInv, UNCHANGED <<proc, cacheVars, turnVars, activeProcessors>>,
         \A a \in Laned : run'[a] = run[a] /\ (Released(a)' <=> Released(a))
  PROVE  TurnsMatch' /\ LaneInv' /\ CacheMatches' /\ NoExecutionLost'
<1>1. /\ laneOf' = laneOf /\ done' = done /\ runLocks' = runLocks /\ ready' = ready
      /\ tail' = tail /\ refs' = refs
      /\ cached' = cached /\ execution' = execution /\ live' = live
      /\ shutdown' = shutdown /\ toStop' = toStop /\ proc' = proc
      /\ TurnHolders' = TurnHolders /\ Busy' = Busy /\ Cached' = Cached
  BY DEF turnVars, cacheVars, TurnHolders, Busy, Cached
<1>2. TurnsMatch'
  BY <1>1 DEF IInv, TurnsMatch, Laned
<1>3. LaneShape' /\ LaneChain' /\ LaneOrder' /\ LaneShared'
  BY <1>1, LanesPersist
<1>4. LanesAccounted'
  BY <1>1, AccountedStays
<1>5. CacheMatches' /\ NoExecutionLost'
  BY <1>1, CacheStays
<1> QED
  BY <1>2, <1>3, <1>4, <1>5 DEF LaneInv
-----------------------------------------------------------------------------
(***************************************************************************)
(* Initially, and the steps of Core, the poller and the select that touch  *)
(* neither processors nor lanes.                                           *)
(***************************************************************************)
LEMMA InitInvariant == Init => IInv
<1> SUFFICES ASSUME Init PROVE IInv
  OBVIOUS
<1> USE DEF Init
<1>1. PP!IInv
  BY SamePipeInit, PipeAssumptions, PP!InitInvariant
<1>2. /\ \A a \in Activations : stage[a] = "new"
      /\ outstanding = 0
  BY DEF Pipe!Init
<1>3. PipeOK
  BY <1>1, <1>2 DEF PipeOK, PP!OutcomesKnown, PP!Returned
<1>4. LoopTypes
  <2>1. 0 \in 0 .. MaxActivations /\ 0 \in 0 .. MaxTasks
    BY WorkflowAssumption
  <2>2. /\ run \in [Activations -> Runs \cup {None}]
        /\ kind \in [Activations -> Kinds \cup {None}]
        /\ proc \in [Activations -> ProcessorStates]
        /\ cached \in [Runs -> Activations \cup {None}]
        /\ execution \in [Activations -> Activations \cup {None}]
        /\ poller \in PollerStates
    BY DEF ProcessorStates, PollerStates
  <2>3. /\ runLocks \in [Runs -> Activations \cup {None}]
        /\ laneOf \in [Activations -> Activations \cup {None}]
        /\ ready \in [Activations -> Activations \cup {None}]
        /\ tail \in [Activations -> Activations \cup {None}]
        /\ refs \in [Activations -> Nat]
    OBVIOUS
  <2> QED
    BY <2>1, <2>2, <2>3 DEF LoopTypes
<1>5. FeedMatches
  <2>1. 1 .. delivered = {}
    OBVIOUS
  <2> QED
    BY <1>2, <2>1 DEF FeedMatches, Taken
<1>6. Busy = {} /\ TurnHolders = {} /\ Cached = {}
  BY DEF Busy, Handling, TurnHolders, Cached
<1>7. TurnsMatch
  BY <1>6, FS_EmptySet DEF TurnsMatch, Handling
<1>8. None \notin Activations
  BY WorkflowAssumption
<1>9. LaneShape /\ LaneChain /\ LaneOrder /\ LaneShared
  BY <1>6, <1>8 DEF LaneShape, LaneChain, LaneOrder, LaneShared
<1>10. LanesAccounted
  BY <1>6, FS_EmptySet DEF LanesAccounted
<1>11. CacheMatches /\ NoExecutionLost /\ EndMatches
  BY DEF CacheMatches, ExecutionsNamed, NoExecutionLost, EndMatches
<1> QED
  BY <1>3, <1>4, <1>5, <1>7, <1>9, <1>10, <1>11 DEF IInv, LaneInv

LEMMA PollReturnsActivationPreserves == IInv /\ PollReturnsActivation => IInv'
<1> SUFFICES ASSUME IInv, PollReturnsActivation PROVE IInv'
  OBVIOUS
<1> USE DEF PollReturnsActivation
<1>1. /\ delivered \in Nat /\ delivered' = delivered + 1 /\ delivered' \in Activations
      /\ delivered' \in 0 .. MaxActivations
  BY WorkflowAssumption DEF IInv, LoopTypes, Activations
<1>2. PICK offer \in Offers[delivered'] :
        /\ run' = [run EXCEPT ![delivered'] = offer[1]]
        /\ kind' = [kind EXCEPT ![delivered'] = offer[2]]
  OBVIOUS
<1>3. offer[1] \in Runs \cup {None} /\ offer[2] \in Kinds
  BY <1>1, WorkflowAssumption
<1>4. \A a \in Activations : a # delivered' => run'[a] = run[a]
  BY <1>1, <1>2 DEF IInv, LoopTypes
<1>5. Taken' = 1 .. delivered /\ Taken = 1 .. delivered
  BY <1>1 DEF Taken
<1>6. delivered' \notin Taken
  BY <1>1, <1>5
<1>7. \A a \in Laned : run'[a] = run[a] /\ (Released(a)' <=> Released(a))
  BY <1>4, <1>6, LanedTaken DEF IInv, Released, pipeVars, Laned
<1>8. TurnsMatch' /\ LaneInv' /\ CacheMatches' /\ NoExecutionLost'
  BY <1>7, OutsideLanes DEF loopVars
<1>9. FeedMatches'
  BY <1>1, <1>5 DEF IInv, FeedMatches, pipeVars, loopVars, turnVars
<1>10. LoopTypes'
  BY <1>1, <1>2, <1>3 DEF IInv, LoopTypes, loopVars, turnVars, cacheVars, PollerStates
<1>11. PipeOK' /\ EndMatches'
  BY PipeStutters DEF IInv, EndMatches, pipeVars, loopVars
<1> QED
  BY <1>8, <1>9, <1>10, <1>11 DEF IInv

\* The steps that change at most the poller, the context and the loop's state,
\* and the pipeline's goroutines and results, without giving back a turn.
LEMMA LoopStatePreserves ==
  ASSUME IInv, PipeOK',
         UNCHANGED <<delivered, run, kind, activeProcessors, proc, cacheVars, turnVars>>,
         poller' = poller \/ (poller # "offering" /\ poller' # "offering"),
         poller = "closed" => poller' = "closed", poller' \in PollerStates,
         pollOpen' = pollOpen \/ (~pollOpen' /\ poller' = "closed"), pollOpen' \in BOOLEAN,
         ctxCancelled' \in BOOLEAN, ctxCancelled => ctxCancelled',
         failed' \in BOOLEAN, failed => failed',
         \A b \in Activations :
           /\ stage'[b] = "new" <=> stage[b] = "new"
           /\ stage'[b] = "refused" <=> stage[b] = "refused"
           /\ stage'[b] = "rejected" <=> stage[b] = "rejected"
           /\ Released(b)' <=> Released(b),
         state' \in {"running", "draining", "finished"},
         EndMatches'
  PROVE  IInv'
<1>1. TurnsMatch' /\ LaneInv' /\ CacheMatches' /\ NoExecutionLost'
  BY OutsideLanes DEF Laned
<1>2. Taken' = Taken
  BY DEF Taken
<1>3. FeedMatches'
  BY <1>2, FiniteSets DEF IInv, FeedMatches, turnVars
<1>4. LoopTypes'
  BY DEF IInv, LoopTypes, turnVars, cacheVars
<1> QED
  BY <1>1, <1>3, <1>4 DEF IInv

LEMMA QuietStepsPreserve ==
  ASSUME IInv, PollReturnsError \/ PollerGivesUp \/ CancelContext \/ TakeContextDone
               \/ TakePollClosed \/ TakePollError \/ UNCHANGED vars
  PROVE  IInv'
<1>1. /\ UNCHANGED pipeVars
      /\ UNCHANGED <<delivered, run, kind, activeProcessors, proc, cacheVars, turnVars>>
  BY DEF PollReturnsError, PollerGivesUp, CancelContext, TakeContextDone, TakePollClosed,
         TakePollError, vars, feedVars, loopVars
<1>2. PipeOK' /\ stage' = stage /\ outstanding' = outstanding
  BY <1>1, PipeStutters DEF IInv, pipeVars
<1>3. \A b \in Activations : Released(b)' <=> Released(b)
  BY <1>2 DEF Released
<1>4. /\ poller' = poller \/ (poller # "offering" /\ poller' # "offering")
      /\ poller = "closed" => poller' = "closed"
      /\ poller' \in PollerStates
  BY DEF IInv, LoopTypes, PollerStates, PollReturnsError, PollerGivesUp, CancelContext,
         TakeContextDone, TakePollClosed, TakePollError, vars, feedVars
<1>5. /\ pollOpen' = pollOpen \/ (~pollOpen' /\ poller' = "closed")
      /\ pollOpen' \in BOOLEAN
      /\ ctxCancelled' \in BOOLEAN
      /\ ctxCancelled => ctxCancelled'
  BY DEF IInv, LoopTypes, PollReturnsError, PollerGivesUp, CancelContext,
         TakeContextDone, TakePollClosed, TakePollError, vars, feedVars, loopVars
<1>6. /\ failed' \in BOOLEAN /\ (failed => failed')
      /\ state' \in {"running", "draining", "finished"}
      /\ state = "finished" => state' = "finished"
      /\ state' = "finished" => state = "finished"
      /\ state' # "running" => ctxCancelled' \/ failed'
  <2>1. CASE PollReturnsError \/ PollerGivesUp \/ CancelContext \/ UNCHANGED vars
    BY <1>5, <2>1 DEF PollReturnsError, PollerGivesUp, CancelContext, vars, loopVars,
                      IInv, LoopTypes, EndMatches
  <2>2. CASE TakeContextDone
    BY <2>2 DEF TakeContextDone, StartDraining, IInv, LoopTypes
  <2>3. CASE TakePollClosed
    BY <2>3 DEF TakePollClosed, StartDraining, KeepState, IInv, LoopTypes, EndMatches
  <2>4. CASE TakePollError
    BY <2>4 DEF TakePollError, StartDraining, IInv, LoopTypes, EndMatches
  <2> QED
    BY <2>1, <2>2, <2>3, <2>4
<1>7. EndMatches'
  BY <1>1, <1>2, <1>5, <1>6 DEF IInv, EndMatches
<1> QED
  BY <1>1, <1>2, <1>3, <1>4, <1>5, <1>6, <1>7, LoopStatePreserves

LEMMA PipelinePreserves ==
  ASSUME IInv, NEW a \in Activations, Submit(a) \/ ReportResult(a)
  PROVE  IInv'
<1>1. /\ Pipe!Submit(a) \/ Pipe!SendResult(a) \/ Pipe!FinishAndTakeNext(a)
      /\ UNCHANGED <<feedVars, ctxCancelled, loopVars, proc, cacheVars, turnVars>>
  BY DEF Submit, ReportResult
<1>2. /\ PipeOK'
      /\ outstanding' = outstanding
      /\ \A b \in Activations :
           /\ stage'[b] = "new" <=> stage[b] = "new"
           /\ stage'[b] = "refused" <=> stage[b] = "refused"
           /\ stage'[b] = "rejected" <=> stage[b] = "rejected"
           /\ Released(b)' <=> Released(b)
  BY <1>1, RunEffect DEF IInv
<1>3. EndMatches'
  BY <1>1, <1>2 DEF IInv, EndMatches, loopVars
<1>4. /\ UNCHANGED <<delivered, run, kind, poller, ctxCancelled, state, pollOpen, failed,
                     activeProcessors, proc, cacheVars, turnVars>>
  BY <1>1 DEF feedVars, loopVars
<1> QED
  BY <1>2, <1>3, <1>4, LoopStatePreserves DEF IInv, LoopTypes

LEMMA ResultPreserves ==
  ASSUME IInv, NEW a \in Activations, TakeCompletionResult(a)
  PROVE  IInv'
<1>1. PipeOK' /\ stage' = stage
  BY ResultEffect DEF IInv
<1>2. \A b \in Activations : Released(b)' <=> Released(b)
  BY <1>1 DEF Released
<1>3. /\ UNCHANGED <<delivered, run, kind, poller, ctxCancelled, pollOpen,
                     activeProcessors, proc, cacheVars, turnVars>>
  BY DEF TakeCompletionResult, feedVars
<1>4. state # "finished"
  <2>1. results # <<>>
    BY DEF TakeCompletionResult
  <2> QED
    BY <2>1, EmptyPipe DEF IInv, EndMatches
<1>5. /\ failed' \in BOOLEAN /\ (failed => failed')
      /\ state' \in {"running", "draining"}
      /\ state' # "running" => ctxCancelled' \/ failed'
  <2>1. CASE outcome[a] = "failed"
    BY <1>4, <2>1 DEF TakeCompletionResult, StartDraining, IInv, LoopTypes
  <2>2. CASE outcome[a] # "failed"
    <3>1. state' = state /\ failed' = failed
      BY <2>2 DEF TakeCompletionResult, KeepState
    <3> QED
      BY <1>3, <1>4, <3>1 DEF IInv, LoopTypes, EndMatches
  <2> QED
    BY <2>1, <2>2
<1>6. EndMatches'
  BY <1>5 DEF EndMatches
<1> QED
  BY <1>1, <1>2, <1>3, <1>5, <1>6, LoopStatePreserves DEF IInv, LoopTypes
-----------------------------------------------------------------------------
(***************************************************************************)
(* Handling an activation.                                                 *)
(***************************************************************************)
LEMMA HandlingFacts ==
  ASSUME IInv, NEW a \in Activations, proc[a] \in Handling
  PROVE  /\ a \in Laned /\ a \in TurnHolders /\ a \in Taken /\ a \notin done
         /\ stage[a] = "new" /\ run[a] \in Runs
<1>1. a \in Taken /\ stage[a] = "new"
  BY FiniteSets DEF IInv, FeedMatches, Handling
<1>2. laneOf[a] # None /\ run[a] \in Runs
  BY DEF IInv, TurnsMatch
<1>3. a \notin done
  BY <1>1 DEF IInv, TurnsMatch, Released
<1> QED
  BY <1>1, <1>2, <1>3 DEF Laned, TurnHolders

\* Another processor at work for the run of a turn that is ready is in another
\* lane, which only Shutdown makes possible.
LEMMA OnlyDriver ==
  ASSUME IInv, NEW a \in Activations, proc[a] = "waiting", TurnReady(a),
         NEW b \in Activations, b # a, proc[b] \in Handling \ {"waiting"}, run[b] = run[a]
  PROVE  shutdown /\ laneOf[b] # laneOf[a]
<1>1. /\ a \in Laned /\ a \in TurnHolders /\ a \notin done
      /\ b \in Laned /\ b \in TurnHolders /\ b \notin done
  BY HandlingFacts DEF Handling
<1>2. a < b \/ b < a
  BY DEF Activations
<1>3. laneOf[a] # laneOf[b]
  <2>1. CASE b < a
    BY <1>1, <2>1, ReadyIsFirst
  <2>2. CASE a < b
    BY <1>1, <2>2 DEF IInv, LaneInv, LaneOrder, Laned
  <2> QED
    BY <1>2, <2>1, <2>2
<1>4. shutdown
  BY <1>1, <1>2, <1>3 DEF IInv, LaneInv, LaneShared, Laned
<1> QED
  BY <1>3, <1>4

\* A processor goes on from one place of its handling to the next.
LEMMA HandlingFrame ==
  ASSUME IInv, NEW a \in Activations, proc[a] \in Handling,
         NEW next \in {"evicting", "activating", "answering", "sending"},
         proc' = [proc EXCEPT ![a] = next],
         proc[a] = "waiting" => TurnReady(a),
         UNCHANGED <<pipeVars, feedVars, ctxCancelled, loopVars, turnVars, shutdown, toStop>>,
         \A r \in Runs : cached'[r] = None => cached[r] = None \/ r = run[a]
  PROVE  /\ PipeOK' /\ FeedMatches' /\ TurnsMatch' /\ LaneInv' /\ EndMatches'
         /\ proc' \in [Activations -> ProcessorStates]
<1>1. /\ a \in Laned /\ a \in TurnHolders /\ a \in Taken /\ stage[a] = "new"
      /\ a \notin done /\ run[a] \in Runs
  BY HandlingFacts
<1>2. /\ run' = run /\ laneOf' = laneOf /\ ready' = ready /\ tail' = tail /\ refs' = refs
      /\ done' = done /\ runLocks' = runLocks /\ stage' = stage /\ shutdown' = shutdown
      /\ Taken' = Taken /\ delivered' = delivered /\ poller' = poller
      /\ pollOpen' = pollOpen /\ failed' = failed
  BY DEF feedVars, turnVars, pipeVars, loopVars, Taken
<1>3. /\ proc \in [Activations -> ProcessorStates]
      /\ proc'[a] = next
      /\ \A b \in Activations : b # a => proc'[b] = proc[b]
  BY DEF IInv, LoopTypes
<1>4. proc' \in [Activations -> ProcessorStates]
  BY <1>3 DEF ProcessorStates
<1>5. FeedMatches'
  BY <1>1, <1>2, <1>3, FiniteSets DEF IInv, FeedMatches
<1>6. Busy' = Busy
  BY <1>3 DEF Busy, Handling
<1>7. TurnsMatch'
  BY <1>1, <1>2, <1>3, <1>6 DEF IInv, TurnsMatch, Released, Handling, loopVars, Laned
<1>8. LaneShape' /\ LaneChain' /\ LaneOrder' /\ LaneShared'
  <2>1. \A b \in Laned : proc'[b] # "waiting" => proc[b] # "waiting" \/ TurnReady(b)
    BY <1>3 DEF Laned
  <2> QED
    BY <1>2, <2>1, LanesPersist
<1>9. LanesAccounted'
  <2>1. UNCHANGED turnVars
    OBVIOUS
  <2> QED
    BY <1>1, <1>2, <2>1, AccountedStays
<1>10. PipeOK' /\ EndMatches'
  BY PipeStutters DEF IInv, EndMatches, pipeVars, loopVars
<1> QED
  BY <1>4, <1>5, <1>7, <1>8, <1>9, <1>10 DEF LaneInv

LEMMA BeginPreserves ==
  ASSUME IInv, NEW a \in Activations, BeginHandling(a)
  PROVE  IInv'
<1>1. /\ proc[a] = "waiting" /\ TurnReady(a)
      /\ UNCHANGED <<pipeVars, feedVars, ctxCancelled, loopVars, turnVars, displacedBy,
                     shutdown, toStop>>
  BY DEF BeginHandling
<1>2. run[a] \in Runs /\ a \in Laned
  BY <1>1, HandlingFacts DEF Handling
<1>3. /\ run' = run /\ toStop' = toStop /\ shutdown' = shutdown /\ displacedBy' = displacedBy
      /\ laneOf' = laneOf /\ Laned' = Laned
  BY <1>1 DEF feedVars, turnVars, Laned
<1>4. /\ cached \in [Runs -> Activations \cup {None}]
      /\ proc \in [Activations -> ProcessorStates]
      /\ execution \in [Activations -> Activations \cup {None}]
      /\ live \subseteq Activations
      /\ None \notin Activations
  BY WorkflowAssumption DEF IInv, LoopTypes
<1>5. PICK next \in {"evicting", "activating", "answering"}, e \in Activations \cup {None} :
        /\ proc' = [proc EXCEPT ![a] = next]
        /\ execution' = [execution EXCEPT ![a] = e]
        /\ \/ /\ cached' = cached /\ live' = live
              /\ next # "answering" => e = cached[run[a]]
           \/ /\ cached[run[a]] = None /\ e = a
              /\ cached' = [cached EXCEPT ![run[a]] = a]
              /\ live' = live \cup {a}
  BY <1>2, <1>4 DEF BeginHandling
<1>6. \A r \in Runs : cached'[r] = None => cached[r] = None
  BY <1>4, <1>5
<1>7. /\ PipeOK' /\ FeedMatches' /\ TurnsMatch' /\ LaneInv' /\ EndMatches'
      /\ proc' \in [Activations -> ProcessorStates]
  BY <1>1, <1>5, <1>6, HandlingFrame DEF Handling
<1>8. LoopTypes'
  <2>1. /\ execution' \in [Activations -> Activations \cup {None}]
        /\ cached' \in [Runs -> Activations \cup {None}]
        /\ live' \subseteq Activations
    BY <1>2, <1>4, <1>5
  <2> QED
    BY <1>1, <1>3, <1>7, <2>1 DEF IInv, LoopTypes, feedVars, loopVars, turnVars
<1>9. CacheMatches'
  <2>1. ExecutionsNamed'
    BY <1>2, <1>3, <1>4, <1>5 DEF IInv, CacheMatches, ExecutionsNamed
  <2>2. ASSUME NEW b \in Activations, proc'[b] \in {"evicting", "activating"}
        PROVE  \/ cached'[run[b]] \in {execution'[b], None}
               \/ shutdown /\ laneOf[b] # laneOf[cached'[run[b]]]
    <3>1. CASE b = a
      BY <1>2, <1>4, <1>5, <2>2, <3>1
    <3>2. CASE b # a
      <4>1. proc[b] \in {"evicting", "activating"} /\ execution'[b] = execution[b]
        BY <1>4, <1>5, <2>2, <3>2
      <4>2. run[b] \in Runs
        BY <4>1, HandlingFacts DEF Handling
      <4>3. \/ cached[run[b]] \in {execution[b], None}
            \/ shutdown /\ laneOf[b] # laneOf[cached[run[b]]]
        BY <4>1 DEF IInv, CacheMatches
      <4>4. run[b] = run[a] => shutdown /\ laneOf[b] # laneOf[a]
        BY <1>1, <3>2, <4>1, OnlyDriver DEF Handling
      <4>5. cached'[run[b]] = cached[run[b]] \/ (run[b] = run[a] /\ cached'[run[b]] = a)
        BY <1>2, <1>4, <1>5, <4>2
      <4> QED
        BY <4>1, <4>3, <4>4, <4>5
    <3> QED
      BY <3>1, <3>2
  <2>3. ~shutdown => toStop = {}
    BY DEF IInv, CacheMatches
  <2> QED
    BY <1>3, <2>1, <2>2, <2>3 DEF CacheMatches
<1>10. NoExecutionLost'
  <2>1. Cached \subseteq Cached'
    BY <1>2, <1>4, <1>5 DEF Cached
  <2>2. live' = live \/ (live' = live \cup {a} /\ a \in Cached')
    BY <1>2, <1>4, <1>5 DEF Cached
  <2> QED
    BY <1>3, <2>1, <2>2 DEF IInv, NoExecutionLost
<1> QED
  BY <1>7, <1>8, <1>9, <1>10 DEF IInv

LEMMA FinishHandlingPreserves ==
  ASSUME IInv, NEW a \in Activations, FinishHandling(a)
  PROVE  IInv'
<1>1. /\ proc[a] \in {"evicting", "activating", "answering"}
      /\ UNCHANGED <<pipeVars, feedVars, ctxCancelled, loopVars, turnVars, shutdown, toStop>>
      /\ proc' = [proc EXCEPT ![a] = "sending"]
      /\ execution' = [execution EXCEPT ![a] = None]
  BY DEF FinishHandling
<1>2. run[a] \in Runs /\ a \in Laned
  BY <1>1, HandlingFacts DEF Handling
<1>3. /\ run' = run /\ toStop' = toStop /\ shutdown' = shutdown
      /\ laneOf' = laneOf /\ Laned' = Laned
  BY <1>1 DEF feedVars, turnVars, Laned
<1>4. /\ cached \in [Runs -> Activations \cup {None}]
      /\ proc \in [Activations -> ProcessorStates]
      /\ execution \in [Activations -> Activations \cup {None}]
      /\ live \subseteq Activations
      /\ displacedBy \in [Activations -> Activations \cup {None}]
      /\ None \notin Activations
  BY WorkflowAssumption DEF IInv, LoopTypes
<1>5. \/ cached' = cached /\ live' = live /\ displacedBy' = displacedBy
      \/ /\ proc[a] \in {"evicting", "activating"}
         /\ cached' = [cached EXCEPT ![run[a]] = None]
         /\ live' = live \ {execution[a]}
         /\ displacedBy' = [e \in Activations |->
              IF e = cached[run[a]] /\ e # execution[a] THEN a ELSE displacedBy[e]]
  BY <1>1 DEF FinishHandling, StopAndDelete
<1>6. \A r \in Runs : cached'[r] \in {cached[r], None} /\ (r # run[a] => cached'[r] = cached[r])
  BY <1>4, <1>5
<1>7. /\ PipeOK' /\ FeedMatches' /\ TurnsMatch' /\ LaneInv' /\ EndMatches'
      /\ proc' \in [Activations -> ProcessorStates]
  BY <1>1, <1>6, HandlingFrame DEF Handling
<1>8. LoopTypes'
  <2>1. /\ execution' \in [Activations -> Activations \cup {None}]
        /\ cached' \in [Runs -> Activations \cup {None}]
        /\ live' \subseteq Activations
        /\ displacedBy' \in [Activations -> Activations \cup {None}]
    BY <1>1, <1>2, <1>4, <1>5
  <2> QED
    BY <1>1, <1>7, <2>1 DEF IInv, LoopTypes, feedVars, loopVars, turnVars
<1>9. CacheMatches'
  <2>1. ExecutionsNamed'
    BY <1>2, <1>3, <1>4, <1>5, <1>6 DEF IInv, CacheMatches, ExecutionsNamed
  <2>2. ASSUME NEW b \in Activations, proc'[b] \in {"evicting", "activating"}
        PROVE  \/ cached'[run[b]] \in {execution'[b], None}
               \/ shutdown /\ laneOf[b] # laneOf[cached'[run[b]]]
    <3>1. b # a /\ proc[b] \in {"evicting", "activating"} /\ execution'[b] = execution[b]
      BY <1>1, <1>4, <2>2
    <3>2. \/ cached[run[b]] \in {execution[b], None}
          \/ shutdown /\ laneOf[b] # laneOf[cached[run[b]]]
      BY <3>1 DEF IInv, CacheMatches
    <3>3. run[b] \in Runs
      BY <3>1, HandlingFacts DEF Handling
    <3> QED
      BY <1>6, <3>1, <3>2, <3>3
  <2>3. ~shutdown => toStop = {}
    BY DEF IInv, CacheMatches
  <2> QED
    BY <1>3, <2>1, <2>2, <2>3 DEF CacheMatches
<1>10. NoExecutionLost'
  <2>1. CASE cached' = cached /\ live' = live /\ displacedBy' = displacedBy
    BY <1>3, <2>1 DEF IInv, NoExecutionLost, Cached
  <2>2. CASE /\ proc[a] \in {"evicting", "activating"}
             /\ cached' = [cached EXCEPT ![run[a]] = None]
             /\ live' = live \ {execution[a]}
             /\ displacedBy' = [e \in Activations |->
                  IF e = cached[run[a]] /\ e # execution[a] THEN a ELSE displacedBy[e]]
    <3> SUFFICES ASSUME NEW e \in live, e # execution[a], e \notin Cached' \cup toStop
                 PROVE  /\ displacedBy'[e] # None
                        /\ shutdown /\ laneOf[displacedBy'[e]] # laneOf[e]
      BY <1>3, <2>2 DEF NoExecutionLost
    <3>1. e \in Activations
      BY <1>4
    <3>2. CASE e = cached[run[a]]
      <4>1. displacedBy'[e] = a /\ a # None
        BY <1>4, <2>2, <3>1, <3>2
      <4>2. shutdown /\ laneOf[a] # laneOf[e]
        BY <1>4, <2>2, <3>1, <3>2 DEF IInv, CacheMatches
      <4> QED
        BY <4>1, <4>2
    <3>3. CASE e # cached[run[a]]
      <4>1. e \notin Cached
        BY <1>2, <1>4, <2>2, <3>1, <3>3 DEF Cached
      <4>2. displacedBy'[e] = displacedBy[e]
        BY <2>2, <3>1, <3>3
      <4> QED
        BY <4>1, <4>2 DEF IInv, NoExecutionLost
    <3> QED
      BY <3>2, <3>3
  <2> QED
    BY <1>5, <2>1, <2>2
<1> QED
  BY <1>7, <1>8, <1>9, <1>10 DEF IInv
-----------------------------------------------------------------------------
(***************************************************************************)
(* Giving a turn back, or keeping it, as the completion goes on.           *)
(***************************************************************************)
LEMMA TurnEffect ==
  ASSUME IInv, NEW a \in Activations, ~Released(a),
         \/ ReleaseRunTurn(a) /\ Released(a)'
         \/ UNCHANGED turnVars /\ ~Released(a)',
         \A b \in Activations : b # a => (Released(b)' <=> Released(b)),
         UNCHANGED <<run, cacheVars>>,
         \A b \in Activations :
           proc'[b] = proc[b] \/ (b = a /\ proc[a] = "sending" /\ proc'[a] = "gone")
  PROVE  /\ LaneInv' /\ CacheMatches' /\ NoExecutionLost'
         /\ laneOf' = laneOf /\ ready' = ready /\ tail' = tail
         /\ refs' \in [Activations -> Nat]
         /\ runLocks' \in [Runs -> Activations \cup {None}]
         /\ done' \subseteq Activations
         /\ \A b \in Activations : b \in done' <=> laneOf'[b] # None /\ Released(b)'
<1> DEFINE l == laneOf[a]
           Held(x) == {y \in TurnHolders : laneOf[y] = x}
<1>1. /\ cached' = cached /\ execution' = execution /\ live' = live
      /\ shutdown' = shutdown /\ toStop' = toStop /\ run' = run /\ Cached' = Cached
  BY DEF cacheVars, Cached
<1>2. /\ \A b \in Activations : b \in done <=> laneOf[b] # None /\ Released(b)
      /\ a \notin done
      /\ done \subseteq Activations
      /\ runLocks \in [Runs -> Activations \cup {None}]
      /\ refs \in [Activations -> Nat]
      /\ laneOf \in [Activations -> Activations \cup {None}]
      /\ None \notin Activations
  BY WorkflowAssumption DEF IInv, TurnsMatch, LoopTypes
<1>3. ASSUME UNCHANGED turnVars, l = None \/ ~Released(a)'
      PROVE  /\ LanesAccounted'
             /\ laneOf' = laneOf /\ ready' = ready /\ tail' = tail
             /\ refs' \in [Activations -> Nat]
             /\ runLocks' \in [Runs -> Activations \cup {None}]
             /\ done' \subseteq Activations /\ done \subseteq done'
             /\ \A r \in Runs : runLocks'[r] \in {runLocks[r], None}
             /\ \A b \in Activations : b \in done' <=> laneOf'[b] # None /\ Released(b)'
             /\ TurnHolders' \cup done' = Laned
  <2>1. LanesAccounted'
    BY <1>1, <1>3, AccountedStays
  <2>2. TurnHolders \cup done = Laned
    BY LanedTurns DEF IInv
  <2> QED
    BY <1>2, <1>3, <2>1, <2>2 DEF turnVars, TurnHolders, Laned
<1>4. ASSUME ReleaseRunTurn(a), Released(a)', l # None
      PROVE  /\ LanesAccounted'
             /\ laneOf' = laneOf /\ ready' = ready /\ tail' = tail
             /\ refs' \in [Activations -> Nat]
             /\ runLocks' \in [Runs -> Activations \cup {None}]
             /\ done' \subseteq Activations /\ done \subseteq done'
             /\ \A r \in Runs : runLocks'[r] \in {runLocks[r], None}
             /\ \A b \in Activations : b \in done' <=> laneOf'[b] # None /\ Released(b)'
             /\ TurnHolders' \cup done' = Laned
  <2>1. /\ laneOf' = laneOf /\ ready' = ready /\ tail' = tail
        /\ done' = done \cup {a}
        /\ refs' = [refs EXCEPT ![l] = @ - 1]
        /\ runLocks' = IF LastReference(a) THEN [runLocks EXCEPT ![run[a]] = None] ELSE runLocks
    BY <1>4 DEF ReleaseRunTurn
  <2>2. a \in TurnHolders /\ TurnHolders' = TurnHolders \ {a} /\ l \in Activations
    BY <1>2, <1>4, <2>1 DEF TurnHolders
  <2>3. run[a] \in Runs
    BY <1>4 DEF IInv, TurnsMatch
  <2>4. \A x \in Activations :
          /\ IsFiniteSet(Held(x))
          /\ refs[x] = Cardinality(Held(x))
    <3>1. \A x \in Activations : Held(x) \in SUBSET Activations
      BY DEF TurnHolders
    <3> QED
      BY <3>1, FiniteSets DEF IInv, LaneInv, LanesAccounted
  <2>5. /\ IsFiniteSet(Held(l) \ {a})
        /\ Cardinality(Held(l) \ {a}) = refs[l] - 1
        /\ Cardinality(Held(l) \ {a}) \in Nat
    <3>1. a \in Held(l)
      BY <2>2
    <3> QED
      BY <2>2, <2>4, <3>1, FS_RemoveElement, FS_CardinalityType
  <2>6. \A x \in Activations : refs'[x] = Cardinality({y \in TurnHolders' : laneOf'[y] = x})
    <3>1. \A x \in Activations :
            {y \in TurnHolders' : laneOf'[y] = x} = IF x = l THEN Held(l) \ {a} ELSE Held(x)
      BY <2>1, <2>2
    <3>2. \A x \in Activations : refs'[x] = IF x = l THEN refs[l] - 1 ELSE refs[x]
      BY <1>2, <2>1
    <3> HIDE DEF Held, l
    <3> QED
      BY <2>4, <2>5, <3>1, <3>2
  <2>7. refs' \in [Activations -> Nat]
    BY <1>2, <2>1, <2>2, <2>5
  <2>8. runLocks' \in [Runs -> Activations \cup {None}]
    BY <1>2, <2>1
  <2>9. \A r \in Runs : runLocks'[r] \in {runLocks[r], None} /\ (r # run[a] => runLocks'[r] = runLocks[r])
    BY <1>2, <2>1
  <2>10. ASSUME ~shutdown', NEW x \in TurnHolders'
         PROVE  runLocks'[run'[x]] = laneOf'[x]
    <3>1. /\ x \in TurnHolders /\ x # a
          /\ runLocks[run[x]] = laneOf[x] /\ runLocks[run[a]] = l
      BY <1>1, <2>2, <2>10 DEF IInv, LaneInv, LanesAccounted
    <3>2. CASE LastReference(a) /\ run[x] = run[a]
      <4>1. x \in Held(l) \ {a}
        BY <3>1, <3>2
      <4>2. Cardinality(Held(l) \ {a}) = 0
        BY <2>5, <3>2 DEF LastReference
      <4> QED
        BY <2>5, <4>1, <4>2, FS_EmptySet
    <3>3. run[x] \in Runs
      BY <1>2, <3>1 DEF IInv, TurnsMatch, TurnHolders
    <3> QED
      BY <1>1, <1>2, <2>1, <3>1, <3>2, <3>3
  <2>11. ASSUME ~shutdown', NEW r \in Runs, runLocks'[r] # None, refs'[runLocks'[r]] = 0
         PROVE  cached'[r] # None
    <3>1. /\ runLocks'[r] = runLocks[r] /\ runLocks[r] \in Activations /\ runLocks[r] # None
          /\ run[runLocks[r]] = r
      BY <1>2, <2>9, <2>11 DEF IInv, LaneInv, LaneShape
    <3>2. CASE r = run[a]
      <4>1. runLocks[r] = l
        BY <1>1, <2>2, <2>11, <3>2 DEF IInv, LaneInv, LanesAccounted
      <4>2. refs[l] = 1
        BY <1>2, <2>1, <2>2, <2>11, <3>1, <4>1
      <4> QED
        BY <1>1, <1>2, <2>1, <2>3, <3>1, <3>2, <4>1, <4>2 DEF LastReference
    <3>3. CASE r # run[a]
      <4>1. runLocks[r] # l
        BY <1>2, <1>4, <3>1, <3>3 DEF IInv, LaneInv, LaneShape
      <4>2. refs[runLocks[r]] = 0
        BY <1>2, <2>1, <2>11, <3>1, <4>1
      <4> QED
        BY <1>1, <2>11, <3>1, <4>2 DEF IInv, LaneInv, LanesAccounted
    <3> QED
      BY <3>2, <3>3
  <2>12. LanesAccounted'
    BY <2>6, <2>10, <2>11 DEF LanesAccounted
  <2>13. \A b \in Activations : b \in done' <=> laneOf'[b] # None /\ Released(b)'
    BY <1>2, <1>4, <2>1
  <2>14. TurnHolders' \cup done' = Laned
    BY <1>2, <2>1, <2>13 DEF TurnHolders, Laned
  <2> QED
    BY <1>2, <2>1, <2>7, <2>8, <2>9, <2>12, <2>13, <2>14
<1>5. /\ LanesAccounted'
      /\ laneOf' = laneOf /\ ready' = ready /\ tail' = tail
      /\ refs' \in [Activations -> Nat]
      /\ runLocks' \in [Runs -> Activations \cup {None}]
      /\ done' \subseteq Activations /\ done \subseteq done'
      /\ \A r \in Runs : runLocks'[r] \in {runLocks[r], None}
      /\ \A b \in Activations : b \in done' <=> laneOf'[b] # None /\ Released(b)'
      /\ TurnHolders' \cup done' = Laned
  <2>1. ReleaseRunTurn(a) /\ l = None => UNCHANGED turnVars
    BY DEF ReleaseRunTurn
  <2> HIDE DEF l
  <2> QED
    BY <1>3, <1>4, <2>1
<1>6. LaneShape' /\ LaneChain' /\ LaneOrder' /\ LaneShared'
  <2>1. \A b \in Laned : proc'[b] # "waiting" => proc[b] # "waiting" \/ TurnReady(b)
    BY DEF Laned
  <2> QED
    BY <1>1, <1>5, <2>1, LanesPersist
<1>7. CacheMatches' /\ NoExecutionLost'
  BY <1>5, CacheStays
<1> QED
  BY <1>5, <1>6, <1>7 DEF LaneInv
LEMMA AfterSubmitPreserves ==
  ASSUME IInv, NEW a \in Activations, AfterSubmit(a)
  PROVE  IInv'
<1>1. /\ Pipe!AfterSubmit(a) /\ ReleaseRunTurn(a)
      /\ UNCHANGED <<feedVars, ctxCancelled, loopVars, proc, cacheVars>>
  BY DEF AfterSubmit
<1>2. /\ PipeOK' /\ outstanding' = outstanding
      /\ \A b \in Activations : b # a => stage'[b] = stage[b]
      /\ stage[a] = "afterSubmit" /\ stage'[a] = "sending"
  BY <1>1, AfterSubmitEffect DEF IInv, Others
<1>3. /\ ~Released(a) /\ Released(a)'
      /\ \A b \in Activations : b # a => (Released(b)' <=> Released(b))
  BY <1>2 DEF Released
<1>4. UNCHANGED <<run, cacheVars>> /\ \A b \in Activations : proc'[b] = proc[b]
  BY <1>1 DEF feedVars
<1>5. /\ LaneInv' /\ CacheMatches' /\ NoExecutionLost'
      /\ laneOf' = laneOf /\ ready' = ready /\ tail' = tail
      /\ refs' \in [Activations -> Nat]
      /\ runLocks' \in [Runs -> Activations \cup {None}]
      /\ done' \subseteq Activations
      /\ \A b \in Activations : b \in done' <=> laneOf'[b] # None /\ Released(b)'
  BY <1>1, <1>3, <1>4, TurnEffect
<1>6. LoopTypes'
  BY <1>1, <1>5 DEF IInv, LoopTypes, feedVars, loopVars, cacheVars
<1>7. FeedMatches'
  <2>1. /\ Taken' = Taken /\ poller' = poller /\ delivered' = delivered /\ pollOpen' = pollOpen
        /\ failed' = failed /\ proc' = proc
    BY <1>1 DEF feedVars, loopVars, Taken
  <2> QED
    BY <1>2, <1>5, <2>1, FiniteSets DEF IInv, FeedMatches
<1>8. TurnsMatch'
  <2>1. Busy' = Busy /\ activeProcessors' = activeProcessors /\ proc' = proc /\ run' = run
    BY <1>1 DEF Busy, loopVars, feedVars
  <2> QED
    BY <1>5, <2>1 DEF IInv, TurnsMatch
<1>9. EndMatches'
  BY <1>1, <1>2 DEF IInv, EndMatches, loopVars
<1> QED
  BY <1>2, <1>5, <1>6, <1>7, <1>8, <1>9 DEF IInv

\* Enqueue of a's completion: it leaves "new", and a refusal, or an answer
\* beyond the limit, makes the run fail and drain.
LEMMA EnqueueState ==
  ASSUME IInv, NEW a \in Activations, pollOpen \/ activeProcessors # 0,
         ctxCancelled' = ctxCancelled, pollOpen' = pollOpen,
         \/ Pipe!EnqueueAccepted(a) /\ KeepState
         \/ (Pipe!EnqueueAccepted(a) \/ Pipe!EnqueueRejected(a)) /\ StartDraining(TRUE)
  PROVE  /\ PipeOK' /\ EndMatches'
         /\ stage[a] = "new" /\ stage'[a] \in {"submitting", "queued", "rejected"}
         /\ Pipe!EnqueueAccepted(a) => stage'[a] # "rejected"
         /\ stage'[a] = "rejected" => failed'
         /\ \A b \in Activations : b # a => stage'[b] = stage[b]
         /\ failed' \in BOOLEAN /\ (failed => failed')
         /\ state' \in {"running", "draining"}
<1>1. /\ PipeOK' /\ stage[a] = "new"
      /\ \A b \in Activations : b # a => stage'[b] = stage[b]
      /\ Pipe!EnqueueAccepted(a) => stage'[a] \in {"submitting", "queued"}
      /\ Pipe!EnqueueRejected(a) => stage'[a] = "rejected"
  BY EnqueueEffect DEF IInv, Others
<1>2. /\ state \in {"running", "draining"} /\ failed \in BOOLEAN
      /\ state # "running" => ctxCancelled \/ failed
  BY DEF IInv, EndMatches, LoopTypes
<1>3. CASE KeepState /\ Pipe!EnqueueAccepted(a)
  BY <1>1, <1>2, <1>3 DEF KeepState, EndMatches
<1>4. CASE StartDraining(TRUE)
  <2>1. failed' = TRUE /\ state' \in {"running", "draining"}
    BY <1>2, <1>4 DEF StartDraining
  <2> QED
    BY <1>1, <1>2, <2>1 DEF EndMatches
<1> QED
  BY <1>3, <1>4

LEMMA ProcessorResultPreserves ==
  ASSUME IInv, NEW a \in Activations, TakeProcessorResult(a)
  PROVE  IInv'
<1>1. /\ proc[a] = "sending"
      /\ proc' = [proc EXCEPT ![a] = "gone"]
      /\ activeProcessors' = activeProcessors - 1
      /\ UNCHANGED <<feedVars, ctxCancelled, pollOpen, cacheVars>>
      /\ \/ Pipe!EnqueueAccepted(a) /\ UNCHANGED turnVars /\ KeepState
         \/ Pipe!EnqueueRejected(a) /\ ReleaseRunTurn(a) /\ StartDraining(TRUE)
  BY DEF TakeProcessorResult, EnqueueCompletion
<1>2. /\ proc \in [Activations -> ProcessorStates]
      /\ activeProcessors \in 0 .. MaxTasks
      /\ MaxTasks \in Nat
  BY WorkflowAssumption DEF IInv, LoopTypes
<1>3. /\ IsFiniteSet(Busy) /\ a \in Busy
      /\ Busy' = Busy \ {a}
      /\ activeProcessors = Cardinality(Busy)
  <2>1. Busy \in SUBSET Activations
    BY DEF Busy
  <2>2. Busy' = Busy \ {a}
    BY <1>1, <1>2 DEF Busy, Handling
  <2> QED
    BY <1>1, <2>1, <2>2, FiniteSets DEF IInv, TurnsMatch, Busy
<1>4. /\ activeProcessors # 0
      /\ activeProcessors' \in 0 .. MaxTasks
      /\ activeProcessors' = Cardinality(Busy')
  <2>1. Cardinality(Busy \ {a}) = Cardinality(Busy) - 1 /\ Cardinality(Busy) # 0
    BY <1>3, FS_RemoveElement, FS_EmptySet
  <2> QED
    BY <1>1, <1>2, <1>3, <2>1
<1>5. /\ PipeOK' /\ EndMatches'
      /\ stage[a] = "new" /\ stage'[a] \in {"submitting", "queued", "rejected"}
      /\ Pipe!EnqueueAccepted(a) => stage'[a] # "rejected"
      /\ stage'[a] = "rejected" => failed'
      /\ \A b \in Activations : b # a => stage'[b] = stage[b]
      /\ failed' \in BOOLEAN /\ (failed => failed')
      /\ state' \in {"running", "draining"}
  BY <1>1, <1>4, EnqueueState
<1>6. Pipe!EnqueueRejected(a) => stage'[a] = "rejected"
  BY EnqueueEffect DEF IInv
<1>7. /\ ~Released(a)
      /\ \/ ReleaseRunTurn(a) /\ Released(a)'
         \/ UNCHANGED turnVars /\ ~Released(a)'
      /\ \A b \in Activations : b # a => (Released(b)' <=> Released(b))
  BY <1>1, <1>5, <1>6 DEF Released
<1>8. /\ UNCHANGED <<run, cacheVars>>
      /\ \A b \in Activations :
           proc'[b] = proc[b] \/ (b = a /\ proc[a] = "sending" /\ proc'[a] = "gone")
  BY <1>1, <1>2 DEF feedVars
<1>9. /\ LaneInv' /\ CacheMatches' /\ NoExecutionLost'
      /\ laneOf' = laneOf /\ ready' = ready /\ tail' = tail
      /\ refs' \in [Activations -> Nat]
      /\ runLocks' \in [Runs -> Activations \cup {None}]
      /\ done' \subseteq Activations
      /\ \A b \in Activations : b \in done' <=> laneOf'[b] # None /\ Released(b)'
  BY <1>7, <1>8, TurnEffect
<1>10. LoopTypes'
  <2>1. proc' \in [Activations -> ProcessorStates]
    BY <1>1, <1>2 DEF ProcessorStates
  <2> QED
    BY <1>1, <1>4, <1>5, <1>9, <2>1 DEF IInv, LoopTypes, feedVars, cacheVars
<1>11. FeedMatches'
  <2>1. /\ Taken' = Taken /\ poller' = poller /\ delivered' = delivered /\ pollOpen' = pollOpen
    BY <1>1 DEF feedVars, Taken
  <2>2. proc'[a] = "gone" /\ \A b \in Activations : b # a => proc'[b] = proc[b]
    BY <1>1, <1>2
  <2>3. a \in Taken
    BY <1>1 DEF IInv, FeedMatches
  <2> QED
    BY <1>5, <1>9, <2>1, <2>2, <2>3, FiniteSets DEF IInv, FeedMatches
<1>12. TurnsMatch'
  <2>1. run' = run /\ proc'[a] = "gone" /\ \A b \in Activations : b # a => proc'[b] = proc[b]
    BY <1>1, <1>2 DEF feedVars
  <2> QED
    BY <1>4, <1>9, <2>1 DEF IInv, TurnsMatch, Handling
<1> QED
  BY <1>5, <1>9, <1>10, <1>11, <1>12 DEF IInv

\* The activation in the poller's hands has no processor and no turn.
LEMMA OfferedFacts ==
  ASSUME IInv, TakePollActivation
  PROVE  /\ delivered \in Activations /\ delivered \notin Taken
         /\ proc[delivered] = "none" /\ stage[delivered] = "new" /\ laneOf[delivered] = None
         /\ pollOpen /\ state # "finished"
         /\ delivered' = delivered => Taken' = Taken \cup {delivered}
<1>1. delivered \in Activations /\ delivered \notin Taken /\ pollOpen
  BY DEF IInv, FeedMatches, TakePollActivation, Taken
<1>2. delivered' = delivered => Taken' = Taken \cup {delivered}
  BY <1>1 DEF TakePollActivation, Taken, Activations
<1> QED
  BY <1>1, <1>2 DEF IInv, FeedMatches, EndMatches

LEMMA AnswerOutsidePreserves ==
  ASSUME IInv, TakeUndecodable \/ DispatchOverLimit
  PROVE  IInv'
<1> DEFINE a == delivered
<1>1. /\ TakePollActivation /\ poller' = "polling"
      /\ UNCHANGED <<delivered, run, kind, ctxCancelled, pollOpen, activeProcessors, proc,
                     cacheVars>>
  BY DEF TakeUndecodable, DispatchOverLimit, TakePollActivation
<1>2. /\ a \in Activations /\ a \notin Taken /\ Taken' = Taken \cup {a}
      /\ proc[a] = "none" /\ stage[a] = "new" /\ laneOf[a] = None
      /\ pollOpen
  BY <1>1, OfferedFacts
<1>3. /\ UNCHANGED turnVars
      /\ \/ Pipe!EnqueueAccepted(a) /\ KeepState
         \/ (Pipe!EnqueueAccepted(a) \/ Pipe!EnqueueRejected(a)) /\ StartDraining(TRUE)
  <2>1. CASE TakeUndecodable
    <3>1. ReleaseRunTurn(a) => UNCHANGED turnVars
      BY <1>2 DEF ReleaseRunTurn
    <3> QED
      BY <2>1, <3>1 DEF TakeUndecodable, EnqueueCompletion
  <2>2. CASE DispatchOverLimit
    BY <2>2 DEF DispatchOverLimit
  <2> QED
    BY <2>1, <2>2
<1> HIDE DEF a
<1>4. /\ PipeOK' /\ EndMatches'
      /\ stage[a] = "new" /\ stage'[a] \in {"submitting", "queued", "rejected"}
      /\ stage'[a] = "rejected" => failed'
      /\ \A b \in Activations : b # a => stage'[b] = stage[b]
      /\ failed' \in BOOLEAN /\ (failed => failed')
      /\ state' \in {"running", "draining"}
  BY <1>1, <1>2, <1>3, EnqueueState
<1>5. \A b \in Laned : run'[b] = run[b] /\ (Released(b)' <=> Released(b))
  BY <1>1, <1>2, <1>4 DEF Laned, Released
<1>6. TurnsMatch' /\ LaneInv' /\ CacheMatches' /\ NoExecutionLost'
  BY <1>1, <1>3, <1>5, OutsideLanes
<1>7. FeedMatches'
  <2>1. proc' = proc /\ laneOf' = laneOf /\ pollOpen' /\ poller' # "offering"
    BY <1>1, <1>2, <1>3 DEF turnVars
  <2> QED
    BY <1>2, <1>4, <2>1, FiniteSets DEF IInv, FeedMatches
<1>8. LoopTypes'
  BY <1>1, <1>3, <1>4 DEF IInv, LoopTypes, turnVars, cacheVars, PollerStates
<1> QED
  BY <1>4, <1>6, <1>7, <1>8 DEF IInv
-----------------------------------------------------------------------------
(***************************************************************************)
(* Dispatch: a new turn at the end of its lane.                            *)
(***************************************************************************)
\* The activation a, with no turn yet, joins the lane l of its run.
LEMMA NewTurn ==
  ASSUME IInv, NEW a \in Activations, laneOf[a] = None, stage[a] = "new",
         \A x \in Laned : x < a,
         run[a] # None, ReserveRunTurn(a),
         proc' = [proc EXCEPT ![a] = "waiting"],
         UNCHANGED <<run, stage, cacheVars>>
  PROVE  /\ LaneInv' /\ CacheMatches' /\ NoExecutionLost'
         /\ laneOf'[a] # None
         /\ \A b \in Activations : b # a => laneOf'[b] = laneOf[b]
         /\ done' = done
         /\ laneOf' \in [Activations -> Activations \cup {None}]
         /\ ready' \in [Activations -> Activations \cup {None}]
         /\ tail' \in [Activations -> Activations \cup {None}]
         /\ refs' \in [Activations -> Nat]
         /\ runLocks' \in [Runs -> Activations \cup {None}]
<1> DEFINE Held(x) == {y \in TurnHolders : laneOf[y] = x}
<1>1. /\ run \in [Activations -> Runs \cup {None}]
      /\ proc \in [Activations -> ProcessorStates]
      /\ runLocks \in [Runs -> Activations \cup {None}]
      /\ laneOf \in [Activations -> Activations \cup {None}]
      /\ ready \in [Activations -> Activations \cup {None}]
      /\ tail \in [Activations -> Activations \cup {None}]
      /\ refs \in [Activations -> Nat]
      /\ done \subseteq Activations
      /\ None \notin Activations
      /\ Activations \subseteq Int
  <2>1. None \notin Activations
    BY WorkflowAssumption
  <2>2. Activations \subseteq Int
    BY DEF Activations
  <2> QED
    BY <2>1, <2>2 DEF IInv, LoopTypes
<1>2. /\ cached' = cached /\ execution' = execution /\ live' = live
      /\ shutdown' = shutdown /\ toStop' = toStop /\ run' = run /\ Cached' = Cached
      /\ stage' = stage
  BY DEF cacheVars, Cached
<1>3. PICK r \in Runs : r = run[a]
  BY <1>1
<1>4. PICK l \in Activations : l = IF runLocks[r] = None THEN a ELSE runLocks[r]
  BY <1>1, <1>3
<1>5. /\ runLocks' = [runLocks EXCEPT ![r] = l]
      /\ laneOf' = [laneOf EXCEPT ![a] = l]
      /\ ready' = [ready EXCEPT ![a] = tail[l]]
      /\ tail' = [tail EXCEPT ![l] = a]
      /\ refs' = [refs EXCEPT ![l] = @ + 1]
      /\ done' = done
  BY <1>3, <1>4 DEF ReserveRunTurn
<1>6. /\ laneOf' \in [Activations -> Activations \cup {None}]
      /\ ready' \in [Activations -> Activations \cup {None}]
      /\ tail' \in [Activations -> Activations \cup {None}]
      /\ refs' \in [Activations -> Nat]
      /\ runLocks' \in [Runs -> Activations \cup {None}]
  BY <1>1, <1>5
<1>7. /\ laneOf'[a] = l /\ l # None
      /\ \A b \in Activations : b # a => laneOf'[b] = laneOf[b] /\ ready'[b] = ready[b]
      /\ \A b \in Activations : b # l => tail'[b] = tail[b] /\ refs'[b] = refs[b]
      /\ \A x \in Runs : x # r => runLocks'[x] = runLocks[x]
      /\ ready'[a] = tail[l] /\ tail'[l] = a /\ refs'[l] = refs[l] + 1 /\ runLocks'[r] = l
      /\ proc'[a] = "waiting"
      /\ \A b \in Activations : b # a => proc'[b] = proc[b]
  BY <1>1, <1>5
\* a has been no lane before.
<1>8. \A b \in Activations : laneOf[b] # a
  BY <1>1 DEF IInv, LaneInv, LaneShape
<1>9. /\ runLocks[r] = None => l = a
      /\ l = a \/ (laneOf[l] = l /\ run[l] = r /\ runLocks[r] = l /\ l # a)
  <2>1. CASE runLocks[r] = None
    BY <1>4, <2>1
  <2>2. CASE runLocks[r] # None
    <3>1. runLocks[r] = l
      BY <1>4, <2>2
    <3>2. laneOf[l] = l /\ run[l] = r
      BY <2>2, <3>1 DEF IInv, LaneInv, LaneShape
    <3>3. l # a
      BY <1>1, <3>2
    <3> QED
      BY <2>2, <3>1, <3>2, <3>3
  <2> QED
    BY <2>1, <2>2
<1>10. tail[l] # None => laneOf[tail[l]] = l /\ tail[l] \in Activations /\ tail[l] < a
  <2> SUFFICES ASSUME tail[l] # None
               PROVE  laneOf[tail[l]] = l /\ tail[l] \in Activations /\ tail[l] < a
    OBVIOUS
  <2>1. laneOf[tail[l]] = l /\ tail[l] \in Activations
    BY <1>1 DEF IInv, LaneInv, LaneChain
  <2>2. tail[l] \in Laned
    BY <1>7, <2>1 DEF Laned
  <2> QED
    BY <2>1, <2>2
<1>11. LaneShape'
  <2>1. ASSUME NEW b \in Activations, laneOf'[b] # None
        PROVE  laneOf'[laneOf'[b]] = laneOf'[b] /\ run'[laneOf'[b]] = run'[b]
    <3>1. CASE b = a
      BY <1>2, <1>3, <1>7, <1>9, <3>1
    <3>2. CASE b # a
      <4>1. laneOf[laneOf[b]] = laneOf[b] /\ run[laneOf[b]] = run[b] /\ laneOf[b] \in Activations
        BY <1>1, <1>7, <2>1, <3>2 DEF IInv, LaneInv, LaneShape
      <4> QED
        BY <1>2, <1>7, <1>8, <3>2, <4>1
    <3> QED
      BY <3>1, <3>2
  <2>2. ASSUME NEW x \in Runs, runLocks'[x] # None
        PROVE  laneOf'[runLocks'[x]] = runLocks'[x] /\ run'[runLocks'[x]] = x
    <3>1. CASE x = r
      BY <1>2, <1>3, <1>7, <1>9, <3>1
    <3>2. CASE x # r
      <4>1. laneOf[runLocks[x]] = runLocks[x] /\ run[runLocks[x]] = x /\ runLocks[x] \in Activations
        BY <1>1, <1>7, <2>2, <3>2 DEF IInv, LaneInv, LaneShape
      <4> QED
        BY <1>2, <1>7, <1>8, <3>2, <4>1
    <3> QED
      BY <3>1, <3>2
  <2> QED
    BY <2>1, <2>2 DEF LaneShape
<1>12. LaneChain'
  <2>1. ASSUME NEW x \in Activations, NEW b \in Activations, laneOf'[b] = x
        PROVE  tail'[x] # None /\ b <= tail'[x]
    <3>1. b # a => b < a
      BY <1>1, <1>7, <2>1 DEF Laned
    <3>2. CASE x = l
      BY <1>1, <1>7, <3>1, <3>2
    <3>3. CASE x # l
      BY <1>1, <1>7, <2>1, <3>3 DEF IInv, LaneInv, LaneChain
    <3> QED
      BY <3>2, <3>3
  <2>2. ASSUME NEW x \in Activations, tail'[x] # None
        PROVE  laneOf'[tail'[x]] = x
    <3>1. CASE x = l
      BY <1>7, <3>1
    <3>2. CASE x # l
      <4>1. laneOf[tail[x]] = x /\ tail[x] \in Activations
        BY <1>1, <1>7, <2>2, <3>2 DEF IInv, LaneInv, LaneChain
      <4>2. tail'[x] = tail[x]
        BY <1>7, <3>2
      <4>3. tail[x] # a
        BY <1>1, <4>1
      <4>4. laneOf'[tail[x]] = laneOf[tail[x]]
        BY <1>7, <4>1, <4>3
      <4> QED
        BY <4>1, <4>2, <4>4
    <3> QED
      BY <3>1, <3>2
  <2>3. ASSUME NEW x \in Activations, NEW b \in Activations,
               laneOf'[b] # None, laneOf'[x] = laneOf'[b], x < b
        PROVE  ready'[b] # None /\ x <= ready'[b]
    <3>1. CASE b = a
      <4>1. laneOf[x] = l
        BY <1>1, <1>7, <2>3, <3>1
      <4> QED
        BY <1>7, <3>1, <4>1 DEF IInv, LaneInv, LaneChain
    <3>2. CASE b # a
      <4>1. b < a /\ laneOf[b] # None
        BY <1>7, <2>3, <3>2 DEF Laned
      <4>2. x # a
        BY <1>1, <2>3, <4>1
      <4> QED
        BY <1>7, <2>3, <3>2, <4>1, <4>2 DEF IInv, LaneInv, LaneChain
    <3> QED
      BY <3>1, <3>2
  <2>4. ASSUME NEW b \in Activations, laneOf'[b] # None, ready'[b] # None
        PROVE  laneOf'[ready'[b]] = laneOf'[b] /\ ready'[b] < b
    <3>1. CASE b = a
      <4>1. ready'[b] = tail[l] /\ laneOf'[b] = l
        BY <1>7, <3>1
      <4>2. laneOf[tail[l]] = l /\ tail[l] \in Activations /\ tail[l] < a
        BY <1>10, <2>4, <4>1
      <4>3. tail[l] # a
        BY <1>7, <4>2
      <4>4. laneOf'[tail[l]] = laneOf[tail[l]]
        BY <1>7, <4>2, <4>3
      <4> QED
        BY <3>1, <4>1, <4>2, <4>4
    <3>2. CASE b # a
      <4>1. /\ laneOf[ready[b]] = laneOf[b] /\ ready[b] < b /\ ready[b] \in Activations
            /\ laneOf[b] # None
        BY <1>1, <1>7, <2>4, <3>2 DEF IInv, LaneInv, LaneChain
      <4> QED
        BY <1>7, <3>2, <4>1
    <3> QED
      BY <3>1, <3>2
  <2> QED
    BY <2>1, <2>2, <2>3, <2>4 DEF LaneChain
<1>13. LaneOrder'
  <2> SUFFICES ASSUME NEW x \in Activations, NEW b \in Activations,
                      laneOf'[b] # None, laneOf'[x] = laneOf'[b], x < b, proc'[b] # "waiting"
               PROVE  x \in done'
    BY DEF LaneOrder
  <2>1. b # a /\ laneOf[b] # None /\ b < a /\ proc[b] # "waiting"
    BY <1>7 DEF Laned
  <2>2. x # a
    BY <1>1, <2>1
  <2> QED
    BY <1>5, <1>7, <2>1, <2>2 DEF IInv, LaneInv, LaneOrder
<1>14. /\ TurnHolders' = TurnHolders \cup {a} /\ a \notin TurnHolders
       /\ a \notin done
  <2>1. a \notin done
    BY DEF IInv, TurnsMatch
  <2> QED
    BY <1>5, <1>7, <2>1 DEF TurnHolders
<1>15. ASSUME ~shutdown', NEW x \in TurnHolders, run[x] = r
       PROVE  laneOf[x] = l
  <2>1. runLocks[r] = laneOf[x] /\ laneOf[x] # None
    BY <1>2, <1>15 DEF IInv, LaneInv, LanesAccounted, TurnHolders
  <2> QED
    BY <1>4, <2>1
<1>16. LaneShared'
  <2> SUFFICES ASSUME ~shutdown', NEW x \in TurnHolders', NEW b \in Activations,
                      laneOf'[b] # None, x < b, run[x] = run[b]
               PROVE  laneOf'[x] = laneOf'[b]
    BY <1>2 DEF LaneShared
  <2>1. b = a \/ (b < a /\ laneOf[b] # None)
    BY <1>7 DEF Laned
  <2>2. x # a /\ x \in TurnHolders /\ x \in Activations
    BY <1>1, <1>14, <2>1 DEF TurnHolders
  <2>3. CASE b = a
    BY <1>3, <1>7, <1>15, <2>2, <2>3
  <2>4. CASE b # a
    BY <1>2, <1>7, <2>1, <2>2, <2>4 DEF IInv, LaneInv, LaneShared
  <2> QED
    BY <2>3, <2>4
<1>17. \A x \in Activations : refs'[x] = Cardinality({y \in TurnHolders' : laneOf'[y] = x})
  <2>1. \A x \in Activations :
          IsFiniteSet(Held(x)) /\ refs[x] = Cardinality(Held(x)) /\ a \notin Held(x)
    <3>1. \A x \in Activations : Held(x) \in SUBSET Activations
      BY DEF TurnHolders
    <3> QED
      BY <1>14, <3>1, FiniteSets DEF IInv, LaneInv, LanesAccounted
  <2>2. \A x \in Activations :
          {y \in TurnHolders' : laneOf'[y] = x} = IF x = l THEN Held(l) \cup {a} ELSE Held(x)
    BY <1>7, <1>14 DEF TurnHolders
  <2> HIDE DEF Held
  <2>3. Cardinality(Held(l) \cup {a}) = refs[l] + 1
    <3>1. IsFiniteSet(Held(l)) /\ refs[l] = Cardinality(Held(l)) /\ a \notin Held(l)
      BY <2>1
    <3>2. Cardinality(Held(l) \cup {a}) = Cardinality(Held(l)) + 1
      BY ONLY <3>1, FS_AddElement
    <3> QED
      BY <3>1, <3>2
  <2>4. /\ refs'[l] = refs[l] + 1
        /\ \A x \in Activations : x # l => refs'[x] = refs[x]
    BY <1>7
  <2> QED
    BY <2>1, <2>2, <2>3, <2>4
<1>18. ASSUME ~shutdown', NEW x \in TurnHolders'
       PROVE  runLocks'[run'[x]] = laneOf'[x]
  <2>1. CASE x = a
    BY <1>2, <1>3, <1>7, <2>1
  <2>2. CASE x # a
    <3>1. x \in TurnHolders /\ x \in Activations /\ run[x] \in Runs /\ laneOf'[x] = laneOf[x]
      BY <1>7, <1>14, <2>2 DEF IInv, TurnsMatch, TurnHolders
    <3>2. run[x] # r => runLocks[run[x]] = laneOf[x]
      BY <1>2, <1>18, <3>1 DEF IInv, LaneInv, LanesAccounted
    <3> QED
      BY <1>2, <1>7, <1>15, <1>18, <3>1, <3>2
  <2> QED
    BY <2>1, <2>2
<1>19. ASSUME ~shutdown', NEW x \in Runs, runLocks'[x] # None, refs'[runLocks'[x]] = 0
       PROVE  cached'[x] # None
  <2>1. x # r
    BY <1>1, <1>7, <1>19
  <2>2. /\ runLocks'[x] = runLocks[x] /\ runLocks[x] \in Activations
        /\ laneOf[runLocks[x]] = runLocks[x] /\ run[runLocks[x]] = x
    BY <1>1, <1>7, <1>19, <2>1 DEF IInv, LaneInv, LaneShape
  <2>3. runLocks[x] # l
    BY <1>8, <1>9, <2>1, <2>2
  <2> QED
    BY <1>2, <1>7, <1>19, <2>2, <2>3 DEF IInv, LaneInv, LanesAccounted
<1>20. LanesAccounted'
  BY <1>17, <1>18, <1>19 DEF LanesAccounted
<1>21. CacheMatches' /\ NoExecutionLost'
  <2>1. a \notin Laned
    BY DEF Laned
  <2>2. \A x \in Laned : laneOf'[x] = laneOf[x] /\ run'[x] = run[x]
    BY <1>2, <1>7, <2>1 DEF Laned
  <2>3. \A b \in Activations : proc'[b] = proc[b] \/ proc'[b] = "waiting"
    BY <1>1
  <2> QED
    BY <2>2, <2>3, CacheStays
<1> QED
  BY <1>5, <1>6, <1>7, <1>11, <1>12, <1>13, <1>16, <1>20, <1>21 DEF LaneInv
LEMMA DispatchPreserves == IInv /\ DispatchActivation => IInv'
<1> SUFFICES ASSUME IInv, DispatchActivation PROVE IInv'
  OBVIOUS
<1>1. PICK a \in Activations : a = delivered
  BY OfferedFacts DEF DispatchActivation
<1>2. /\ TakePollActivation /\ poller' = "polling" /\ activeProcessors < MaxTasks
      /\ activeProcessors' = activeProcessors + 1
      /\ \/ /\ run[a] = None /\ UNCHANGED turnVars
            /\ proc' = [proc EXCEPT ![a] = "sending"]
         \/ /\ run[a] # None /\ ReserveRunTurn(a)
            /\ proc' = [proc EXCEPT ![a] = "waiting"]
      /\ UNCHANGED <<pipeVars, delivered, run, kind, ctxCancelled, state, pollOpen, failed,
                     cacheVars>>
  BY <1>1 DEF DispatchActivation, TakePollActivation, ProcessorFree
<1>3. /\ a \notin Taken /\ proc[a] = "none" /\ stage[a] = "new" /\ laneOf[a] = None
      /\ pollOpen /\ state # "finished" /\ Taken' = Taken \cup {a}
  BY <1>1, <1>2, OfferedFacts
<1>4. /\ PipeOK' /\ EndMatches' /\ stage' = stage
  BY <1>2, <1>3, PipeStutters DEF IInv, EndMatches, pipeVars
<1>5. PICK next \in {"sending", "waiting"} : proc' = [proc EXCEPT ![a] = next]
  BY <1>2
<1>6. /\ proc \in [Activations -> ProcessorStates]
      /\ proc' \in [Activations -> ProcessorStates]
      /\ proc'[a] = next /\ \A b \in Activations : b # a => proc'[b] = proc[b]
  BY <1>5 DEF IInv, LoopTypes, ProcessorStates
<1>7. \A x \in Laned : x < a
  BY <1>1, <1>3, LanedTaken DEF IInv, Taken
<1>8. /\ LaneInv' /\ CacheMatches' /\ NoExecutionLost'
      /\ proc'[a] = "waiting" => laneOf'[a] # None
      /\ laneOf'[a] # None => run[a] \in Runs
      /\ \A b \in Activations : b # a => laneOf'[b] = laneOf[b]
      /\ done' = done
      /\ laneOf' \in [Activations -> Activations \cup {None}]
      /\ ready' \in [Activations -> Activations \cup {None}]
      /\ tail' \in [Activations -> Activations \cup {None}]
      /\ refs' \in [Activations -> Nat]
      /\ runLocks' \in [Runs -> Activations \cup {None}]
  <2>1. CASE run[a] = None
    <3>1. /\ UNCHANGED turnVars
          /\ laneOf' = laneOf /\ ready' = ready /\ tail' = tail /\ refs' = refs
          /\ done' = done /\ runLocks' = runLocks /\ proc'[a] = "sending"
      BY <1>2, <1>6, <2>1 DEF turnVars, IInv, LoopTypes
    <3>2. /\ cached' = cached /\ execution' = execution /\ live' = live
          /\ shutdown' = shutdown /\ toStop' = toStop /\ run' = run /\ Cached' = Cached
          /\ TurnHolders' = TurnHolders
      BY <1>2, <3>1 DEF cacheVars, Cached, TurnHolders
    <3>3. LaneShape' /\ LaneChain' /\ LaneOrder' /\ LaneShared'
      <4>1. \A b \in Laned : proc'[b] # "waiting" => proc[b] # "waiting" \/ TurnReady(b)
        BY <1>3, <1>6 DEF Laned
      <4> QED
        BY <3>1, <3>2, <4>1, LanesPersist
    <3>4. LanesAccounted'
      BY <3>1, <3>2, AccountedStays
    <3>5. CacheMatches' /\ NoExecutionLost'
      <4>1. \A b \in Activations : proc'[b] = proc[b] \/ proc'[b] = "sending"
        BY <1>6, <3>1
      <4> QED
        BY <1>2, <3>1, <3>2, <4>1, CacheStays
    <3> QED
      BY <1>3, <3>1, <3>3, <3>4, <3>5 DEF IInv, LoopTypes, LaneInv
  <2>2. CASE run[a] # None
    <3>1. /\ ReserveRunTurn(a) /\ proc' = [proc EXCEPT ![a] = "waiting"]
          /\ UNCHANGED <<run, stage, cacheVars>>
      BY <1>2, <1>4, <2>2
    <3>2. run[a] \in Runs
      BY <2>2 DEF IInv, LoopTypes
    <3> QED
      BY <1>3, <1>7, <2>2, <3>1, <3>2, NewTurn
  <2> QED
    BY <2>1, <2>2
<1>9. FeedMatches'
  <2>1. poller' # "offering" /\ pollOpen' /\ failed' = failed
    BY <1>2, <1>3
  <2> QED
    BY <1>3, <1>4, <1>6, <1>8, <2>1, FiniteSets DEF IInv, FeedMatches
<1>10. /\ activeProcessors' = Cardinality(Busy')
       /\ activeProcessors' \in 0 .. MaxTasks
  <2>1. Busy' = Busy \cup {a} /\ a \notin Busy /\ Busy \in SUBSET Activations
    BY <1>3, <1>6 DEF Busy, Handling
  <2>2. Cardinality(Busy \cup {a}) = Cardinality(Busy) + 1
    BY <2>1, FiniteSets, FS_AddElement DEF IInv
  <2>3. activeProcessors \in 0 .. MaxTasks /\ MaxTasks \in Nat
    BY WorkflowAssumption DEF IInv, LoopTypes
  <2> QED
    BY <1>2, <2>1, <2>2, <2>3 DEF IInv, TurnsMatch
<1>11. TurnsMatch'
  <2>1. run' = run /\ \A b \in Activations : Released(b)' <=> Released(b)
    BY <1>2, <1>4 DEF Released
  <2>2. a \notin done
    BY <1>3 DEF IInv, TurnsMatch
  <2>3. ~Released(a)
    BY <1>3 DEF Released
  <2> QED
    BY <1>3, <1>6, <1>8, <1>10, <2>1, <2>2, <2>3 DEF IInv, TurnsMatch, Handling
<1>12. LoopTypes'
  BY <1>2, <1>6, <1>8, <1>10 DEF IInv, LoopTypes, cacheVars, PollerStates
<1> QED
  BY <1>4, <1>8, <1>9, <1>11, <1>12 DEF IInv
-----------------------------------------------------------------------------
(***************************************************************************)
(* The end of run, and Shutdown.                                           *)
(***************************************************************************)
\* With no processor busy and the pipeline empty, no turn is held.
LEMMA AllReturned ==
  ASSUME IInv, activeProcessors = 0, outstanding = 0
  PROVE  /\ Busy = {} /\ TurnHolders = {}
         /\ \A a \in Taken : /\ proc[a] \in {"none", "gone"}
                             /\ report[a] = "finalized" \/ (stage[a] = "rejected" /\ failed)
<1>1. Busy = {}
  <2>1. Busy \in SUBSET Activations
    BY DEF Busy
  <2> QED
    BY <2>1, FiniteSets, FS_EmptySet DEF IInv, TurnsMatch
<1>2. \A a \in Activations : proc[a] \in {"none", "gone"}
  BY <1>1 DEF IInv, LoopTypes, ProcessorStates, Busy, Handling
<1>3. \A a \in Taken : /\ a \in Activations /\ stage[a] # "new" /\ stage[a] # "refused"
                       /\ stage[a] = "rejected" => failed
  BY <1>2, FiniteSets DEF IInv, FeedMatches
<1>4. \A a \in Activations :
        \/ stage[a] \in {"new", "refused", "rejected"}
        \/ report[a] = "finalized" /\ stage[a] \in {"leaving", "done"}
  BY EmptyPipe DEF IInv
<1>5. \A a \in Taken : Released(a)
  BY <1>3, <1>4 DEF Released
<1>6. TurnHolders = {}
  BY <1>5, LanedTurns, LanedTaken DEF IInv
<1> QED
  BY <1>1, <1>2, <1>3, <1>4, <1>6

LEMMA EmptyMapsEffect ==
  ASSUME IInv, EmptyMaps, UNCHANGED <<run, proc, laneOf, ready, tail, refs, done>>,
         shutdown => shutdown', shutdown' \/ TurnHolders = {}
  PROVE  /\ LaneInv' /\ Cached' = {} /\ TurnHolders' = TurnHolders
         /\ cached' \in [Runs -> Activations \cup {None}]
         /\ runLocks' \in [Runs -> Activations \cup {None}]
         /\ \A r \in Runs : cached'[r] = None
<1>1. /\ cached' = [r \in Runs |-> None] /\ runLocks' = [r \in Runs |-> None]
      /\ TurnHolders' = TurnHolders
  BY DEF EmptyMaps, TurnHolders
<1>2. LaneShape' /\ LaneChain' /\ LaneOrder' /\ LaneShared'
  BY <1>1, LanesPersist
<1>3. LanesAccounted'
  BY <1>1 DEF IInv, LaneInv, LanesAccounted
<1>4. Cached' = {}
  BY <1>1 DEF Cached
<1> QED
  BY <1>1, <1>2, <1>3, <1>4 DEF LaneInv
LEMMA FinishPreserves == IInv /\ Finish => IInv'
<1> SUFFICES ASSUME IInv, Finish PROVE IInv'
  OBVIOUS
<1>1. /\ state # "running" /\ ~pollOpen /\ activeProcessors = 0 /\ outstanding = 0
      /\ state' = "finished" /\ EmptyMaps /\ live' = live \ Cached
      /\ UNCHANGED <<pipeVars, feedVars, ctxCancelled, pollOpen, failed, activeProcessors,
                     proc, execution, displacedBy, shutdown, toStop,
                     laneOf, ready, tail, refs, done>>
  BY DEF Finish, ShouldFinish
<1>2. Busy = {} /\ TurnHolders = {}
  BY <1>1, AllReturned
<1>3. run' = run /\ delivered' = delivered /\ poller' = poller /\ kind' = kind
  BY <1>1 DEF feedVars
<1>4. /\ LaneInv' /\ Cached' = {} /\ TurnHolders' = TurnHolders
      /\ cached' \in [Runs -> Activations \cup {None}]
      /\ runLocks' \in [Runs -> Activations \cup {None}]
  BY <1>1, <1>2, <1>3, EmptyMapsEffect
<1>5. PipeOK' /\ stage' = stage /\ outstanding' = outstanding
  BY <1>1, PipeStutters DEF IInv, pipeVars
<1>6. EndMatches'
  BY <1>1, <1>5 DEF IInv, EndMatches
<1>7. LoopTypes'
  BY <1>1, <1>3, <1>4 DEF IInv, LoopTypes
<1>8. FeedMatches'
  BY <1>1, <1>3, <1>5 DEF IInv, FeedMatches, Taken
<1>9. TurnsMatch'
  BY <1>1, <1>3, <1>5 DEF IInv, TurnsMatch, Busy, Released
<1>10. CacheMatches'
  <2>1. Laned' = Laned /\ live' \subseteq live /\ \A r \in Runs : cached'[r] = None
    BY <1>1 DEF Laned, EmptyMaps
  <2>2. \A a \in Activations : proc[a] \notin {"evicting", "activating"}
    BY <1>2 DEF Busy, Handling
  <2> QED
    BY <1>1, <2>1, <2>2 DEF IInv, CacheMatches, ExecutionsNamed
<1>11. NoExecutionLost'
  BY <1>1, <1>4 DEF IInv, NoExecutionLost
<1> QED
  BY <1>4, <1>5, <1>6, <1>7, <1>8, <1>9, <1>10, <1>11 DEF IInv

LEMMA ShutdownPreserves == IInv /\ CallShutdown => IInv'
<1> SUFFICES ASSUME IInv, CallShutdown PROVE IInv'
  OBVIOUS
<1>1. /\ ~shutdown /\ shutdown' = TRUE /\ toStop' = Cached /\ EmptyMaps
      /\ UNCHANGED <<pipeVars, feedVars, ctxCancelled, loopVars, proc, execution, live,
                     displacedBy, laneOf, ready, tail, refs, done>>
  BY DEF CallShutdown
<1>2. /\ run' = run /\ delivered' = delivered /\ poller' = poller /\ kind' = kind
      /\ state' = state /\ pollOpen' = pollOpen /\ failed' = failed
      /\ activeProcessors' = activeProcessors
  BY <1>1 DEF feedVars, loopVars
<1>3. /\ LaneInv' /\ Cached' = {} /\ TurnHolders' = TurnHolders
      /\ cached' \in [Runs -> Activations \cup {None}]
      /\ runLocks' \in [Runs -> Activations \cup {None}]
      /\ \A r \in Runs : cached'[r] = None
  BY <1>1, <1>2, EmptyMapsEffect
<1>4. PipeOK' /\ stage' = stage /\ outstanding' = outstanding
  BY <1>1, PipeStutters DEF IInv, pipeVars
<1>5. EndMatches'
  BY <1>1, <1>2, <1>4 DEF IInv, EndMatches
<1>6. LoopTypes'
  <2>1. toStop' \subseteq Activations
    BY <1>1 DEF IInv, LoopTypes, Cached
  <2> QED
    BY <1>1, <1>2, <1>3, <2>1 DEF IInv, LoopTypes
<1>7. FeedMatches'
  BY <1>1, <1>2, <1>4 DEF IInv, FeedMatches, Taken
<1>8. TurnsMatch'
  BY <1>1, <1>2, <1>4 DEF IInv, TurnsMatch, Busy, Released
<1>9. CacheMatches'
  <2>1. \A a \in Activations : proc[a] \in Handling => run[a] \in Runs
    BY HandlingFacts
  <2>2. ExecutionsNamed'
    BY <1>1, <1>3 DEF IInv, CacheMatches, ExecutionsNamed, Laned
  <2> QED
    BY <1>1, <1>2, <1>3, <2>1, <2>2 DEF CacheMatches, Handling
<1>10. NoExecutionLost'
  <2>1. live \subseteq Cached
    BY <1>1 DEF IInv, NoExecutionLost, CacheMatches
  <2> QED
    BY <1>1, <2>1 DEF NoExecutionLost
<1> QED
  BY <1>3, <1>4, <1>5, <1>6, <1>7, <1>8, <1>9, <1>10 DEF IInv

LEMMA StopPreserves ==
  ASSUME IInv, NEW e \in Activations, StopExecution(e)
  PROVE  IInv'
<1>1. /\ e \in toStop /\ toStop' = toStop \ {e} /\ live' = live \ {e}
      /\ UNCHANGED <<pipeVars, feedVars, ctxCancelled, loopVars, proc, cached, execution,
                     displacedBy, turnVars, shutdown>>
  BY DEF StopExecution
<1>2. /\ run' = run /\ delivered' = delivered /\ poller' = poller /\ kind' = kind
      /\ state' = state /\ pollOpen' = pollOpen /\ failed' = failed
      /\ activeProcessors' = activeProcessors
      /\ runLocks' = runLocks /\ laneOf' = laneOf /\ ready' = ready /\ tail' = tail
      /\ refs' = refs /\ done' = done
      /\ TurnHolders' = TurnHolders /\ Cached' = Cached
  BY <1>1 DEF feedVars, loopVars, turnVars, TurnHolders, Cached
<1>3. PipeOK' /\ stage' = stage /\ outstanding' = outstanding
  BY <1>1, PipeStutters DEF IInv, pipeVars
<1>4. LoopTypes' /\ EndMatches'
  BY <1>1, <1>2, <1>3 DEF IInv, LoopTypes, EndMatches
<1>5. FeedMatches' /\ TurnsMatch'
  BY <1>1, <1>2, <1>3 DEF IInv, FeedMatches, Taken, TurnsMatch, Busy, Released
<1>6. LaneInv'
  <2>1. LaneShape' /\ LaneChain' /\ LaneOrder' /\ LaneShared'
    BY <1>1, <1>2, LanesPersist
  <2>2. LanesAccounted'
    BY <1>1, <1>2, AccountedStays
  <2> QED
    BY <2>1, <2>2 DEF LaneInv
<1>7. CacheMatches'
  <2>1. ExecutionsNamed'
    BY <1>1, <1>2 DEF IInv, CacheMatches, ExecutionsNamed, Laned
  <2> QED
    BY <1>1, <1>2, <2>1 DEF IInv, CacheMatches
<1>8. NoExecutionLost'
  BY <1>1, <1>2 DEF IInv, NoExecutionLost
<1> QED
  BY <1>3, <1>4, <1>5, <1>6, <1>7, <1>8 DEF IInv

LEMMA StepInvariant == IInv /\ [Next]_vars => IInv'
<1> SUFFICES ASSUME IInv, [Next]_vars PROVE IInv'
  OBVIOUS
<1>1. CASE PollReturnsActivation
  BY <1>1, PollReturnsActivationPreserves
<1>2. CASE \/ PollReturnsError \/ PollerGivesUp \/ CancelContext \/ TakeContextDone
           \/ TakePollClosed \/ TakePollError \/ UNCHANGED vars
  BY <1>2, QuietStepsPreserve
<1>3. CASE TakeUndecodable \/ DispatchOverLimit
  BY <1>3, AnswerOutsidePreserves
<1>4. CASE DispatchActivation \/ Finish \/ CallShutdown
  BY <1>4, DispatchPreserves, FinishPreserves, ShutdownPreserves
<1>5. ASSUME NEW a \in Activations, BeginHandling(a) \/ FinishHandling(a)
      PROVE  IInv'
  BY <1>5, BeginPreserves, FinishHandlingPreserves
<1>6. ASSUME NEW a \in Activations, Submit(a) \/ AfterSubmit(a) \/ ReportResult(a)
      PROVE  IInv'
  BY <1>6, PipelinePreserves, AfterSubmitPreserves
<1>7. ASSUME NEW a \in Activations,
             TakeProcessorResult(a) \/ TakeCompletionResult(a) \/ StopExecution(a)
      PROVE  IInv'
  BY <1>7, ProcessorResultPreserves, ResultPreserves, StopPreserves
<1> QED
  BY <1>1, <1>2, <1>3, <1>4, <1>5, <1>6, <1>7 DEF Next, LoopBranch
-----------------------------------------------------------------------------
(***************************************************************************)
(* The theorems.                                                           *)
(***************************************************************************)
\* The strengthened invariant: the chain of turns in each lane, who holds them,
\* and what the cache says of the run a processor is at work on.
THEOREM Invariance == Spec => []IInv
BY InitInvariant, StepInvariant, PTL DEF Spec

\* Every variable keeps its type; the processors never exceed the limit.
THEOREM TypeCorrect == Spec => []TypeOK
<1>1. IInv => TypeOK
  <2>1. IInv => Pipe!TypeOK
    BY SamePipeType DEF IInv, PipeOK, PP!IInv
  <2> QED
    BY <2>1 DEF IInv, LoopTypes, TypeOK
<1> QED
  BY <1>1, Invariance, PTL

\* processActivation waits for the previous turn, and AfterSubmit closes its
\* own: no activation of a run is handled before the completion of the one
\* before it has been submitted.
THEOREM LaneHeld == Spec => []LaneHeldUntilSubmitted
<1>1. IInv => LaneHeldUntilSubmitted
  <2> SUFFICES ASSUME IInv, NEW a \in TurnHolders \cup done, NEW b \in TurnHolders \cup done,
                      a < b, run[a] = run[b], laneOf[a] = laneOf[b] \/ ~shutdown,
                      proc[b] # "waiting"
               PROVE  Settled(a)
    BY DEF LaneHeldUntilSubmitted
  <2>1. a \in Laned /\ b \in Laned /\ a \in Activations /\ b \in Activations
    BY LanedTurns DEF IInv, Laned
  <2>2. a \notin done => laneOf[a] = laneOf[b]
    BY <2>1 DEF IInv, LaneInv, LaneShared, Laned
  <2>3. a \in done
    BY <2>1, <2>2 DEF IInv, LaneInv, LaneOrder, Laned
  <2>4. Released(a)
    BY <2>1, <2>3 DEF IInv, TurnsMatch
  <2> QED
    BY <2>1, <2>4 DEF Released, Settled, IInv, PipeOK, PP!OutcomesKnown, PP!Returned
<1> QED
  BY <1>1, Invariance, PTL

\* reserveRunTurn and releaseRunTurn count the turns of a lane exactly, and drop
\* a lane neither while somebody holds a turn of it nor too late.
THEOREM LanesAreAccounted == Spec => []LanesAccounted
<1>1. IInv => LanesAccounted
  BY DEF IInv, LaneInv
<1> QED
  BY <1>1, Invariance, PTL

\* An execution that runs on, neither cached nor about to be stopped, was removed
\* from the cache by the deleteRun of an activation of another lane of its run,
\* after a Shutdown, and by nothing else.
THEOREM NoneLost == Spec => []NoExecutionLost
<1>1. IInv => NoExecutionLost
  BY DEF IInv
<1> QED
  BY <1>1, Invariance, PTL

\* When run returns, the poller is gone, every turn given back and every
\* activation it took answered, whatever was refused and whenever it was shut
\* down.
THEOREM QuietAtTheEnd == Spec => []FinishedIsQuiet
<1>1. IInv => FinishedIsQuiet
  <2> SUFFICES ASSUME IInv, state = "finished"
               PROVE  /\ ctxCancelled \/ failed
                      /\ poller = "closed"
                      /\ TurnHolders = {}
                      /\ \A a \in 1 .. delivered :
                           /\ proc[a] \in {"none", "gone"}
                           /\ report[a] = "finalized" \/ (stage[a] = "rejected" /\ failed)
    BY DEF FinishedIsQuiet
  <2>1. /\ ctxCancelled \/ failed
        /\ ~pollOpen /\ activeProcessors = 0 /\ outstanding = 0
        /\ poller = "closed"
    BY DEF IInv, EndMatches, FeedMatches
  <2>2. Taken = 1 .. delivered
    BY <2>1 DEF Taken
  <2> QED
    BY <2>1, <2>2, AllReturned
<1> QED
  BY <1>1, Invariance, PTL
-----------------------------------------------------------------------------
(***************************************************************************)
(* The pipeline inside the loop: each step of the loop is at most one step *)
(* of the pipeline, or a receive and the finalize that follows it.         *)
(***************************************************************************)
PipeMoves(a) ==
  PP!EnqueueAccepted(a) \/ PP!EnqueueRejected(a) \/ PP!Run(a) \/ PP!ReceiveAndFinalize(a)

LEMMA LoopMovesPipe ==
  ASSUME IInv, Next
  PROVE  UNCHANGED pipeVars \/ \E a \in Activations : PipeMoves(a)
<1>1. PollReturnsActivation \/ PollReturnsError \/ PollerGivesUp \/ CancelContext
        \/ TakeContextDone \/ TakePollClosed \/ TakePollError => UNCHANGED pipeVars
  BY DEF PollReturnsActivation, PollReturnsError, PollerGivesUp, CancelContext, TakeContextDone,
         TakePollClosed, TakePollError
<1>2. DispatchActivation \/ Finish \/ CallShutdown => UNCHANGED pipeVars
  BY DEF DispatchActivation, Finish, CallShutdown
<1>3. ASSUME NEW a \in Activations, BeginHandling(a) \/ FinishHandling(a) \/ StopExecution(a)
      PROVE  UNCHANGED pipeVars
  BY <1>3 DEF BeginHandling, FinishHandling, StopExecution
<1>4. CASE TakeUndecodable \/ DispatchOverLimit
  <2>1. delivered \in Activations
    BY <1>4, OfferedFacts DEF TakeUndecodable, DispatchOverLimit
  <2>2. Pipe!EnqueueAccepted(delivered) \/ Pipe!EnqueueRejected(delivered)
    BY <1>4 DEF TakeUndecodable, DispatchOverLimit, EnqueueCompletion
  <2> QED
    BY <2>1, <2>2, SamePipe DEF PipeMoves
<1>5. ASSUME NEW a \in Activations, TakeProcessorResult(a)
      PROVE  PipeMoves(a)
  BY <1>5, SamePipe DEF TakeProcessorResult, EnqueueCompletion, PipeMoves
<1>6. ASSUME NEW a \in Activations, Submit(a) \/ AfterSubmit(a) \/ ReportResult(a)
      PROVE  PipeMoves(a)
  BY <1>6, SamePipe DEF Submit, AfterSubmit, ReportResult, PipeMoves, PP!Run
<1>7. ASSUME NEW a \in Activations, TakeCompletionResult(a)
      PROVE  PipeMoves(a)
  <2>1. PP!ReceiveAndFinalize(a)
    BY <1>7, SameLimits DEF TakeCompletionResult, PP!ReceiveAndFinalize
  <2> QED
    BY <2>1 DEF PipeMoves
<1> QED
  BY <1>1, <1>2, <1>3, <1>4, <1>5, <1>6, <1>7 DEF Next, LoopBranch

\* The pipeline of the workflow loop keeps what it keeps alone, whatever the
\* loop hands it and when: its counters, its queue and channel, and the weight of
\* the completions it retains, which without options never exceeds 64 MiB.
THEOREM PipelineSound ==
  Spec => [](/\ PP!CountersMatch /\ PP!WorkConserving /\ PP!ChannelsConsistent
             /\ PP!WeightMatches /\ totalWeight <= Pipe!DefaultMaxOutstandingWeight)
<1>1. Init => PP!WeightInv
  BY SamePipeInit, PipeAssumptions, PP!WeightInit DEF Init
<1>2. ASSUME IInv, PP!WeightInv, [Next]_vars PROVE PP!WeightInv'
  <2>1. CASE UNCHANGED pipeVars
    <3>1. UNCHANGED PP!vars
      BY <2>1 DEF pipeVars, PP!vars
    <3> QED
      BY <1>2, <3>1, PipeAssumptions, PP!WeightStutter
  <2>2. ASSUME NEW a \in Activations, PipeMoves(a) PROVE PP!WeightInv'
    BY <1>2, <2>2, PipeAssumptions, PP!WeightAccepted, PP!WeightTurnedAway, PP!WeightRun,
       PP!WeightConsumed
    DEF PipeMoves
  <2>3. UNCHANGED vars => UNCHANGED pipeVars
    BY DEF vars
  <2> QED
    BY <1>2, <2>1, <2>2, <2>3, LoopMovesPipe
<1>3. ASSUME PP!WeightInv
      PROVE  /\ PP!CountersMatch /\ PP!WorkConserving /\ PP!ChannelsConsistent
             /\ PP!WeightMatches /\ totalWeight <= Pipe!DefaultMaxOutstandingWeight
  <2>1. PP!CountersMatch /\ PP!WorkConserving /\ PP!ChannelsConsistent
    BY <1>3 DEF PP!WeightInv, PP!IInv
  <2>2. PP!WeightMatches
    BY <1>3 DEF PP!WeightInv, PP!WeightMatches, PP!Total
  <2>3. PP!MaxWeight = Pipe!DefaultMaxOutstandingWeight
    BY DEF PP!MaxWeight, PP!DefaultMaxOutstandingWeight, Pipe!DefaultMaxOutstandingWeight
  <2>4. totalWeight <= Pipe!DefaultMaxOutstandingWeight
    BY <1>3, <2>3 DEF PP!WeightInv
  <2> QED
    BY <2>1, <2>2, <2>4
<1> QED
  BY Invariance, <1>1, <1>2, <1>3, PTL DEF Spec
-----------------------------------------------------------------------------
(***************************************************************************)
(* A Core that waits: it returns an activation of a run only when the      *)
(* completion of the one before has been submitted.                        *)
(***************************************************************************)
CoreWaits ==
  PollReturnsActivation =>
    \A b \in 1 .. delivered : run[b] # None /\ run[b] = run'[delivered'] => outcome[b] # "none"

\* Then one processor is at work for a run, whatever lanes Shutdown has dropped.
OneAtATime ==
  /\ \A b \in Activations : displacedBy[b] = None
  /\ \A b \in Activations : stage[b] = "new" => outcome[b] = "none"
  /\ poller = "offering" =>
       \A b \in Taken : run[b] # None /\ run[b] = run[delivered] => outcome[b] # "none"
  /\ \A b, c \in Activations :
       proc[b] \in Handling /\ proc[c] \in Handling /\ run[b] = run[c] => b = c
  /\ \A b \in Activations :
       proc[b] \in {"evicting", "activating"} => cached[run[b]] \in {execution[b], None}

OutcomesGrow ==
  \A b \in Activations :
    /\ outcome[b] # "none" => outcome'[b] # "none"
    /\ stage'[b] = "new" => stage[b] = "new" /\ outcome'[b] = outcome[b]

LEMMA SubmissionsLast == ASSUME IInv, [Next]_vars PROVE OutcomesGrow
<1>1. UNCHANGED pipeVars => OutcomesGrow
  BY DEF pipeVars, OutcomesGrow
<1>2. /\ stage \in [Activations -> PP!Stages]
      /\ outcome \in [Activations -> {"none", "ok", "failed"}]
  BY DEF IInv, PipeOK, PP!IInv, PP!TypeOK
<1>3. ASSUME NEW a \in Activations, PipeMoves(a) PROVE OutcomesGrow
  <2>1. CASE PP!EnqueueAccepted(a) \/ PP!EnqueueRejected(a)
    BY <1>2, <2>1 DEF PP!EnqueueAccepted, PP!EnqueueRejected, OutcomesGrow
  <2>2. CASE PP!Submit(a)
    BY <1>2, <2>2 DEF PP!Submit, OutcomesGrow
  <2>3. CASE PP!AfterSubmit(a) \/ PP!SendResult(a)
    BY <1>2, <2>3 DEF PP!AfterSubmit, PP!SendResult, OutcomesGrow
  <2>4. CASE PP!FinishAndTakeNext(a)
    BY <1>2, <2>4 DEF PP!FinishAndTakeNext, OutcomesGrow
  <2>5. CASE PP!ReceiveAndFinalize(a)
    BY <2>5 DEF PP!ReceiveAndFinalize, OutcomesGrow
  <2> QED
    BY <1>3, <2>1, <2>2, <2>3, <2>4, <2>5 DEF PipeMoves, PP!Run
<1>4. UNCHANGED vars => UNCHANGED pipeVars
  BY DEF vars
<1> QED
  BY <1>1, <1>3, <1>4, LoopMovesPipe

\* Steps that begin nothing for a run.
LEMMA NothingBegins ==
  ASSUME IInv, OneAtATime, OutcomesGrow,
         UNCHANGED <<run, execution, displacedBy>>,
         poller' = "offering" => poller = "offering" /\ delivered' = delivered,
         \A b \in Activations : proc'[b] = proc[b] \/ proc'[b] \notin Handling,
         \A r \in Runs : cached'[r] \in {cached[r], None}
  PROVE  OneAtATime'
<1>1. \A b \in Activations : proc'[b] \in Handling => proc[b] \in Handling /\ proc'[b] = proc[b]
  OBVIOUS
<1>2. ASSUME poller' = "offering", NEW b \in Taken', run[b] # None, run[b] = run[delivered']
      PROVE  outcome'[b] # "none"
  <2>1. b \in Taken /\ b \in Activations
    BY <1>2, FiniteSets DEF Taken, IInv
  <2>2. outcome[b] # "none"
    BY <1>2, <2>1 DEF OneAtATime
  <2> QED
    BY <2>1, <2>2 DEF OutcomesGrow
<1>3. ASSUME NEW b \in Activations, proc'[b] \in {"evicting", "activating"}
      PROVE  cached'[run[b]] \in {execution[b], None}
  <2>1. proc[b] \in {"evicting", "activating"} /\ run[b] \in Runs
    BY <1>1, <1>3, HandlingFacts DEF Handling
  <2> QED
    BY <2>1 DEF OneAtATime
<1>4. \A b \in Activations : stage'[b] = "new" => outcome'[b] = "none"
  BY DEF OneAtATime, OutcomesGrow
<1> QED
  BY <1>1, <1>2, <1>3, <1>4 DEF OneAtATime

LEMMA ReturnsOneAtATime ==
  ASSUME IInv, OneAtATime, OutcomesGrow, CoreWaits, PollReturnsActivation
  PROVE  OneAtATime'
<1>1. /\ delivered \in Nat /\ delivered' = delivered + 1 /\ delivered' \in Activations
      /\ 1 .. delivered \subseteq Activations
      /\ poller = "polling" /\ proc' = proc /\ cached' = cached /\ execution' = execution
      /\ displacedBy' = displacedBy /\ outcome' = outcome /\ stage' = stage
  BY WorkflowAssumption
  DEF IInv, LoopTypes, Activations, PollReturnsActivation, cacheVars, pipeVars
<1>2. \A a \in Activations : a # delivered' => run'[a] = run[a]
  BY <1>1 DEF PollReturnsActivation, IInv, LoopTypes
<1>3. Taken = 1 .. delivered /\ Taken' = 1 .. delivered
  BY <1>1 DEF Taken, PollReturnsActivation
<1>4. delivered' \notin 1 .. delivered /\ proc[delivered'] = "none"
  BY <1>1, <1>3 DEF IInv, FeedMatches
<1>5. \A b \in Activations : proc[b] \in Handling => run'[b] = run[b]
  BY <1>2, <1>4 DEF Handling
<1>6. \A b \in Taken' : run'[b] # None /\ run'[b] = run'[delivered'] => outcome'[b] # "none"
  BY <1>1, <1>2, <1>3, <1>4 DEF CoreWaits
<1>7. \A b \in Activations : proc[b] \in {"evicting", "activating"} => proc[b] \in Handling
  BY DEF Handling
<1> QED
  BY <1>1, <1>5, <1>6, <1>7 DEF OneAtATime

LEMMA DispatchesOneAtATime ==
  ASSUME IInv, OneAtATime, OutcomesGrow, DispatchActivation
  PROVE  OneAtATime'
<1>1. PICK a \in Activations : a = delivered
  BY OfferedFacts DEF DispatchActivation
<1>2. /\ poller = "offering" /\ poller' = "polling" /\ run' = run
      /\ stage' = stage /\ outcome' = outcome
      /\ cached' = cached /\ execution' = execution /\ displacedBy' = displacedBy
      /\ proc' = [proc EXCEPT ![a] = IF run[a] = None THEN "sending" ELSE "waiting"]
  BY <1>1 DEF DispatchActivation, TakePollActivation, cacheVars, pipeVars
<1>3. /\ proc'[a] = IF run[a] = None THEN "sending" ELSE "waiting"
      /\ \A b \in Activations : b # a => proc'[b] = proc[b]
  BY <1>2 DEF IInv, LoopTypes
<1>4. ASSUME NEW b \in Activations, proc[b] \in Handling PROVE run[b] # run[a]
  <2>1. b \in Taken /\ stage[b] = "new" /\ run[b] \in Runs
    BY <1>4, HandlingFacts
  <2>2. run[b] # None
    BY <2>1, WorkflowAssumption
  <2> QED
    BY <1>1, <1>2, <2>1, <2>2 DEF OneAtATime
<1>5. \A b, c \in Activations :
        proc'[b] \in Handling /\ proc'[c] \in Handling /\ run[b] = run[c] => b = c
  BY <1>3, <1>4 DEF OneAtATime
<1>6. \A b \in Activations :
        proc'[b] \in {"evicting", "activating"} => cached[run[b]] \in {execution[b], None}
  BY <1>3 DEF OneAtATime
<1> QED
  BY <1>2, <1>5, <1>6 DEF OneAtATime

LEMMA BeginsOneAtATime ==
  ASSUME IInv, OneAtATime, OutcomesGrow, NEW a \in Activations, BeginHandling(a)
  PROVE  OneAtATime'
<1>1. /\ proc[a] = "waiting" /\ run[a] \in Runs
      /\ run' = run /\ delivered' = delivered /\ poller' = poller /\ Taken' = Taken
      /\ stage' = stage /\ outcome' = outcome /\ displacedBy' = displacedBy
  BY HandlingFacts DEF BeginHandling, Handling, feedVars, pipeVars, Taken
<1>2. /\ cached \in [Runs -> Activations \cup {None}]
      /\ proc \in [Activations -> ProcessorStates]
      /\ execution \in [Activations -> Activations \cup {None}]
  BY DEF IInv, LoopTypes
<1>3. PICK next \in {"evicting", "activating", "answering"}, e \in Activations \cup {None} :
        /\ proc' = [proc EXCEPT ![a] = next]
        /\ execution' = [execution EXCEPT ![a] = e]
        /\ \/ /\ cached' = cached
              /\ next # "answering" => e = cached[run[a]]
           \/ e = a /\ cached' = [cached EXCEPT ![run[a]] = a]
  BY <1>1, <1>2 DEF BeginHandling
<1>4. \A b \in Activations : b # a => proc'[b] = proc[b] /\ execution'[b] = execution[b]
  BY <1>2, <1>3
<1>5. \A b \in Activations : proc'[b] \in Handling => proc[b] \in Handling
  BY <1>1, <1>4 DEF Handling
<1>6. ASSUME NEW b \in Activations, proc'[b] \in {"evicting", "activating"}
      PROVE  cached'[run[b]] \in {execution'[b], None}
  <2>1. CASE b = a
    BY <1>1, <1>2, <1>3, <1>6, <2>1
  <2>2. CASE b # a
    <3>1. proc[b] \in {"evicting", "activating"} /\ run[b] \in Runs
      BY <1>4, <1>6, <2>2, HandlingFacts DEF Handling
    <3>2. run[b] # run[a] /\ cached[run[b]] \in {execution[b], None}
      BY <1>1, <2>2, <3>1 DEF OneAtATime, Handling
    <3> QED
      BY <1>1, <1>2, <1>3, <1>4, <2>2, <3>1, <3>2
  <2> QED
    BY <2>1, <2>2
<1> QED
  BY <1>1, <1>5, <1>6 DEF OneAtATime

LEMMA EndsOneAtATime ==
  ASSUME IInv, OneAtATime, OutcomesGrow, NEW a \in Activations, FinishHandling(a)
  PROVE  OneAtATime'
<1>1. /\ proc[a] \in {"evicting", "activating", "answering"} /\ run[a] \in Runs
      /\ run' = run /\ delivered' = delivered /\ poller' = poller /\ Taken' = Taken
      /\ stage' = stage /\ outcome' = outcome
  BY HandlingFacts DEF FinishHandling, Handling, feedVars, pipeVars, Taken
<1>2. /\ cached \in [Runs -> Activations \cup {None}]
      /\ proc \in [Activations -> ProcessorStates]
      /\ execution \in [Activations -> Activations \cup {None}]
      /\ None \notin Activations
  BY WorkflowAssumption DEF IInv, LoopTypes
<1>3. \A b \in Activations : b # a => proc'[b] = proc[b] /\ execution'[b] = execution[b]
  BY <1>2 DEF FinishHandling
<1>4. proc'[a] = "sending"
  BY <1>2 DEF FinishHandling
<1>5. \A b \in Activations : proc'[b] \in Handling => proc[b] \in Handling
  BY <1>3, <1>4 DEF Handling
<1>6. /\ \A r \in Runs : cached'[r] \in {cached[r], None}
      /\ \A e \in Activations : displacedBy'[e] = None
  <2>1. CASE cached' = cached /\ displacedBy' = displacedBy
    BY <2>1 DEF OneAtATime
  <2>2. CASE proc[a] # "answering" /\ StopAndDelete(a)
    <3>1. cached[run[a]] \in {execution[a], None}
      BY <1>1, <2>2 DEF OneAtATime
    <3> QED
      BY <1>2, <2>2, <3>1 DEF StopAndDelete, OneAtATime
  <2> QED
    BY <2>1, <2>2 DEF FinishHandling
<1>7. ASSUME NEW b \in Activations, proc'[b] \in {"evicting", "activating"}
      PROVE  cached'[run[b]] \in {execution'[b], None}
  <2>1. b # a /\ proc[b] \in {"evicting", "activating"} /\ run[b] \in Runs
    BY <1>3, <1>4, <1>7, HandlingFacts DEF Handling
  <2> QED
    BY <1>3, <1>6, <2>1 DEF OneAtATime
<1> QED
  BY <1>1, <1>5, <1>6, <1>7 DEF OneAtATime

LEMMA StepOneAtATime ==
  ASSUME IInv, OneAtATime, [Next /\ CoreWaits]_vars
  PROVE  OneAtATime'
<1>1. OutcomesGrow
  BY SubmissionsLast
<1>2. CASE CoreWaits /\ PollReturnsActivation
  BY <1>1, <1>2, ReturnsOneAtATime
<1>3. CASE DispatchActivation
  BY <1>1, <1>3, DispatchesOneAtATime
<1>4. ASSUME NEW a \in Activations, BeginHandling(a) \/ FinishHandling(a)
      PROVE  OneAtATime'
  BY <1>1, <1>4, BeginsOneAtATime, EndsOneAtATime
<1>5. CASE \/ PollReturnsError \/ PollerGivesUp \/ CancelContext \/ TakeContextDone
           \/ TakePollClosed \/ TakePollError \/ UNCHANGED vars
  <2>1. /\ UNCHANGED <<run, delivered, proc, cacheVars>>
        /\ poller' = poller \/ poller' # "offering"
    BY <1>5
    DEF PollReturnsError, PollerGivesUp, CancelContext, TakeContextDone, TakePollClosed,
        TakePollError, vars, feedVars
  <2> QED
    BY <1>1, <2>1, NothingBegins DEF cacheVars
<1>6. CASE TakeUndecodable \/ DispatchOverLimit
  <2>1. UNCHANGED <<run, delivered, proc, cacheVars>> /\ poller' # "offering"
    BY <1>6 DEF TakeUndecodable, DispatchOverLimit, TakePollActivation
  <2> QED
    BY <1>1, <2>1, NothingBegins DEF cacheVars
<1>7. CASE Finish \/ CallShutdown
  <2>1. /\ UNCHANGED <<run, delivered, poller, proc, execution, displacedBy>>
        /\ \A r \in Runs : cached'[r] = None
    BY <1>7 DEF Finish, CallShutdown, EmptyMaps, feedVars
  <2> QED
    BY <1>1, <2>1, NothingBegins
<1>8. ASSUME NEW a \in Activations,
             \/ Submit(a) \/ AfterSubmit(a) \/ ReportResult(a)
             \/ TakeCompletionResult(a) \/ StopExecution(a)
      PROVE  OneAtATime'
  <2>1. UNCHANGED <<run, delivered, poller, proc, cached, execution, displacedBy>>
    BY <1>8 DEF Submit, AfterSubmit, ReportResult, TakeCompletionResult, StopExecution,
                feedVars, cacheVars
  <2> QED
    BY <1>1, <2>1, NothingBegins
<1>9. ASSUME NEW a \in Activations, TakeProcessorResult(a)
      PROVE  OneAtATime'
  <2>1. UNCHANGED <<run, delivered, poller, cacheVars>>
    BY <1>9 DEF TakeProcessorResult, feedVars
  <2>2. \A b \in Activations : proc'[b] = proc[b] \/ proc'[b] = "gone"
    BY <1>9 DEF TakeProcessorResult, IInv, LoopTypes
  <2> QED
    BY <1>1, <2>1, <2>2, NothingBegins DEF cacheVars, Handling
<1> QED
  BY <1>2, <1>3, <1>4, <1>5, <1>6, <1>7, <1>8, <1>9 DEF Next, LoopBranch

\* deleteRun deletes whatever the run has, and stopAllRuns drops lanes in use:
\* with a Core that waits neither ever costs an execution, and each of them is
\* in the cache or in the hands of Shutdown until it is stopped.
THEOREM NoneLostIfCoreWaits ==
  Spec /\ [][CoreWaits]_vars => [](live \subseteq Cached \cup toStop)
<1>1. Init => OneAtATime
  <2> SUFFICES ASSUME Init PROVE OneAtATime
    OBVIOUS
  <2>1. \A b \in Activations : stage[b] = "new" => outcome[b] = "none"
    BY DEF Init, Pipe!Init
  <2> QED
    BY <2>1 DEF Init, OneAtATime, Handling
<1>2. IInv /\ OneAtATime /\ [Next]_vars /\ [CoreWaits]_vars => OneAtATime'
  BY StepOneAtATime
<1>3. IInv /\ OneAtATime => live \subseteq Cached \cup toStop
  BY DEF IInv, LoopTypes, NoExecutionLost, OneAtATime
<1> QED
  BY Invariance, <1>1, <1>2, <1>3, PTL DEF Spec
=============================================================================
