------------------------ MODULE ActivityRunLoopProofs ------------------------
(***************************************************************************)
(* Proofs about ActivityRunLoop, for any number of tasks and any tokens,   *)
(* offers, weights and limit. The completions go through a pipeline, so    *)
(* the lemmas of CompletionPipeProofs are used through an instance of it.  *)
(***************************************************************************)
EXTENDS ActivityRunLoop, FiniteSetTheorems, TLAPS

PP == INSTANCE CompletionPipeWeightProofs WITH
  Tickets <- Completions, NilSubmit <- {}, LimitArg <- MaxActivities,
  ItemsOption <- None, WeightOption <- None, NoOption <- None

PipeOK == PP!IInv /\ PP!OutcomesKnown

LoopTypes ==
  /\ delivered \in 0 .. MaxPolled
  /\ token \in [Tasks -> Tokens \cup {None}]
  /\ kind \in [Tasks -> Kinds \cup {None}]
  /\ poller \in {"polling", "offering", "failing", "cancelling", "closed"}
  /\ ctxCancelled \in BOOLEAN
  /\ state \in {"running", "draining", "finished"}
  /\ pollOpen \in BOOLEAN
  /\ failed \in BOOLEAN
  /\ running \in [Tokens -> Tasks \cup {None}]
  /\ activeExecutions \in 0 .. MaxActivities
  /\ toCancel \subseteq Tasks
  /\ exec \in [Tasks -> {"none", "executing", "offering", "gone"}]
  /\ terminal \subseteq Tasks
  /\ beating \subseteq Tasks

\* The tasks the run loop has taken from the poller.
Taken == {a \in 1 .. delivered : ~(poller = "offering" /\ a = delivered)}

\* A completion for the task has been handed to the pipeline.
Answered(a) == \E e \in Enders : stage[<<a, e>>] # "new"

FeedMatches ==
  /\ \A a \in 1 .. delivered : token[a] \in Tokens
  /\ poller = "offering" => delivered \in Tasks
  /\ Started \subseteq Taken
  /\ \A a \in Tasks : Answered(a) => a \in Taken
  /\ \A a \in Taken : kind[a] \in {"start", "undecodable"} =>
       a \in Started \/ failed \/ Answered(a)
  /\ ~pollOpen => poller = "closed"

CompletionsMatch ==
  /\ terminal \subseteq Started
  /\ \A a \in Started : a \in terminal <=> Answered(a)
  /\ \A a \in Tasks, e \in Enders :
       /\ stage[<<a, e>>] # "refused"
       /\ stage[<<a, e>>] = "rejected" => failed
       /\ report[<<a, e>>] = "finalized" /\ outcome[<<a, e>>] = "failed" => failed

RunningMatches ==
  \A k \in Tokens : running[k] # None => running[k] \in Started /\ token[running[k]] = k

DrainMatches ==
  /\ toCancel \subseteq Started
  /\ toCancel # {} => state = "draining"
  /\ state # "running" => Started \ terminal \subseteq toCancel
  /\ state = "finished" => ~pollOpen /\ outstanding = 0

IInv ==
  /\ PipeOK
  /\ LoopTypes /\ FeedMatches /\ CompletionsMatch /\ RunningMatches
  /\ OneTerminalCompletion /\ NoHeartbeatAfterTerminal /\ ExecutionsAccounted
  /\ DrainMatches
-----------------------------------------------------------------------------
(***************************************************************************)
(* The pipeline of the specification is the pipeline of the lemmas.        *)
(***************************************************************************)
LEMMA PipeAssumptions ==
  /\ Weight \in [Completions -> Int]
  /\ {} \subseteq Completions
  /\ MaxActivities \in Int
  /\ None \notin Int
  /\ None \in Int \cup {None}
BY ActivityAssumption

LEMMA SameLimits ==
  /\ Pipe!Limit = PP!Limit
  /\ Pipe!MaxItems = PP!MaxItems
  /\ \A c \in Completions : Pipe!NormalizedWeight(c) = PP!NormalizedWeight(c)
BY DEF Pipe!Limit, PP!Limit, Pipe!MaxItems, PP!MaxItems, Pipe!AtLeastOne, PP!AtLeastOne,
       Pipe!NormalizedWeight, PP!NormalizedWeight

LEMMA SamePipe ==
  ASSUME NEW c \in Completions
  PROVE  /\ Pipe!EnqueueAccepted(c) <=> PP!EnqueueAccepted(c)
         /\ Pipe!EnqueueRejected(c) <=> PP!EnqueueRejected(c)
         /\ Pipe!Run(c) <=> PP!Run(c)
<1>1. Pipe!AtCapacity(c) <=> PP!AtCapacity(c)
  BY SameLimits
  DEF Pipe!AtCapacity, PP!AtCapacity, Pipe!OverWeight, PP!OverWeight, Pipe!MaxWeight,
      PP!MaxWeight, Pipe!DefaultMaxOutstandingWeight, PP!DefaultMaxOutstandingWeight,
      Pipe!AtLeastOne, PP!AtLeastOne
<1>2. /\ Pipe!EnqueueAccepted(c) <=> PP!EnqueueAccepted(c)
      /\ Pipe!EnqueueRejected(c) <=> PP!EnqueueRejected(c)
  BY <1>1, SameLimits
  DEF Pipe!EnqueueAccepted, PP!EnqueueAccepted, Pipe!EnqueueRejected, PP!EnqueueRejected,
      Pipe!SlotFree, PP!SlotFree
<1>3. Pipe!Run(c) <=> PP!Run(c)
  BY SameLimits
  DEF Pipe!Run, PP!Run, Pipe!Submit, PP!Submit, Pipe!AfterSubmit, PP!AfterSubmit,
      Pipe!SendResult, PP!SendResult, Pipe!ResultsFull, PP!ResultsFull,
      Pipe!FinishAndTakeNext, PP!FinishAndTakeNext, Pipe!NothingQueued, PP!NothingQueued
<1> QED
  BY <1>2, <1>3

LEMMA SamePipeType == PP!TypeOK <=> Pipe!TypeOK
BY SameLimits DEF PP!TypeOK, Pipe!TypeOK, PP!Stages, Pipe!Stages, PP!RunStages,
                  Pipe!RunStages, PP!Reports, Pipe!Reports

LEMMA SamePipeInit == PP!Init <=> Pipe!Init
BY DEF PP!Init, Pipe!Init
-----------------------------------------------------------------------------
(***************************************************************************)
(* What each use of the pipeline does to the completion c = <<a, e>>.      *)
(***************************************************************************)
\* No completion but those of task a changes its stage.
Others(a, e) ==
  \A b \in Tasks, f \in Enders : <<b, f>> # <<a, e>> => stage'[<<b, f>>] = stage[<<b, f>>]

LEMMA AcceptedEffect ==
  ASSUME PipeOK, NEW a \in Tasks, NEW e \in Enders, Pipe!EnqueueAccepted(<<a, e>>)
  PROVE  /\ PipeOK'
         /\ Others(a, e)
         /\ stage[<<a, e>>] = "new"
         /\ stage'[<<a, e>>] \in {"submitting", "queued"}
         /\ report[<<a, e>>] = "none" /\ report' = report /\ outcome' = outcome
<1>1. <<a, e>> \in Completions
  BY DEF Completions
<1>2. PP!EnqueueAccepted(<<a, e>>)
  BY <1>1, SamePipe
<1>3. PP!IInv'
  BY <1>1, <1>2, PipeAssumptions, PP!AcceptedPreserves DEF PipeOK
<1>4. /\ PP!OutcomesKnown'
      /\ report[<<a, e>>] = "none"
      /\ \A x \in Completions : x # <<a, e>> => stage'[x] = stage[x]
      /\ stage'[<<a, e>>] \in {"submitting", "queued"}
  BY <1>1, <1>2, PipeAssumptions, PP!EnqueueKeepsOutcomes DEF PipeOK
<1>5. stage[<<a, e>>] = "new" /\ report' = report /\ outcome' = outcome
  BY <1>2 DEF PP!EnqueueAccepted
<1> QED
  BY <1>3, <1>4, <1>5 DEF PipeOK, Others, Completions

LEMMA RejectedEffect ==
  ASSUME PipeOK, NEW a \in Tasks, NEW e \in Enders, Pipe!EnqueueRejected(<<a, e>>)
  PROVE  /\ PipeOK'
         /\ Others(a, e)
         /\ stage[<<a, e>>] = "new"
         /\ stage'[<<a, e>>] = "rejected"
         /\ report[<<a, e>>] = "none" /\ report' = report /\ outcome' = outcome
<1>1. <<a, e>> \in Completions
  BY DEF Completions
<1>2. PP!EnqueueRejected(<<a, e>>)
  BY <1>1, SamePipe
<1>3. PP!IInv'
  BY <1>1, <1>2, PipeAssumptions, PP!TurnedAwayPreserves DEF PipeOK
<1>4. /\ PP!OutcomesKnown'
      /\ report[<<a, e>>] = "none"
      /\ \A x \in Completions : x # <<a, e>> => stage'[x] = stage[x]
      /\ stage'[<<a, e>>] = "rejected"
  BY <1>1, <1>2, PipeAssumptions, PP!EnqueueKeepsOutcomes DEF PipeOK
<1>5. stage[<<a, e>>] = "new" /\ report' = report /\ outcome' = outcome
  BY <1>2 DEF PP!EnqueueRejected
<1> QED
  BY <1>3, <1>4, <1>5 DEF PipeOK, Others, Completions

\* A step of a goroutine of the pipeline, as the run loop sees it.
LEMMA RunEffect ==
  ASSUME PipeOK, NEW c \in Completions, Pipe!Run(c)
  PROVE  /\ PipeOK'
         /\ outstanding' = outstanding
         /\ \A a \in Tasks, e \in Enders :
              /\ \/ stage[<<a, e>>] \in {"new", "refused", "rejected"}
                 \/ stage'[<<a, e>>] \in {"new", "refused", "rejected"}
                 => stage'[<<a, e>>] = stage[<<a, e>>]
              /\ report'[<<a, e>>] = "finalized" <=> report[<<a, e>>] = "finalized"
              /\ report[<<a, e>>] # "none" => outcome'[<<a, e>>] = outcome[<<a, e>>]
<1>1. PP!Run(c)
  BY SamePipe
<1>2. PP!IInv'
  BY <1>1, PipeAssumptions, PP!SubmitPreserves, PP!SendPreserves, PP!FinishPreserves
  DEF PipeOK, PP!Run
<1>3. /\ PP!OutcomesKnown'
      /\ outstanding' = outstanding
      /\ \A x \in Completions :
           /\ stage[x] \in PP!Outside \/ stage'[x] \in PP!Outside => stage'[x] = stage[x]
           /\ report'[x] = "finalized" <=> report[x] = "finalized"
           /\ report[x] # "none" => outcome'[x] = outcome[x]
  BY <1>1, PipeAssumptions, PP!RunFrame DEF PipeOK
<1> QED
  BY <1>2, <1>3 DEF PipeOK, Completions, PP!Outside

LEMMA ResultEffect ==
  ASSUME PipeOK, NEW c \in Completions, TakeCompletionResult(c)
  PROVE  /\ PipeOK'
         /\ stage[c] \in {"leaving", "done"}
         /\ outcome[c] # "none"
         /\ stage' = stage /\ outcome' = outcome
         /\ report' = [report EXCEPT ![c] = "finalized"]
         /\ c \in DOMAIN report
<1>1. PP!ReceiveAndFinalize(c)
  BY SameLimits DEF TakeCompletionResult, PP!ReceiveAndFinalize
<1>2. /\ PP!IInv'
      /\ stage[c] \in {"leaving", "done"}
  BY <1>1, PipeAssumptions, PP!ConsumePreserves DEF PipeOK
<1>3. stage' = stage /\ outcome' = outcome
  BY DEF TakeCompletionResult
<1>4. PP!OutcomesKnown' /\ outcome[c] # "none"
  BY <1>2, <1>3 DEF PipeOK, PP!OutcomesKnown, PP!Returned
<1> QED
  BY <1>2, <1>3, <1>4 DEF PipeOK, TakeCompletionResult, PP!IInv, PP!TypeOK

LEMMA PipeStutters == PipeOK /\ UNCHANGED pipeVars => PipeOK'
<1> SUFFICES ASSUME PipeOK, UNCHANGED pipeVars PROVE PipeOK'
  OBVIOUS
<1>1. UNCHANGED PP!vars
  BY DEF pipeVars, PP!vars
<1>2. PP!IInv'
  BY <1>1, PipeAssumptions, PP!StutterPreserves DEF PipeOK
<1> QED
  BY <1>2 DEF PipeOK, pipeVars, PP!OutcomesKnown, PP!Returned

LEMMA EmptyPipe ==
  ASSUME PipeOK, outstanding = 0
  PROVE  /\ results = <<>>
         /\ \A a \in Tasks, e \in Enders :
              \/ stage[<<a, e>>] \in {"new", "refused", "rejected"}
              \/ report[<<a, e>>] = "finalized" /\ outcome[<<a, e>>] \in {"ok", "failed"}
<1>1. /\ \A c \in Completions : stage[c] \in PP!Outside \/ report[c] = "finalized"
      /\ results = <<>>
  BY PipeAssumptions, PP!NoneOutstanding DEF PipeOK
<1>2. \A c \in Completions : report[c] = "finalized" => outcome[c] \in {"ok", "failed"}
  BY DEF PipeOK, PP!IInv, PP!TypeOK, PP!ChannelsConsistent, PP!OutcomesKnown, PP!Returned
<1> QED
  BY <1>1, <1>2 DEF Completions, PP!Outside
-----------------------------------------------------------------------------
(***************************************************************************)
(* Ending an activity: the heart of enqueueActivityCompletion.             *)
(***************************************************************************)
LEMMA InitInvariant == Init => IInv
<1> SUFFICES ASSUME Init PROVE IInv
  OBVIOUS
<1> USE DEF Init
<1>1. PP!IInv
  BY SamePipeInit, PipeAssumptions, PP!InitInvariant
<1>2. /\ \A c \in Completions : stage[c] = "new" /\ report[c] = "none"
      /\ outstanding = 0
  BY DEF Pipe!Init
<1>3. PipeOK
  BY <1>1, <1>2 DEF PipeOK, PP!OutcomesKnown, PP!Returned
<1>4. \A a \in Tasks, e \in Enders : stage[<<a, e>>] = "new" /\ report[<<a, e>>] = "none"
  BY <1>2 DEF Completions
<1>5. Started = {} /\ Cardinality(Started \ terminal) = 0
  BY FS_EmptySet DEF Started
<1>6. LoopTypes
  <2>1. 0 \in 0 .. MaxPolled /\ 0 \in 0 .. MaxActivities
    BY ActivityAssumption
  <2>2. /\ token \in [Tasks -> Tokens \cup {None}]
        /\ kind \in [Tasks -> Kinds \cup {None}]
        /\ running \in [Tokens -> Tasks \cup {None}]
        /\ exec \in [Tasks -> {"none", "executing", "offering", "gone"}]
    OBVIOUS
  <2> QED
    BY <2>1, <2>2 DEF LoopTypes
<1>7. FeedMatches
  <2>1. 1 .. delivered = {}
    OBVIOUS
  <2>2. \A a \in Tasks : ~Answered(a)
    BY <1>4 DEF Answered
  <2> QED
    BY <1>5, <2>1, <2>2 DEF FeedMatches, Taken
<1>8. CompletionsMatch
  BY <1>4, <1>5 DEF CompletionsMatch, Answered
<1>9. RunningMatches /\ DrainMatches
  BY <1>2, <1>5 DEF RunningMatches, DrainMatches
<1>10. OneTerminalCompletion /\ NoHeartbeatAfterTerminal /\ ExecutionsAccounted
  BY <1>4, <1>5 DEF OneTerminalCompletion, NoHeartbeatAfterTerminal, ExecutionsAccounted
<1> QED
  BY <1>3, <1>6, <1>7, <1>8, <1>9, <1>10 DEF IInv

\* The part of the invariant about completions, tasks and the running map.
BookInv ==
  /\ FeedMatches /\ CompletionsMatch /\ RunningMatches
  /\ OneTerminalCompletion /\ NoHeartbeatAfterTerminal /\ ExecutionsAccounted

LEMMA FiniteExecutions ==
  ASSUME LoopTypes
  PROVE  /\ IsFiniteSet(Started)
         /\ IsFiniteSet(Started \ terminal)
         /\ Cardinality(Started \ terminal) \in Nat
<1>1. IsFiniteSet(Tasks)
  BY ActivityAssumption, FS_Interval DEF Tasks
<1>2. Started \subseteq Tasks
  BY DEF Started
<1> QED
  BY <1>1, <1>2, FS_Subset, FS_CardinalityType

\* Activity a gets its terminal completion <<a, e>>: accepted, or refused and
\* then finalized on the spot with an error for the worker.
End(a, e) ==
  /\ terminal' = terminal \cup {a}
  /\ activeExecutions' = activeExecutions - 1
  /\ \/ Pipe!EnqueueAccepted(<<a, e>>) /\ UNCHANGED <<running, failed>>
     \/ Pipe!EnqueueRejected(<<a, e>>) /\ Forget(a) /\ failed' = TRUE

LEMMA EndPreserves ==
  ASSUME IInv, NEW a \in Started \ terminal, NEW e \in Enders, End(a, e), MutexFree(a),
         Started' = Started, Taken \subseteq Taken', 
         \A b \in Taken' \ Taken : kind[b] \notin {"start", "undecodable"} ,
         UNCHANGED <<delivered, token, kind, pollOpen, beating>>,
         poller' = poller \/ (poller = "offering" /\ poller' = "polling")
  PROVE  /\ PipeOK' /\ BookInv'
         /\ activeExecutions' \in 0 .. MaxActivities
         /\ running' \in [Tokens -> Tasks \cup {None}]
<1>1. a \in Tasks /\ token[a] \in Tokens /\ running[token[a]] = a
  BY DEF IInv, FeedMatches, ExecutionsAccounted, Started, Taken
<1>2. /\ PipeOK' /\ Others(a, e)
      /\ stage[<<a, e>>] = "new"
      /\ report[<<a, e>>] = "none" /\ report' = report /\ outcome' = outcome
      /\ \/ /\ stage'[<<a, e>>] \in {"submitting", "queued"}
            /\ running' = running /\ failed' = failed
         \/ /\ stage'[<<a, e>>] = "rejected"
            /\ running' = [running EXCEPT ![token[a]] = None]
            /\ failed' = TRUE
  BY <1>1, AcceptedEffect, RejectedEffect DEF IInv, End, Forget
<1>3. \A f \in Enders : stage[<<a, f>>] = "new"
  BY DEF IInv, CompletionsMatch, Answered
<1>4. /\ Answered(a)'
      /\ \A b \in Tasks : b # a => (Answered(b)' <=> Answered(b))
  BY <1>1, <1>2 DEF Answered, Others
<1>5. terminal' = terminal \cup {a}
  BY DEF End
<1>6. FeedMatches'
  <2>1. Taken' \subseteq Tasks /\ a \in Taken
    <3>1. delivered \in 0 .. MaxPolled /\ delivered' = delivered /\ MaxPolled \in Nat
      BY ActivityAssumption DEF IInv, LoopTypes
    <3>2. 1 .. delivered \subseteq Tasks
      BY <3>1 DEF Tasks
    <3> QED
      BY <3>1, <3>2 DEF IInv, FeedMatches, Taken
  <2>2. failed => failed'
    BY <1>2
  <2>3. \A b \in Tasks : Answered(b)' => b \in Taken'
    BY <1>4, <2>1 DEF IInv, FeedMatches
  <2>4. \A b \in Taken' : kind'[b] \in {"start", "undecodable"} =>
           b \in Started' \/ failed' \/ Answered(b)'
    BY <1>4, <2>1, <2>2 DEF IInv, FeedMatches
  <2>5. /\ poller' = "offering" => delivered' \in Tasks
        /\ ~pollOpen' => poller' = "closed"
        /\ \A b \in 1 .. delivered' : token'[b] \in Tokens
        /\ Started' \subseteq Taken'
    BY DEF IInv, FeedMatches
  <2> QED
    BY <2>3, <2>4, <2>5 DEF FeedMatches
<1>7. CompletionsMatch'
  <2>1. terminal' \subseteq Started'
    BY <1>5 DEF IInv, CompletionsMatch
  <2>2. \A b \in Started' : b \in terminal' <=> Answered(b)'
    BY <1>1, <1>4, <1>5 DEF IInv, CompletionsMatch, Started
  <2>3. ASSUME NEW b \in Tasks, NEW f \in Enders
        PROVE  /\ stage'[<<b, f>>] # "refused"
               /\ stage'[<<b, f>>] = "rejected" => failed'
               /\ report'[<<b, f>>] = "finalized" /\ outcome'[<<b, f>>] = "failed" => failed'
    BY <1>1, <1>2 DEF IInv, CompletionsMatch, Others
  <2> QED
    BY <2>1, <2>2, <2>3 DEF CompletionsMatch
<1>8. RunningMatches'
  BY <1>1, <1>2 DEF IInv, LoopTypes, RunningMatches
<1>9. OneTerminalCompletion'
  BY <1>1, <1>2, <1>3 DEF IInv, OneTerminalCompletion, Others
<1>10. NoHeartbeatAfterTerminal'
  BY <1>5 DEF IInv, NoHeartbeatAfterTerminal, MutexFree
<1>11. /\ Cardinality(Started' \ terminal') = Cardinality(Started \ terminal) - 1
       /\ Cardinality(Started \ terminal) # 0
  <2>1. Started' \ terminal' = (Started \ terminal) \ {a}
    BY <1>5
  <2> DEFINE S == Started \ terminal
  <2>2. IsFiniteSet(S) /\ a \in S
    BY FiniteExecutions DEF IInv
  <2> HIDE DEF S
  <2>3. Cardinality(S \ {a}) = Cardinality(S) - 1
    BY ONLY <2>2, FS_RemoveElement
  <2>4. Cardinality(S) # 0
    BY ONLY <2>2, FS_EmptySet
  <2> QED
    BY <2>1, <2>3, <2>4 DEF S
<1>12. activeExecutions' = Cardinality(Started' \ terminal') /\ activeExecutions' \in 0 .. MaxActivities
  <2>1. /\ activeExecutions = Cardinality(Started \ terminal)
        /\ activeExecutions \in 0 .. MaxActivities
        /\ activeExecutions' = activeExecutions - 1
    BY DEF IInv, ExecutionsAccounted, LoopTypes, End
  <2> QED
    BY ONLY <1>11, <2>1, ActivityAssumption
<1>13. \A b \in Started' \ terminal' : running'[token'[b]] = b
  <2>1. ASSUME NEW b \in Started \ terminal, b # a
        PROVE  running'[token[b]] = b
    <3>1. running[token[b]] = b /\ token[b] \in Tokens
      BY <2>1 DEF IInv, ExecutionsAccounted, FeedMatches, Taken
    <3> QED
      BY <1>1, <1>2, <2>1, <3>1 DEF IInv, LoopTypes
  <2> QED
    BY <1>5, <2>1
<1>14. \A b \in Started' \cap terminal' :
         running'[token'[b]] = b <=>
           \E f \in Enders : stage'[<<b, f>>] \notin {"new", "rejected"}
                             /\ report'[<<b, f>>] # "finalized"
  <2>1. ASSUME NEW b \in Started \cap terminal
        PROVE  running'[token[b]] = b <=> running[token[b]] = b
    BY <1>1, <1>2, ActivityAssumption DEF IInv, LoopTypes, Tasks, Started, FeedMatches, Taken
  <2>2. ASSUME NEW b \in Started \cap terminal, NEW f \in Enders
        PROVE  stage'[<<b, f>>] = stage[<<b, f>>]
    BY <1>2 DEF Others, Started
  <2>3. running'[token[a]] = a <=> stage'[<<a, e>>] # "rejected"
    BY <1>1, <1>2, ActivityAssumption DEF IInv, LoopTypes
  <2>4. \A f \in Enders : f # e => stage'[<<a, f>>] = "new"
    BY <1>1, <1>2, <1>3 DEF Others
  <2>5. stage'[<<a, e>>] # "new" /\ report'[<<a, e>>] # "finalized"
    BY <1>2
  <2>6. running'[token[a]] = a <=>
           \E f \in Enders : stage'[<<a, f>>] \notin {"new", "rejected"}
                             /\ report'[<<a, f>>] # "finalized"
    BY <2>3, <2>4, <2>5
  <2>7. ASSUME NEW b \in Started \cap terminal
        PROVE  running'[token[b]] = b <=>
                 \E f \in Enders : stage'[<<b, f>>] \notin {"new", "rejected"}
                                   /\ report'[<<b, f>>] # "finalized"
    <3>1. running[token[b]] = b <=>
                 \E f \in Enders : stage[<<b, f>>] \notin {"new", "rejected"}
                                   /\ report[<<b, f>>] # "finalized"
      BY DEF IInv, ExecutionsAccounted
    <3> QED
      BY <1>2, <2>1, <2>2, <3>1
  <2> QED
    BY <1>5, <2>6, <2>7
<1> QED
  BY <1>1, <1>2, <1>6, <1>7, <1>8, <1>9, <1>10, <1>12, <1>13, <1>14
  DEF BookInv, ExecutionsAccounted, IInv, LoopTypes
-----------------------------------------------------------------------------
(***************************************************************************)
(* Steps that leave the completions alone, and the start of a drain.       *)
(***************************************************************************)
LEMMA TakenIsTasks ==
  ASSUME LoopTypes
  PROVE  Taken \subseteq Tasks /\ 1 .. delivered \subseteq Tasks
<1>1. delivered \in 0 .. MaxPolled /\ MaxPolled \in Nat
  BY ActivityAssumption DEF LoopTypes
<1> QED
  BY <1>1 DEF Taken, Tasks

LEMMA QuietPreserves ==
  ASSUME IInv, UNCHANGED <<pipeVars, activityVars>>, Started' = Started,
         failed => failed', FeedMatches', \A a \in Started : token'[a] = token[a],
         beating' \cap terminal = {}
  PROVE  PipeOK' /\ BookInv'
<1>1. PipeOK'
  BY PipeStutters DEF IInv
<1>2. /\ stage' = stage /\ outcome' = outcome /\ report' = report
      /\ terminal' = terminal /\ running' = running /\ activeExecutions' = activeExecutions
  BY DEF pipeVars, activityVars
<1>3. \A a \in Tasks : Answered(a)' <=> Answered(a)
  BY <1>2 DEF Answered
<1>4. CompletionsMatch'
  <2>1. terminal' \subseteq Started' /\ \A a \in Started' : a \in terminal' <=> Answered(a)'
    BY <1>2, <1>3 DEF IInv, CompletionsMatch, Started
  <2> QED
    BY <1>2, <2>1 DEF IInv, CompletionsMatch
<1>5. RunningMatches'
  BY <1>2 DEF IInv, RunningMatches
<1>6. OneTerminalCompletion'
  BY <1>2 DEF IInv, OneTerminalCompletion
<1>7. NoHeartbeatAfterTerminal'
  BY <1>2 DEF NoHeartbeatAfterTerminal
<1>8. ExecutionsAccounted'
  BY <1>2 DEF IInv, ExecutionsAccounted
<1> QED
  BY <1>1, <1>4, <1>5, <1>6, <1>7, <1>8 DEF BookInv

\* The step calls startDraining, with or without an error.
DrainStep ==
  /\ failed' \in BOOLEAN
  /\ failed => failed'
  /\ IF state = "running"
       THEN state' = "draining" /\ toCancel' = {running'[k] : k \in Tokens} \ {None}
       ELSE UNCHANGED <<state, toCancel>>

LEMMA DrainStarts ==
  ASSUME LoopTypes
  PROVE  /\ StartDraining(TRUE) => DrainStep /\ failed' = TRUE
         /\ StartDraining(FALSE) => DrainStep
         /\ StartDraining(~ctxCancelled) => DrainStep
         /\ StartDraining(~(ctxCancelled /\ poller = "cancelling")) => DrainStep
         /\ KeepState => failed' = failed
BY DEF StartDraining, DrainStep, KeepState, LoopTypes, stateVars

\* Whether or not the step starts the drain, a draining loop has every
\* activity it still has to end in toCancel.
LEMMA DrainPreserves ==
  ASSUME IInv, BookInv', Selecting,
         running' \in [Tokens -> Tasks \cup {None}],
         KeepState \/ DrainStep,
         state # "running" => Started' = Started /\ terminal \subseteq terminal',
         state = "finished" => outstanding' = 0,
         ~pollOpen => ~pollOpen'
  PROVE  /\ DrainMatches'
         /\ state' \in {"running", "draining", "finished"}
         /\ toCancel' \subseteq Tasks
         /\ failed' \in BOOLEAN
         /\ failed => failed'
<1>1. CASE KeepState
  BY <1>1 DEF KeepState, stateVars, Selecting, IInv, LoopTypes, DrainMatches
<1>2. CASE DrainStep /\ state # "running"
  BY <1>2 DEF DrainStep, Selecting, IInv, LoopTypes, DrainMatches
<1>3. CASE DrainStep /\ state = "running"
  <2>1. state' = "draining" /\ toCancel' = {running'[k] : k \in Tokens} \ {None}
    BY <1>3 DEF DrainStep
  <2>2. toCancel' \subseteq Started' /\ toCancel' \subseteq Tasks
    BY <2>1 DEF BookInv, RunningMatches
  <2>3. ASSUME NEW a \in (Started \ terminal)'
        PROVE  a \in toCancel'
    <3>1. running'[token'[a]] = a /\ token'[a] \in Tokens
      BY DEF BookInv, ExecutionsAccounted, FeedMatches, Taken
    <3>2. a # None
      BY ActivityAssumption DEF Started
    <3> QED
      BY <2>1, <3>1, <3>2
  <2>4. DrainMatches'
    BY <2>1, <2>2, <2>3 DEF DrainMatches
  <2> QED
    BY <1>3, <2>1, <2>2, <2>4 DEF DrainStep
<1> QED
  BY <1>1, <1>2, <1>3

\* The poller, the context, the activity goroutines and the heartbeats.
LEMMA PollReturnsTaskPreserves == IInv /\ PollReturnsTask => IInv'
<1> SUFFICES ASSUME IInv, PollReturnsTask PROVE IInv'
  OBVIOUS
<1> USE DEF PollReturnsTask
<1>1. /\ delivered \in Nat /\ delivered' = delivered + 1 /\ delivered' \in Tasks
      /\ delivered' \in 0 .. MaxPolled
  BY ActivityAssumption DEF IInv, LoopTypes, Tasks
<1>2. PICK offer \in Offers[delivered'] :
        /\ token' = [token EXCEPT ![delivered'] = offer[1]]
        /\ kind' = [kind EXCEPT ![delivered'] = offer[2]]
  OBVIOUS
<1>3. offer[1] \in Tokens /\ offer[2] \in Kinds
  BY <1>1, ActivityAssumption
<1>4. \A a \in Tasks : a # delivered' => token'[a] = token[a] /\ kind'[a] = kind[a]
  BY <1>1, <1>2 DEF IInv, LoopTypes
<1>5. token'[delivered'] \in Tokens
  BY <1>1, <1>2, <1>3 DEF IInv, LoopTypes
<1>6. Taken' = 1 .. delivered /\ Taken = 1 .. delivered /\ 1 .. delivered \subseteq Tasks
  BY <1>1, TakenIsTasks DEF Taken, IInv
<1>7. Started' = Started /\ delivered' \notin Taken
  BY <1>1, <1>6 DEF Started
<1>8. FeedMatches'
  <2>1. \A a \in 1 .. delivered' : a = delivered' \/ a \in 1 .. delivered
    BY <1>1
  <2>2. \A a \in 1 .. delivered' : token'[a] \in Tokens
    BY <1>4, <1>5, <1>6, <2>1 DEF IInv, FeedMatches
  <2>3. stage' = stage /\ failed' = failed
    BY DEF pipeVars, stateVars
  <2>4. \A a \in Tasks : Answered(a)' <=> Answered(a)
    BY <2>3 DEF Answered
  <2>5. /\ Started' \subseteq Taken'
        /\ \A a \in Tasks : Answered(a)' => a \in Taken'
        /\ \A a \in Taken' : kind'[a] \in {"start", "undecodable"} =>
             a \in Started' \/ failed' \/ Answered(a)'
    BY <1>4, <1>6, <1>7, <2>3, <2>4 DEF IInv, FeedMatches
  <2>6. pollOpen' /\ poller' = "offering"
    BY DEF IInv, FeedMatches
  <2> QED
    BY <1>1, <2>2, <2>5, <2>6 DEF FeedMatches
<1>9. PipeOK' /\ BookInv'
  <2>1. failed => failed'
    BY DEF stateVars
  <2>2. \A a \in Started : token'[a] = token[a]
    BY <1>4, <1>6, <1>7 DEF IInv, FeedMatches
  <2> QED
    BY <1>7, <1>8, <2>1, <2>2, QuietPreserves DEF IInv, NoHeartbeatAfterTerminal
<1>10. LoopTypes'
  BY <1>1, <1>2, <1>3 DEF IInv, LoopTypes, stateVars, activityVars
<1>11. DrainMatches'
  BY <1>7 DEF IInv, DrainMatches, stateVars, activityVars, pipeVars
<1> QED
  BY <1>9, <1>10, <1>11 DEF IInv, BookInv

\* Everything that only moves a program counter, the context or a mutex.
LEMMA MovePreserves ==
  ASSUME IInv, UNCHANGED <<pipeVars, delivered, token, kind, stateVars, pollOpen, activityVars>>,
         \/ poller' = poller
         \/ poller' \in {"failing", "cancelling", "closed"} /\ poller \notin {"offering", "closed"},
         Started' = Started,
         exec' \in [Tasks -> {"none", "executing", "offering", "gone"}],
         ctxCancelled' \in BOOLEAN, beating' \subseteq Tasks, beating' \cap terminal = {}
  PROVE  IInv'
<1>1. Taken' = Taken
  BY DEF Taken
<1>2. \A a \in Tasks : Answered(a)' <=> Answered(a)
  BY DEF Answered, pipeVars
<1>3. FeedMatches'
  <2>1. failed' = failed
    BY DEF stateVars
  <2>2. /\ Started' \subseteq Taken'
        /\ \A a \in Tasks : Answered(a)' => a \in Taken'
        /\ \A a \in Taken' : kind'[a] \in {"start", "undecodable"} =>
             a \in Started' \/ failed' \/ Answered(a)'
    BY <1>1, <1>2, <2>1, TakenIsTasks DEF IInv, FeedMatches
  <2>3. /\ \A a \in 1 .. delivered' : token'[a] \in Tokens
        /\ poller' = "offering" => delivered' \in Tasks
        /\ ~pollOpen' => poller' = "closed"
    BY DEF IInv, FeedMatches
  <2> QED
    BY <2>2, <2>3 DEF FeedMatches
<1>4. PipeOK' /\ BookInv'
  BY <1>3, QuietPreserves DEF stateVars
<1>5. LoopTypes'
  BY DEF IInv, LoopTypes, stateVars, activityVars
<1>6. DrainMatches'
  BY DEF IInv, DrainMatches, stateVars, activityVars, pipeVars
<1> QED
  BY <1>4, <1>5, <1>6 DEF IInv, BookInv

LEMMA MovesPreserve ==
  ASSUME IInv,
         \/ PollReturnsError \/ PollerGivesUp \/ CancelContext
         \/ \E a \in Tasks : FunctionReturns(a) \/ GoroutineLeaves(a)
                             \/ BeginHeartbeat(a) \/ EndHeartbeat(a)
  PROVE  IInv'
<1> USE DEF IInv, LoopTypes, NoHeartbeatAfterTerminal
<1>1. CASE PollReturnsError
  BY <1>1, MovePreserves DEF PollReturnsError, Started
<1>2. CASE PollerGivesUp
  BY <1>2, MovePreserves DEF PollerGivesUp, Started
<1>3. CASE CancelContext
  BY <1>3, MovePreserves DEF CancelContext, Started, feedVars
<1>4. ASSUME NEW a \in Tasks, FunctionReturns(a) PROVE IInv'
  BY <1>4, MovePreserves DEF FunctionReturns, Started, feedVars
<1>5. ASSUME NEW a \in Tasks, GoroutineLeaves(a) PROVE IInv'
  BY <1>5, MovePreserves DEF GoroutineLeaves, Started, feedVars
<1>6. ASSUME NEW a \in Tasks, BeginHeartbeat(a) PROVE IInv'
  BY <1>6, MovePreserves DEF BeginHeartbeat, Started, feedVars
<1>7. ASSUME NEW a \in Tasks, EndHeartbeat(a) PROVE IInv'
  BY <1>7, MovePreserves DEF EndHeartbeat, Started, feedVars
<1> QED
  BY <1>1, <1>2, <1>3, <1>4, <1>5, <1>6, <1>7
-----------------------------------------------------------------------------
(***************************************************************************)
(* The run loop's branches that start nothing and end nothing.             *)
(***************************************************************************)
LEMMA ContextDonePreserves == IInv /\ TakeContextDone => IInv'
<1> SUFFICES ASSUME IInv, TakeContextDone PROVE IInv'
  OBVIOUS
<1> USE DEF TakeContextDone
<1>1. DrainStep /\ (failed => failed') /\ stage' = stage
  BY DrainStarts DEF IInv, DrainStep, pipeVars
<1>2. Started' = Started /\ Taken' = Taken /\ \A a \in Tasks : Answered(a)' <=> Answered(a)
  BY <1>1 DEF Started, Taken, Answered, feedVars
<1>3. FeedMatches'
  BY <1>1, <1>2, TakenIsTasks DEF IInv, FeedMatches, feedVars
<1>4. PipeOK' /\ BookInv'
  BY <1>1, <1>2, <1>3, QuietPreserves DEF IInv, NoHeartbeatAfterTerminal, feedVars, activityVars
<1>5. running' = running /\ terminal' = terminal /\ outstanding' = outstanding
  BY DEF pipeVars
<1>6. DrainMatches' /\ state' \in {"running", "draining", "finished"} /\ toCancel' \subseteq Tasks
      /\ failed' \in BOOLEAN
  <2>1. running' \in [Tokens -> Tasks \cup {None}]
    BY <1>5 DEF IInv, LoopTypes
  <2>2. state = "finished" => outstanding' = 0
    BY <1>5 DEF IInv, DrainMatches
  <2> QED
    BY <1>1, <1>2, <1>4, <1>5, <2>1, <2>2, DrainPreserves
<1>7. LoopTypes'
  BY <1>6 DEF IInv, LoopTypes, feedVars, activityVars
<1> QED
  BY <1>4, <1>6, <1>7 DEF IInv, BookInv

LEMMA PollEndPreserves == IInv /\ (TakePollClosed \/ TakePollError) => IInv'
<1> SUFFICES ASSUME IInv, TakePollClosed \/ TakePollError PROVE IInv'
  OBVIOUS
<1>1. (KeepState \/ DrainStep) /\ (failed => failed')
  BY DrainStarts DEF IInv, TakePollClosed, TakePollError, DrainStep
<1>2. /\ Selecting
      /\ poller' = "closed" /\ poller # "offering"
      /\ ~pollOpen => ~pollOpen'
      /\ pollOpen' \in BOOLEAN
      /\ UNCHANGED <<pipeVars, delivered, token, kind, ctxCancelled, running,
                     activeExecutions, terminal, exec, beating>>
  <2>1. CASE TakePollClosed
    BY <2>1 DEF TakePollClosed, feedVars
  <2>2. CASE TakePollError
    BY <2>2 DEF TakePollError, IInv, LoopTypes
  <2> QED
    BY <2>1, <2>2
<1>3. Started' = Started /\ Taken' = Taken /\ \A a \in Tasks : Answered(a)' <=> Answered(a)
  BY <1>1, <1>2 DEF Started, Taken, Answered, pipeVars
<1>4. FeedMatches'
  BY <1>1, <1>2, <1>3, TakenIsTasks DEF IInv, FeedMatches
<1>5. PipeOK' /\ BookInv'
  BY <1>1, <1>2, <1>3, <1>4, QuietPreserves DEF IInv, NoHeartbeatAfterTerminal, activityVars
<1>6. DrainMatches' /\ state' \in {"running", "draining", "finished"} /\ toCancel' \subseteq Tasks
      /\ failed' \in BOOLEAN
  <2>1. running' \in [Tokens -> Tasks \cup {None}]
    BY <1>1, <1>2 DEF IInv, LoopTypes
  <2>2. state = "finished" => outstanding' = 0
    BY <1>1, <1>2 DEF IInv, DrainMatches, pipeVars
  <2> QED
    BY <1>1, <1>2, <1>3, <1>5, <2>1, <2>2, DrainPreserves
<1>7. LoopTypes'
  BY <1>1, <1>2, <1>6 DEF IInv, LoopTypes
<1> QED
  BY <1>5, <1>6, <1>7 DEF IInv, BookInv

\* A task taken and not started: refused, of neither kind, or a cancellation
\* of nothing that runs.
LEMMA DroppedTaskPreserves ==
  ASSUME IInv, NEW kinds, TakeTask(kinds), UNCHANGED <<pipeVars, activityVars, exec>>,
         \/ kind[delivered] = "cancel" /\ KeepState
         \/ StartDraining(TRUE)
  PROVE  IInv'
<1> USE DEF TakeTask
<1>1. /\ KeepState \/ DrainStep
      /\ failed => failed'
      /\ kind[delivered] = "cancel" \/ failed'
  BY DEF IInv, LoopTypes, KeepState, stateVars, StartDraining, DrainStep
<1>2. /\ Started' = Started /\ Taken' = Taken \cup {delivered} /\ delivered \in Tasks
      /\ \A a \in Tasks : Answered(a)' <=> Answered(a)
  <2>1. delivered \in 1 .. delivered /\ delivered \in Tasks
    BY DEF IInv, FeedMatches, Tasks
  <2> QED
    BY <2>1 DEF Started, Taken, Answered, pipeVars
<1>3. FeedMatches'
  <2>1. /\ Started' \subseteq Taken'
        /\ \A a \in Tasks : Answered(a)' => a \in Taken'
        /\ \A a \in Taken' : kind'[a] \in {"start", "undecodable"} =>
             a \in Started' \/ failed' \/ Answered(a)'
    BY <1>1, <1>2, TakenIsTasks DEF IInv, FeedMatches
  <2>2. /\ \A a \in 1 .. delivered' : token'[a] \in Tokens
        /\ poller' # "offering"
        /\ pollOpen'
    BY DEF IInv, FeedMatches
  <2> QED
    BY <2>1, <2>2 DEF FeedMatches
<1>4. PipeOK' /\ BookInv'
  BY <1>1, <1>2, <1>3, QuietPreserves DEF IInv, NoHeartbeatAfterTerminal
<1>5. DrainMatches' /\ state' \in {"running", "draining", "finished"} /\ toCancel' \subseteq Tasks
      /\ failed' \in BOOLEAN
  <2>1. running' \in [Tokens -> Tasks \cup {None}] /\ terminal' = terminal
    BY DEF IInv, LoopTypes, activityVars
  <2>2. state = "finished" => outstanding' = 0
    BY DEF IInv, DrainMatches, pipeVars
  <2> QED
    BY <1>1, <1>2, <1>4, <2>1, <2>2, DrainPreserves
<1>6. LoopTypes'
  BY <1>5 DEF IInv, LoopTypes, activityVars
<1> QED
  BY <1>4, <1>5, <1>6 DEF IInv, BookInv

\* A task answered without being started: it cannot be decoded, or it came
\* while the loop drains.
LEMMA UnstartedPreserves ==
  ASSUME IInv, NEW kinds, TakeTask(kinds), UNCHANGED <<activityVars, exec>>,
         NEW d \in Tasks, d = delivered,
         NEW e \in Enders, EnqueueCompletion(<<d, e>>)
  PROVE  IInv'
<1> USE DEF TakeTask
<1>1. d \in 1 .. delivered /\ d \notin Taken
  BY DEF IInv, FeedMatches, Taken, Tasks
<1>2. d \notin Started /\ \A f \in Enders : stage[<<d, f>>] = "new"
  BY <1>1 DEF IInv, FeedMatches, Answered
<1>3. /\ PipeOK' /\ Others(d, e)
      /\ report[<<d, e>>] = "none" /\ report' = report /\ outcome' = outcome
      /\ \/ stage'[<<d, e>>] \in {"submitting", "queued"} /\ KeepState
         \/ stage'[<<d, e>>] = "rejected" /\ StartDraining(TRUE)
  <2>1. CASE Pipe!EnqueueAccepted(<<d, e>>) /\ KeepState
    BY <2>1, AcceptedEffect DEF IInv
  <2>2. CASE Pipe!EnqueueRejected(<<d, e>>) /\ StartDraining(TRUE)
    BY <2>2, RejectedEffect DEF IInv
  <2>3. \/ Pipe!EnqueueAccepted(<<d, e>>) /\ KeepState
        \/ Pipe!EnqueueRejected(<<d, e>>) /\ StartDraining(TRUE)
    BY DEF EnqueueCompletion
  <2> QED
    BY <2>1, <2>2, <2>3
<1>4. /\ KeepState \/ DrainStep
      /\ failed => failed'
      /\ stage'[<<d, e>>] = "rejected" => failed'
  <2>1. KeepState => failed' = failed
    BY DEF KeepState, stateVars
  <2>2. StartDraining(TRUE) => DrainStep /\ failed' = TRUE
    BY DEF IInv, LoopTypes, StartDraining, DrainStep
  <2>3. CASE stage'[<<d, e>>] \in {"submitting", "queued"} /\ KeepState
    BY <2>1, <2>3
  <2>4. CASE stage'[<<d, e>>] = "rejected" /\ StartDraining(TRUE)
    BY <2>2, <2>4 DEF DrainStep
  <2> QED
    BY ONLY <1>3, <2>3, <2>4
<1>5. Started' = Started /\ Taken' = Taken \cup {d}
  BY <1>1 DEF Started, Taken
<1>6. /\ Answered(d)'
      /\ \A b \in Tasks : b # d => (Answered(b)' <=> Answered(b))
  BY <1>1, <1>3 DEF Answered, Others
<1>7. FeedMatches'
  <2>1. Started' \subseteq Taken' /\ \A a \in Tasks : Answered(a)' => a \in Taken'
    BY <1>5, <1>6 DEF IInv, FeedMatches
  <2>2. ASSUME NEW a \in Taken', kind'[a] \in {"start", "undecodable"}
        PROVE  a \in Started' \/ failed' \/ Answered(a)'
    <3>1. CASE a = d
      BY <1>6, <3>1 DEF Answered
    <3>2. CASE a # d
      <4>1. a \in Taken /\ a \in Tasks /\ kind[a] \in {"start", "undecodable"}
        BY <1>5, <2>2, <3>2, TakenIsTasks DEF IInv
      <4>2. a \in Started \/ failed \/ Answered(a)
        BY <4>1 DEF IInv, FeedMatches
      <4> QED
        BY <1>4, <1>5, <1>6, <3>2, <4>1, <4>2
    <3> QED
      BY <3>1, <3>2
  <2>3. /\ \A a \in 1 .. delivered' : token'[a] \in Tokens
        /\ poller' # "offering"
        /\ pollOpen'
    BY DEF IInv, FeedMatches
  <2> QED
    BY <2>1, <2>2, <2>3 DEF FeedMatches
<1>8. \A b \in Started, f \in Enders : stage'[<<b, f>>] = stage[<<b, f>>]
  BY <1>2, <1>3 DEF Others, Started
<1>9. CompletionsMatch'
  <2>1. terminal' \subseteq Started' /\ \A b \in Started' : b \in terminal' <=> Answered(b)'
    BY <1>2, <1>5, <1>6 DEF IInv, CompletionsMatch, Started, activityVars
  <2>2. ASSUME NEW b \in Tasks, NEW f \in Enders
        PROVE  /\ stage'[<<b, f>>] # "refused"
               /\ stage'[<<b, f>>] = "rejected" => failed'
               /\ report'[<<b, f>>] = "finalized" /\ outcome'[<<b, f>>] = "failed" => failed'
    BY <1>1, <1>3, <1>4 DEF IInv, CompletionsMatch, Others
  <2> QED
    BY <2>1, <2>2 DEF CompletionsMatch
<1>10. RunningMatches'
  BY <1>5 DEF IInv, RunningMatches, activityVars
<1>11. OneTerminalCompletion'
  <2>1. /\ \A f \in Enders : f # e => stage'[<<d, f>>] = "new"
        /\ \A b \in Tasks, f \in Enders : b # d => stage'[<<b, f>>] = stage[<<b, f>>]
    BY <1>1, <1>2, <1>3 DEF Others
  <2> QED
    BY <2>1 DEF IInv, OneTerminalCompletion
<1>12. NoHeartbeatAfterTerminal'
  BY DEF IInv, NoHeartbeatAfterTerminal, activityVars
<1>13. ExecutionsAccounted'
  BY <1>3, <1>5, <1>8 DEF IInv, ExecutionsAccounted, activityVars
<1>14. BookInv'
  BY <1>7, <1>9, <1>10, <1>11, <1>12, <1>13 DEF BookInv
<1>15. DrainMatches' /\ state' \in {"running", "draining", "finished"} /\ toCancel' \subseteq Tasks
      /\ failed' \in BOOLEAN
  <2>1. running' \in [Tokens -> Tasks \cup {None}] /\ terminal' = terminal
    BY DEF IInv, LoopTypes, activityVars
  <2>2. state # "finished"
    BY DEF IInv, DrainMatches, FeedMatches
  <2> QED
    BY <1>4, <1>5, <1>14, <2>1, <2>2, DrainPreserves
<1>16. LoopTypes'
  BY <1>15 DEF IInv, LoopTypes, activityVars
<1> QED
  BY <1>3, <1>14, <1>15, <1>16 DEF IInv, BookInv
-----------------------------------------------------------------------------
(***************************************************************************)
(* Ending an activity from the run loop, and starting one.                 *)
(***************************************************************************)
LEMMA CompletionCases ==
  ASSUME IInv, NEW a \in Tasks, NEW e \in Enders, EnqueueActivityCompletion(a, e)
  PROVE  /\ MutexFree(a)
         /\ \/ UNCHANGED <<pipeVars, activityVars>> /\ KeepState
            \/ a \notin terminal /\ End(a, e) /\ (KeepState \/ DrainStep)
<1>1. MutexFree(a)
  BY DEF EnqueueActivityCompletion
<1>2. CASE AlreadyTerminal(a)
  BY <1>1, <1>2 DEF EnqueueActivityCompletion, KeepState
<1>3. CASE ~AlreadyTerminal(a)
  <2>1. a \notin terminal
    BY <1>3 DEF AlreadyTerminal
  <2>2. StartDraining(TRUE) => DrainStep /\ failed' = TRUE
    BY DEF IInv, LoopTypes, StartDraining, DrainStep
  <2>3. KeepState => failed' = failed
    BY DEF KeepState, stateVars
  <2>4. End(a, e) /\ (KeepState \/ DrainStep)
    BY <1>3, <2>2, <2>3 DEF EnqueueActivityCompletion, End
  <2> QED
    BY <1>1, <2>1, <2>4
<1> QED
  BY <1>2, <1>3

\* The rest of the step of a branch that ends activity a, unless it is ended.
LEMMA LoopEndsPreserves ==
  ASSUME IInv, Selecting, state # "finished",
         NEW a \in Started, NEW e \in Enders, EnqueueActivityCompletion(a, e),
         Started' = Started, exec' \in [Tasks -> {"none", "executing", "offering", "gone"}],
         UNCHANGED <<delivered, token, kind, ctxCancelled, pollOpen, beating>>,
         \/ poller' = poller
         \/ poller = "offering" /\ poller' = "polling" /\ kind[delivered] = "cancel"
  PROVE  IInv'
<1>1. a \in Tasks
  BY DEF Started
<1>2. /\ Taken \subseteq Taken'
      /\ \A b \in Taken' \ Taken : b = delivered /\ kind[b] = "cancel"
  BY DEF Taken
<1>3. CASE UNCHANGED <<pipeVars, activityVars>> /\ KeepState
  <2>1. /\ stage' = stage /\ failed' = failed /\ outstanding' = outstanding
        /\ \A b \in Tasks : Answered(b)' <=> Answered(b)
    BY <1>3 DEF pipeVars, KeepState, stateVars, Answered
  <2>2. FeedMatches'
    <3>1. Taken' \subseteq Tasks
      <4>1. 1 .. delivered' \subseteq Tasks
        BY TakenIsTasks DEF IInv
      <4> QED
        BY <4>1 DEF Taken
    <3>2. /\ Started' \subseteq Taken'
          /\ \A b \in Tasks : Answered(b)' => b \in Taken'
          /\ \A b \in Taken' : kind'[b] \in {"start", "undecodable"} =>
               b \in Started' \/ failed' \/ Answered(b)'
      BY <1>2, <2>1, <3>1 DEF IInv, FeedMatches
    <3>3. /\ \A b \in 1 .. delivered' : token'[b] \in Tokens
          /\ poller' = "offering" => delivered' \in Tasks
          /\ ~pollOpen' => poller' = "closed"
      BY DEF IInv, FeedMatches
    <3> QED
      BY <3>2, <3>3 DEF FeedMatches
  <2>3. PipeOK' /\ BookInv'
    BY <1>3, <2>1, <2>2, QuietPreserves DEF IInv, NoHeartbeatAfterTerminal
  <2>4. LoopTypes'
    BY <1>3 DEF IInv, LoopTypes, activityVars, KeepState, stateVars
  <2>5. DrainMatches'
    BY <1>3, <2>1 DEF IInv, DrainMatches, activityVars, KeepState, stateVars
  <2> QED
    BY <2>3, <2>4, <2>5 DEF IInv, BookInv
<1>4. CASE a \notin terminal /\ End(a, e) /\ (KeepState \/ DrainStep)
  <2>1. MutexFree(a)
    BY <1>1, CompletionCases
  <2>2. /\ PipeOK' /\ BookInv'
        /\ activeExecutions' \in 0 .. MaxActivities
        /\ running' \in [Tokens -> Tasks \cup {None}]
    BY <1>2, <1>4, <2>1, EndPreserves
  <2>3. /\ terminal' = terminal \cup {a}
    BY <1>4 DEF End
  <2>4. DrainMatches' /\ state' \in {"running", "draining", "finished"} /\ toCancel' \subseteq Tasks
        /\ failed' \in BOOLEAN
    BY <1>4, <2>2, <2>3, DrainPreserves
  <2>5. LoopTypes'
    BY <1>1, <2>2, <2>3, <2>4 DEF IInv, LoopTypes
  <2> QED
    BY <2>2, <2>4, <2>5 DEF IInv, BookInv
<1> QED
  BY <1>1, <1>3, <1>4, CompletionCases

LEMMA CancelRunningPreserves == IInv /\ CancelRunningActivity => IInv'
<1> SUFFICES ASSUME IInv, CancelRunningActivity PROVE IInv'
  OBVIOUS
<1>1. /\ TakeTask({"cancel"}) /\ UNCHANGED exec
      /\ Selecting /\ poller = "offering" /\ poller' = "polling" /\ kind[delivered] = "cancel"
      /\ UNCHANGED <<delivered, token, kind, ctxCancelled, pollOpen, beating>>
  BY DEF CancelRunningActivity, TakeTask
<1>2. delivered \in Tasks /\ token[delivered] \in Tokens /\ state # "finished"
  BY <1>1 DEF IInv, FeedMatches, DrainMatches, Tasks
<1> DEFINE r == running[token[delivered]]
<1>3. CASE r = None
  <2>1. UNCHANGED <<pipeVars, stateVars, activityVars>>
    BY <1>3 DEF CancelRunningActivity
  <2> QED
    BY <1>1, <2>1, DroppedTaskPreserves DEF KeepState
<1>4. ASSUME NEW a, a = r, a # None PROVE IInv'
  <2>1. a \in Started
    BY <1>2, <1>4 DEF IInv, RunningMatches
  <2>2. EnqueueActivityCompletion(a, "cancel")
    BY <1>4 DEF CancelRunningActivity
  <2>3. Started' = Started /\ "cancel" \in Enders
    BY <1>1 DEF Started, Enders
  <2>4. exec' \in [Tasks -> {"none", "executing", "offering", "gone"}]
    BY <1>1 DEF IInv, LoopTypes
  <2> QED
    BY <1>1, <1>2, <2>1, <2>2, <2>3, <2>4, LoopEndsPreserves
<1> QED
  BY <1>3, <1>4

LEMMA ActivityEventPreserves ==
  ASSUME IInv, NEW a \in Tasks, TakeActivityEvent(a)
  PROVE  IInv'
<1>1. /\ Selecting /\ state # "finished"
      /\ a \in Started /\ Started' = Started
      /\ exec' \in [Tasks -> {"none", "executing", "offering", "gone"}]
      /\ UNCHANGED <<feedVars, ctxCancelled, pollOpen, beating>>
  BY DEF TakeActivityEvent, Started, IInv, LoopTypes
<1>2. CASE running[token[a]] = a
  <2>1. EnqueueActivityCompletion(a, "result") /\ "result" \in Enders
    BY <1>2 DEF TakeActivityEvent, Enders
  <2> QED
    BY <1>1, <2>1, LoopEndsPreserves DEF feedVars
<1>3. CASE running[token[a]] # a
  <2>1. UNCHANGED <<pipeVars, stateVars, activityVars>>
    BY <1>3 DEF TakeActivityEvent
  <2> QED
    BY <1>1, <2>1, MovePreserves DEF feedVars, IInv, LoopTypes, NoHeartbeatAfterTerminal
<1> QED
  BY <1>2, <1>3

LEMMA CancelNextPreserves ==
  ASSUME IInv, NEW a \in Tasks, CancelNext(a)
  PROVE  IInv'
<1>1. /\ a \in toCancel /\ toCancel' = toCancel \ {a} /\ MutexFree(a)
      /\ UNCHANGED <<delivered, token, kind, poller, ctxCancelled, state, pollOpen, exec, beating>>
  BY DEF CancelNext, feedVars
<1>2. /\ a \in Started /\ state = "draining" /\ Started' = Started /\ Taken' = Taken
  BY <1>1 DEF IInv, DrainMatches, Started, Taken
<1>3. CASE a \in terminal
  <2>1. UNCHANGED <<pipeVars, activityVars, failed>>
    BY <1>3 DEF CancelNext, AlreadyTerminal
  <2>2. \A b \in Tasks : Answered(b)' <=> Answered(b)
    BY <2>1 DEF Answered, pipeVars
  <2>3. FeedMatches'
    BY <1>1, <1>2, <2>1, <2>2, TakenIsTasks DEF IInv, FeedMatches
  <2>4. PipeOK' /\ BookInv'
    BY <1>1, <1>2, <2>1, <2>3, QuietPreserves DEF IInv, NoHeartbeatAfterTerminal
  <2>5. LoopTypes'
    BY <1>1, <2>1 DEF IInv, LoopTypes, activityVars
  <2>6. DrainMatches'
    BY <1>1, <1>2, <1>3, <2>1 DEF IInv, DrainMatches, activityVars
  <2> QED
    BY <2>4, <2>5, <2>6 DEF IInv, BookInv
<1>4. CASE a \notin terminal
  <2>1. End(a, "drain") /\ "drain" \in Enders
    BY <1>4 DEF CancelNext, AlreadyTerminal, End, Enders
  <2>2. /\ PipeOK' /\ BookInv'
        /\ activeExecutions' \in 0 .. MaxActivities
        /\ running' \in [Tokens -> Tasks \cup {None}]
    BY <1>1, <1>2, <1>4, <2>1, EndPreserves
  <2>3. terminal' = terminal \cup {a} /\ failed' \in BOOLEAN
    BY <2>1 DEF End, IInv, LoopTypes
  <2>4. LoopTypes'
    BY <1>1, <2>2, <2>3 DEF IInv, LoopTypes
  <2>5. DrainMatches'
    BY <1>1, <1>2, <2>3 DEF IInv, DrainMatches
  <2> QED
    BY <2>2, <2>4, <2>5 DEF IInv, BookInv
<1> QED
  BY <1>3, <1>4
LEMMA StartPreserves ==
  ASSUME IInv, StartActivity
  PROVE  IInv'
<1>1. PICK d \in Tasks : d = delivered
  BY DEF StartActivity, TakeTask, IInv, FeedMatches
<1>2. /\ poller = "offering" /\ poller' = "polling" /\ kind[d] = "start"
      /\ state = "running" /\ activeExecutions < MaxActivities
      /\ running[token[d]] = None
      /\ running' = [running EXCEPT ![token[d]] = d]
      /\ activeExecutions' = activeExecutions + 1
      /\ exec' = [exec EXCEPT ![d] = "executing"]
      /\ UNCHANGED <<pipeVars, stateVars, terminal, delivered, token, kind, ctxCancelled,
                     pollOpen, beating>>
  BY <1>1 DEF StartActivity, TakeTask, ExecutionFree
<1>3. token[d] \in Tokens /\ d # None /\ d \in 1 .. delivered
  BY <1>1, ActivityAssumption DEF IInv, FeedMatches, Tasks
<1>4. d \notin Taken /\ d \notin Started /\ d \notin terminal /\ ~Answered(d)
  BY <1>1, <1>2 DEF Taken, IInv, FeedMatches, CompletionsMatch
<1>5. /\ Taken' = Taken \cup {d}
      /\ Started' = Started \cup {d}
      /\ \A a \in Tasks : Answered(a)' <=> Answered(a)
  BY <1>1, <1>2, <1>3 DEF Taken, Started, Answered, pipeVars, IInv, LoopTypes
<1>6. stage' = stage /\ outcome' = outcome /\ report' = report /\ outstanding' = outstanding
      /\ state' = state /\ failed' = failed /\ toCancel' = toCancel
  BY <1>2 DEF pipeVars, stateVars
<1>7. PipeOK'
  BY <1>2, PipeStutters DEF IInv
<1>8. FeedMatches'
  <2>1. Started' \subseteq Taken' /\ \A a \in Tasks : Answered(a)' => a \in Taken'
    BY <1>5 DEF IInv, FeedMatches
  <2>2. \A a \in Taken' : kind'[a] \in {"start", "undecodable"} =>
             a \in Started' \/ failed' \/ Answered(a)'
    BY <1>2, <1>5, <1>6, TakenIsTasks DEF IInv, FeedMatches
  <2>3. /\ \A a \in 1 .. delivered' : token'[a] \in Tokens
        /\ poller' # "offering"
        /\ pollOpen'
    BY <1>2 DEF IInv, FeedMatches
  <2> QED
    BY <2>1, <2>2, <2>3 DEF FeedMatches
<1>9. CompletionsMatch'
  <2>1. terminal' \subseteq Started'
    BY <1>2, <1>5 DEF IInv, CompletionsMatch
  <2>2. \A a \in Started' : a \in terminal' <=> Answered(a)'
    BY <1>2, <1>4, <1>5 DEF IInv, CompletionsMatch, Started
  <2> QED
    BY <1>6, <2>1, <2>2 DEF IInv, CompletionsMatch
<1>10. RunningMatches'
  BY <1>2, <1>3, <1>5 DEF IInv, LoopTypes, RunningMatches
<1>11. OneTerminalCompletion' /\ NoHeartbeatAfterTerminal'
  BY <1>2, <1>6 DEF IInv, OneTerminalCompletion, NoHeartbeatAfterTerminal
<1>12. ExecutionsAccounted'
  <2>1. Started' \ terminal' = (Started \ terminal) \cup {d}
    BY <1>2, <1>4, <1>5
  <2>2. Cardinality(Started' \ terminal') = Cardinality(Started \ terminal) + 1
    BY <1>4, <2>1, FiniteExecutions, FS_AddElement DEF IInv
  <2>3. \A a \in Started : a # None /\ a # d /\ a \in Tasks
    BY <1>4, ActivityAssumption DEF Started
  <2>4. \A a \in Started : running'[token[a]] = a <=> running[token[a]] = a
    <3>1. \A a \in Started : token[a] \in Tokens
      BY DEF IInv, FeedMatches, Taken
    <3> QED
      BY <1>2, <1>3, <2>3, <3>1 DEF IInv, LoopTypes
  <2>5. running'[token[d]] = d
    BY <1>2, <1>3 DEF IInv, LoopTypes
  <2>6. \A a \in Started' \ terminal' : running'[token'[a]] = a
    BY <1>2, <2>1, <2>4, <2>5 DEF IInv, ExecutionsAccounted
  <2>7. Started' \cap terminal' = Started \cap terminal
    BY <1>2, <1>4, <1>5
  <2> QED
    BY <1>2, <1>6, <2>2, <2>4, <2>6, <2>7 DEF IInv, ExecutionsAccounted
<1>13. LoopTypes'
  BY <1>2, <1>3, <1>6, ActivityAssumption DEF IInv, LoopTypes
<1>14. DrainMatches'
  BY <1>2, <1>5, <1>6 DEF IInv, DrainMatches
<1> QED
  BY <1>7, <1>8, <1>9, <1>10, <1>11, <1>12, <1>13, <1>14 DEF IInv

\* A goroutine of the pipeline moves a completion that is in it, and gives
\* none of them up.
LEMMA PipelinePreserves ==
  ASSUME IInv, NEW c \in Completions, PipelineRuns(c)
  PROVE  IInv'
<1>1. /\ UNCHANGED <<feedVars, ctxCancelled, stateVars, pollOpen, activityVars, exec, beating>>
      /\ Pipe!Run(c)
  BY DEF PipelineRuns
<1>2. /\ PipeOK'
      /\ outstanding' = outstanding
      /\ \A a \in Tasks, e \in Enders :
           /\ \/ stage[<<a, e>>] \in {"new", "refused", "rejected"}
              \/ stage'[<<a, e>>] \in {"new", "refused", "rejected"}
              => stage'[<<a, e>>] = stage[<<a, e>>]
           /\ report'[<<a, e>>] = "finalized" <=> report[<<a, e>>] = "finalized"
           /\ report[<<a, e>>] # "none" => outcome'[<<a, e>>] = outcome[<<a, e>>]
  BY <1>1, RunEffect DEF IInv
<1>3. /\ delivered' = delivered /\ token' = token /\ kind' = kind /\ poller' = poller
      /\ state' = state /\ failed' = failed /\ toCancel' = toCancel
      /\ running' = running /\ activeExecutions' = activeExecutions /\ terminal' = terminal
      /\ exec' = exec /\ beating' = beating /\ pollOpen' = pollOpen
      /\ ctxCancelled' = ctxCancelled
      /\ Started' = Started /\ Taken' = Taken
  BY <1>1 DEF feedVars, stateVars, activityVars, Started, Taken
<1>4. \A a \in Tasks, e \in Enders :
        /\ stage'[<<a, e>>] = "new" <=> stage[<<a, e>>] = "new"
        /\ stage'[<<a, e>>] = "refused" <=> stage[<<a, e>>] = "refused"
        /\ stage'[<<a, e>>] = "rejected" <=> stage[<<a, e>>] = "rejected"
  BY <1>2
<1>5. \A a \in Tasks : Answered(a)' <=> Answered(a)
  BY <1>4 DEF Answered
<1>6. FeedMatches'
  BY <1>3, <1>5, TakenIsTasks DEF IInv, FeedMatches
<1>7. CompletionsMatch'
  <2>1. terminal' \subseteq Started' /\ \A a \in Started' : a \in terminal' <=> Answered(a)'
    BY <1>3, <1>5 DEF IInv, CompletionsMatch, Started
  <2> QED
    BY <1>2, <1>3, <1>4, <2>1 DEF IInv, CompletionsMatch
<1>8. RunningMatches' /\ NoHeartbeatAfterTerminal'
  BY <1>3 DEF IInv, RunningMatches, NoHeartbeatAfterTerminal
<1>9. OneTerminalCompletion'
  BY <1>4 DEF IInv, OneTerminalCompletion
<1>10. ExecutionsAccounted'
  <2>1. \A a \in Started, e \in Enders :
          stage'[<<a, e>>] \notin {"new", "rejected"} /\ report'[<<a, e>>] # "finalized"
          <=> stage[<<a, e>>] \notin {"new", "rejected"} /\ report[<<a, e>>] # "finalized"
    BY <1>2, <1>4 DEF Started
  <2>2. \A a \in Started :
          (\E e \in Enders : stage'[<<a, e>>] \notin {"new", "rejected"}
                             /\ report'[<<a, e>>] # "finalized")
          <=> \E e \in Enders : stage[<<a, e>>] \notin {"new", "rejected"}
                                /\ report[<<a, e>>] # "finalized"
    BY <2>1
  <2> QED
    BY <1>3, <2>2 DEF IInv, ExecutionsAccounted
<1>11. LoopTypes' /\ DrainMatches'
  BY <1>2, <1>3 DEF IInv, LoopTypes, DrainMatches
<1> QED
  BY <1>2, <1>6, <1>7, <1>8, <1>9, <1>10, <1>11 DEF IInv

\* handleCompletionResult forgets the activity and reports a failed submission.
LEMMA ResultPreserves ==
  ASSUME IInv, NEW c \in Completions, TakeCompletionResult(c)
  PROVE  IInv'
<1>1. PICK a \in Tasks, e \in Enders : c = <<a, e>>
  BY DEF Completions
<1>2. /\ Selecting
      /\ IF a \in Started THEN Forget(a) ELSE UNCHANGED running
      /\ IF outcome[<<a, e>>] = "failed" THEN StartDraining(TRUE) ELSE KeepState
      /\ UNCHANGED <<feedVars, ctxCancelled, pollOpen, activeExecutions, terminal, exec, beating>>
      /\ results # <<>>
  <2>1. c[1] = a
    BY <1>1
  <2>2. IF a \in Started THEN Forget(a) ELSE UNCHANGED running
    BY <2>1 DEF TakeCompletionResult, Forget
  <2>3. IF outcome[<<a, e>>] = "failed" THEN StartDraining(TRUE) ELSE KeepState
    BY <1>1 DEF TakeCompletionResult
  <2> QED
    BY <2>2, <2>3 DEF TakeCompletionResult
<1>3. /\ PipeOK'
      /\ stage[<<a, e>>] \in {"leaving", "done"}
      /\ outcome[<<a, e>>] # "none"
      /\ stage' = stage /\ outcome' = outcome
      /\ report'[<<a, e>>] = "finalized"
      /\ \A b \in Tasks, f \in Enders :
           <<b, f>> # <<a, e>> => report'[<<b, f>>] = report[<<b, f>>]
  <2>1. /\ PipeOK'
        /\ stage[c] \in {"leaving", "done"}
        /\ outcome[c] # "none"
        /\ stage' = stage /\ outcome' = outcome
        /\ report' = [report EXCEPT ![c] = "finalized"]
        /\ c \in DOMAIN report
    BY ResultEffect DEF IInv
  <2>2. DOMAIN report = Completions
    BY DEF IInv, PipeOK, PP!IInv, PP!TypeOK
  <2> QED
    BY <1>1, <2>1, <2>2 DEF Completions
<1>4. /\ delivered' = delivered /\ token' = token /\ kind' = kind /\ poller' = poller
      /\ activeExecutions' = activeExecutions /\ terminal' = terminal
      /\ exec' = exec /\ beating' = beating /\ pollOpen' = pollOpen
      /\ ctxCancelled' = ctxCancelled
      /\ Started' = Started /\ Taken' = Taken
  BY <1>2 DEF feedVars, Started, Taken
<1>5. /\ \/ KeepState /\ failed' = failed
         \/ DrainStep /\ failed' = TRUE
      /\ outcome[<<a, e>>] = "failed" => failed' = TRUE
      /\ failed => failed'
  <2>1. StartDraining(TRUE) => DrainStep /\ failed' = TRUE
    BY DEF IInv, LoopTypes, StartDraining, DrainStep
  <2>2. KeepState => failed' = failed
    BY DEF KeepState, stateVars
  <2>3. CASE outcome[<<a, e>>] = "failed"
    BY <1>2, <2>1, <2>3
  <2>4. CASE outcome[<<a, e>>] # "failed"
    BY <1>2, <2>2, <2>4
  <2> QED
    BY <2>3, <2>4
<1>6. \A b \in Tasks : Answered(b)' <=> Answered(b)
  BY <1>3 DEF Answered
<1>7. FeedMatches'
  BY <1>4, <1>5, <1>6, TakenIsTasks DEF IInv, FeedMatches
<1>8. CompletionsMatch'
  <2>1. terminal' \subseteq Started' /\ \A b \in Started' : b \in terminal' <=> Answered(b)'
    BY <1>4, <1>6 DEF IInv, CompletionsMatch, Started
  <2>2. ASSUME NEW b \in Tasks, NEW f \in Enders
        PROVE  /\ stage'[<<b, f>>] # "refused"
               /\ stage'[<<b, f>>] = "rejected" => failed'
               /\ report'[<<b, f>>] = "finalized" /\ outcome'[<<b, f>>] = "failed" => failed'
    <3>1. CASE <<b, f>> = <<a, e>>
      BY <1>3, <1>5, <3>1
    <3>2. CASE <<b, f>> # <<a, e>>
      BY <1>3, <1>5, <3>2 DEF IInv, CompletionsMatch
    <3> QED
      BY <3>1, <3>2
  <2> QED
    BY <2>1, <2>2 DEF CompletionsMatch
<1>9. /\ running' \in [Tokens -> Tasks \cup {None}]
      /\ a \in Started => token[a] \in Tokens
      /\ running' = running \/ (a \in Started /\ running[token[a]] = a
                                 /\ running' = [running EXCEPT ![token[a]] = None])
      /\ a \in Started /\ running[token[a]] = a => running' = [running EXCEPT ![token[a]] = None]
  BY <1>2 DEF Forget, IInv, LoopTypes, FeedMatches, Taken
<1>10. RunningMatches'
  BY <1>4, <1>9 DEF IInv, LoopTypes, RunningMatches
<1>11. OneTerminalCompletion' /\ NoHeartbeatAfterTerminal'
  BY <1>3, <1>4 DEF IInv, OneTerminalCompletion, NoHeartbeatAfterTerminal
<1>12. a \in Started => a \in terminal
  BY <1>1, <1>3 DEF IInv, CompletionsMatch, Answered
<1>13. ExecutionsAccounted'
  <2>1. ASSUME NEW b \in Started, b # a
        PROVE  /\ running'[token[b]] = b <=> running[token[b]] = b
               /\ \A f \in Enders : report'[<<b, f>>] = report[<<b, f>>]
    <3>1. token[b] \in Tokens /\ b # None /\ b \in Tasks
      BY ActivityAssumption DEF IInv, FeedMatches, Taken, Started
    <3> QED
      BY <1>3, <1>9, <2>1, <3>1 DEF IInv, LoopTypes
  <2>2. \A b \in Started \ terminal : running'[token[b]] = b
    BY <1>12, <2>1 DEF IInv, ExecutionsAccounted
  <2>3. ASSUME NEW b \in Started \cap terminal, b # a
        PROVE  running'[token[b]] = b <=>
                 \E f \in Enders : stage'[<<b, f>>] \notin {"new", "rejected"}
                                   /\ report'[<<b, f>>] # "finalized"
    <3>1. running[token[b]] = b <=>
            \E f \in Enders : stage[<<b, f>>] \notin {"new", "rejected"}
                              /\ report[<<b, f>>] # "finalized"
      BY DEF IInv, ExecutionsAccounted
    <3> QED
      BY <1>3, <2>1, <2>3, <3>1
  <2>4. ASSUME a \in Started
        PROVE  /\ running'[token[a]] # a
               /\ ~\E f \in Enders : stage'[<<a, f>>] \notin {"new", "rejected"}
                                     /\ report'[<<a, f>>] # "finalized"
    <3>1. running'[token[a]] # a
      BY <1>9, <2>4, ActivityAssumption DEF IInv, LoopTypes
    <3>2. \A f \in Enders : f # e => stage[<<a, f>>] = "new"
      BY <1>3 DEF IInv, OneTerminalCompletion
    <3> QED
      BY <1>3, <3>1, <3>2
  <2>5. \A b \in Started \cap terminal :
          running'[token[b]] = b <=>
            \E f \in Enders : stage'[<<b, f>>] \notin {"new", "rejected"}
                              /\ report'[<<b, f>>] # "finalized"
    BY <2>3, <2>4
  <2> QED
    BY <1>4, <2>2, <2>5 DEF IInv, ExecutionsAccounted
<1>14. BookInv'
  BY <1>7, <1>8, <1>10, <1>11, <1>13 DEF BookInv
<1>15. DrainMatches' /\ state' \in {"running", "draining", "finished"} /\ toCancel' \subseteq Tasks
      /\ failed' \in BOOLEAN
  <2>1. state # "finished"
    BY <1>2, EmptyPipe DEF IInv, DrainMatches
  <2> QED
    BY <1>2, <1>4, <1>5, <1>9, <1>14, <2>1, DrainPreserves
<1>16. LoopTypes'
  BY <1>4, <1>9, <1>15 DEF IInv, LoopTypes
<1> QED
  BY <1>3, <1>14, <1>15, <1>16 DEF IInv, BookInv
-----------------------------------------------------------------------------
(***************************************************************************)
(* The invariant in every reachable state, and what follows from it.       *)
(***************************************************************************)
LEMMA TakePolledTaskPreserves == IInv /\ TakePolledTask => IInv'
<1> SUFFICES ASSUME IInv, TakePolledTask PROVE IInv'
  OBVIOUS
<1>1. PICK d \in Tasks : d = delivered
  BY DEF TakePolledTask, TakeUndecodable, RefuseStart, StartActivity, CancelStart,
         CancelRunningActivity, TakeEmptyTask, TakeTask, IInv, FeedMatches
<1>2. {"result", "drain"} \subseteq Enders
  BY DEF Enders
<1>3. CASE TakeUndecodable
  BY <1>1, <1>2, <1>3, UnstartedPreserves DEF TakeUndecodable
<1>4. CASE RefuseStart
  BY <1>4, DroppedTaskPreserves DEF RefuseStart
<1>5. CASE CancelStart
  BY <1>1, <1>2, <1>5, UnstartedPreserves DEF CancelStart
<1>6. CASE TakeEmptyTask
  BY <1>6, DroppedTaskPreserves DEF TakeEmptyTask
<1> QED
  BY <1>3, <1>4, <1>5, <1>6, StartPreserves, CancelRunningPreserves DEF TakePolledTask

LEMMA FinishPreserves == IInv /\ (Finish \/ UNCHANGED vars) => IInv'
<1> SUFFICES ASSUME IInv, Finish \/ UNCHANGED vars PROVE IInv'
  OBVIOUS
<1>1. /\ UNCHANGED <<pipeVars, feedVars, ctxCancelled, failed, toCancel, pollOpen,
                     activityVars, exec, beating>>
      /\ \/ state' = state
         \/ Selecting /\ ShouldFinish /\ state' = "finished"
  BY DEF Finish, vars, stateVars
<1>2. /\ Started' = Started /\ Taken' = Taken
      /\ \A a \in Tasks : Answered(a)' <=> Answered(a)
  BY <1>1 DEF Started, Taken, feedVars, pipeVars, Answered
<1>3. FeedMatches'
  BY <1>1, <1>2, TakenIsTasks DEF IInv, FeedMatches, feedVars
<1>4. PipeOK' /\ BookInv'
  BY <1>1, <1>2, <1>3, QuietPreserves DEF IInv, feedVars, NoHeartbeatAfterTerminal
<1>5. LoopTypes' /\ DrainMatches'
  BY <1>1, <1>2
  DEF IInv, LoopTypes, DrainMatches, feedVars, activityVars, pipeVars, Selecting, ShouldFinish
<1> QED
  BY <1>4, <1>5 DEF IInv, BookInv

LEMMA StepInvariant == IInv /\ [Next]_vars => IInv'
<1> SUFFICES ASSUME IInv, [Next]_vars PROVE IInv'
  OBVIOUS
<1>1. CASE PollReturnsTask \/ TakeContextDone \/ TakePollClosed \/ TakePollError
           \/ TakePolledTask \/ Finish \/ UNCHANGED vars
  BY <1>1, PollReturnsTaskPreserves, ContextDonePreserves, PollEndPreserves,
     TakePolledTaskPreserves, FinishPreserves
<1>2. CASE PollReturnsError \/ PollerGivesUp \/ CancelContext
  BY <1>2, MovesPreserve
<1>3. ASSUME NEW a \in Tasks,
             \/ FunctionReturns(a) \/ GoroutineLeaves(a)
             \/ BeginHeartbeat(a) \/ EndHeartbeat(a)
             \/ TakeActivityEvent(a) \/ CancelNext(a)
      PROVE  IInv'
  BY <1>3, MovesPreserve, ActivityEventPreserves, CancelNextPreserves
<1>4. ASSUME NEW c \in Completions, PipelineRuns(c) \/ TakeCompletionResult(c)
      PROVE  IInv'
  BY <1>4, PipelinePreserves, ResultPreserves
<1> QED
  BY <1>1, <1>2, <1>3, <1>4 DEF Next

\* The strengthened invariant holds in every reachable state.
THEOREM Invariance == Spec => []IInv
BY InitInvariant, StepInvariant, PTL DEF Spec

\* Every variable of the loop keeps its type: in particular activeExecutions
\* never falls below zero, nor goes above the limit, and the pipeline's counters
\* keep their bounds under the loop that drives it.
THEOREM TypeCorrect == Spec => []TypeOK
<1>1. IInv => TypeOK
  BY SamePipeType DEF IInv, PipeOK, PP!IInv, LoopTypes, TypeOK
<1> QED
  BY <1>1, Invariance, PTL

\* queueTerminal lets one of result, cancellation and shutdown through.
THEOREM OneTerminal == Spec => []OneTerminalCompletion
<1>1. IInv => OneTerminalCompletion
  BY DEF IInv
<1> QED
  BY <1>1, Invariance, PTL

\* The activity's mutex orders recordHeartbeat and queueTerminal.
THEOREM NoLateHeartbeat == Spec => []NoHeartbeatAfterTerminal
<1>1. IInv => NoHeartbeatAfterTerminal
  BY DEF IInv
<1> QED
  BY <1>1, Invariance, PTL

\* loop.running and loop.activeExecutions agree with what has been started,
\* ended and handed to the pipeline.
THEOREM Accounted == Spec => []ExecutionsAccounted
<1>1. IInv => ExecutionsAccounted
  BY DEF IInv
<1> QED
  BY <1>1, Invariance, PTL

\* run returns with nothing owed: shouldFinish tests only the pipeline, and the
\* invariant carries that to every activity and every task.
THEOREM QuietAtTheEnd == Spec => []FinishedIsQuiet
<1>1. IInv => FinishedIsQuiet
  <2> SUFFICES ASSUME IInv, state = "finished" PROVE FinishedIsQuiet
    BY DEF FinishedIsQuiet
  <2>1. poller = "closed" /\ outstanding = 0 /\ Started \subseteq terminal /\ toCancel = {}
    BY DEF IInv, DrainMatches, FeedMatches
  <2>2. \A a \in Tasks, e \in Enders :
          \/ stage[<<a, e>>] \in {"new", "refused", "rejected"}
          \/ report[<<a, e>>] = "finalized" /\ outcome[<<a, e>>] \in {"ok", "failed"}
    BY <2>1, EmptyPipe DEF IInv
  <2>3. ASSUME NEW a \in Tasks, Answered(a)
        PROVE  \E e \in Enders :
                 \/ report[<<a, e>>] = "finalized" /\ (outcome[<<a, e>>] = "ok" \/ failed)
                 \/ stage[<<a, e>>] = "rejected" /\ failed
    BY <2>2, <2>3 DEF Answered, IInv, CompletionsMatch
  <2>4. \A a \in Started : a \in Tasks /\ Answered(a)
    BY <2>1 DEF IInv, CompletionsMatch, Started
  <2>5. \A a \in Started : \E e \in Enders :
          report[<<a, e>>] = "finalized" \/ (stage[<<a, e>>] = "rejected" /\ failed)
    BY <2>3, <2>4
  <2>6. ASSUME ~failed, NEW a \in 1 .. delivered, kind[a] \in {"start", "undecodable"}
        PROVE  \E e \in Enders : outcome[<<a, e>>] = "ok" /\ report[<<a, e>>] = "finalized"
    <3>1. a \in Taken /\ a \in Tasks
      BY <2>1, TakenIsTasks DEF Taken, IInv
    <3>2. Answered(a)
      BY <2>4, <2>6, <3>1 DEF IInv, FeedMatches
    <3> QED
      BY <2>3, <2>6, <3>1, <3>2
  <2> QED
    BY <2>1, <2>5, <2>6 DEF FinishedIsQuiet
<1> QED
  BY <1>1, Invariance, PTL
-----------------------------------------------------------------------------
(***************************************************************************)
(* The pipeline inside the loop: each step of the loop is at most one step *)
(* of the pipeline, or a receive and the finalize that follows it.         *)
(***************************************************************************)
PipeMoves(c) ==
  PP!EnqueueAccepted(c) \/ PP!EnqueueRejected(c) \/ PP!Run(c) \/ PP!ReceiveAndFinalize(c)

LEMMA EnqueueMoves ==
  ASSUME NEW a \in Tasks, NEW e \in Enders,
         Pipe!EnqueueAccepted(<<a, e>>) \/ Pipe!EnqueueRejected(<<a, e>>)
  PROVE  \E c \in Completions : PipeMoves(c)
<1>1. <<a, e>> \in Completions
  BY DEF Completions
<1> QED
  BY <1>1, SamePipe DEF PipeMoves

LEMMA EndingMoves ==
  ASSUME NEW a \in Tasks, NEW e \in Enders, EnqueueActivityCompletion(a, e)
  PROVE  UNCHANGED pipeVars \/ \E c \in Completions : PipeMoves(c)
<1>1. CASE AlreadyTerminal(a)
  BY <1>1 DEF EnqueueActivityCompletion
<1>2. CASE ~AlreadyTerminal(a)
  <2>1. Pipe!EnqueueAccepted(<<a, e>>) \/ Pipe!EnqueueRejected(<<a, e>>)
    BY <1>2 DEF EnqueueActivityCompletion
  <2> QED
    BY <2>1, EnqueueMoves
<1> QED
  BY <1>1, <1>2

LEMMA TakingMoves ==
  ASSUME IInv, TakePolledTask
  PROVE  UNCHANGED pipeVars \/ \E c \in Completions : PipeMoves(c)
<1>0. poller = "offering" /\ delivered \in Tasks /\ token[delivered] \in Tokens
  <2>1. poller = "offering"
    BY DEF TakePolledTask, TakeUndecodable, RefuseStart, StartActivity, CancelStart,
           CancelRunningActivity, TakeEmptyTask, TakeTask
  <2>2. delivered \in Tasks
    BY <2>1 DEF IInv, FeedMatches
  <2>3. delivered \in 1 .. delivered
    BY <2>2, ActivityAssumption DEF Tasks
  <2> QED
    BY <2>1, <2>2, <2>3 DEF IInv, FeedMatches
<1>1. CASE TakeUndecodable \/ CancelStart
  <2>1. PICK e \in {"result", "drain"} : EnqueueCompletion(<<delivered, e>>)
    BY <1>1 DEF TakeUndecodable, CancelStart
  <2>2. e \in Enders
    BY DEF Enders
  <2> QED
    BY <1>0, <2>1, <2>2, EnqueueMoves DEF EnqueueCompletion
<1>2. RefuseStart \/ StartActivity \/ TakeEmptyTask => UNCHANGED pipeVars
  BY DEF RefuseStart, StartActivity, TakeEmptyTask
<1>3. CASE CancelRunningActivity
  <2> DEFINE a == running[token[delivered]]
  <2>1. CASE a = None
    BY <1>3, <2>1 DEF CancelRunningActivity
  <2>2. CASE a # None
    <3>1. a \in Tasks
      BY <1>0, <2>2 DEF IInv, RunningMatches, Started
    <3>2. EnqueueActivityCompletion(a, "cancel") /\ "cancel" \in Enders
      BY <1>3, <2>2 DEF CancelRunningActivity, Enders
    <3> QED
      BY <3>1, <3>2, EndingMoves
  <2> QED
    BY <2>1, <2>2
<1> QED
  BY <1>1, <1>2, <1>3 DEF TakePolledTask

LEMMA LoopMovesPipe ==
  ASSUME IInv, Next
  PROVE  UNCHANGED pipeVars \/ \E c \in Completions : PipeMoves(c)
<1>1. PollReturnsTask \/ PollReturnsError \/ PollerGivesUp \/ CancelContext \/ TakeContextDone
        \/ TakePollClosed \/ TakePollError \/ Finish => UNCHANGED pipeVars
  BY DEF PollReturnsTask, PollReturnsError, PollerGivesUp, CancelContext, TakeContextDone,
         TakePollClosed, TakePollError, Finish
<1>2. ASSUME NEW a \in Tasks,
             FunctionReturns(a) \/ GoroutineLeaves(a) \/ BeginHeartbeat(a) \/ EndHeartbeat(a)
      PROVE  UNCHANGED pipeVars
  BY <1>2 DEF FunctionReturns, GoroutineLeaves, BeginHeartbeat, EndHeartbeat
<1>3. ASSUME NEW a \in Tasks, TakeActivityEvent(a)
      PROVE  UNCHANGED pipeVars \/ \E c \in Completions : PipeMoves(c)
  <2>1. CASE running[token[a]] = a
    BY <1>3, <2>1, EndingMoves DEF TakeActivityEvent, Enders
  <2>2. CASE running[token[a]] # a
    BY <1>3, <2>2 DEF TakeActivityEvent
  <2> QED
    BY <2>1, <2>2
<1>4. ASSUME NEW a \in Tasks, CancelNext(a)
      PROVE  UNCHANGED pipeVars \/ \E c \in Completions : PipeMoves(c)
  <2>1. CASE AlreadyTerminal(a)
    BY <1>4, <2>1 DEF CancelNext
  <2>2. CASE ~AlreadyTerminal(a)
    <3>1. Pipe!EnqueueAccepted(<<a, "drain">>) \/ Pipe!EnqueueRejected(<<a, "drain">>)
      BY <1>4, <2>2 DEF CancelNext
    <3> QED
      BY <3>1, EnqueueMoves DEF Enders
  <2> QED
    BY <2>1, <2>2
<1>5. ASSUME NEW c \in Completions, PipelineRuns(c) \/ TakeCompletionResult(c)
      PROVE  PipeMoves(c)
  <2>1. PipelineRuns(c) => PP!Run(c)
    BY SamePipe DEF PipelineRuns
  <2>2. TakeCompletionResult(c) => PP!ReceiveAndFinalize(c)
    BY SameLimits DEF TakeCompletionResult, PP!ReceiveAndFinalize
  <2> QED
    BY <1>5, <2>1, <2>2 DEF PipeMoves
<1> QED
  BY <1>1, <1>2, <1>3, <1>4, <1>5, TakingMoves DEF Next

\* The pipeline of the activity loop keeps what it keeps alone, whatever the
\* loop hands it and when: its counters, its queue and channel, and the weight of
\* the completions it retains, which without options never exceeds 64 MiB.
THEOREM PipelineSound ==
  Spec => [](/\ PP!CountersMatch /\ PP!WorkConserving /\ PP!ChannelsConsistent
             /\ PP!WeightMatches /\ totalWeight <= Pipe!DefaultMaxOutstandingWeight)
<1>1. Init => PP!WeightInv
  BY SamePipeInit, PipeAssumptions, PP!WeightInit DEF Init
<1>2. ASSUME IInv, PP!WeightInv, [Next]_vars PROVE PP!WeightInv'
  <2>1. CASE UNCHANGED pipeVars
    <3>1. UNCHANGED PP!vars
      BY <2>1 DEF pipeVars, PP!vars
    <3> QED
      BY <1>2, <3>1, PipeAssumptions, PP!WeightStutter
  <2>2. ASSUME NEW c \in Completions, PipeMoves(c) PROVE PP!WeightInv'
    BY <1>2, <2>2, PipeAssumptions, PP!WeightAccepted, PP!WeightTurnedAway, PP!WeightRun,
       PP!WeightConsumed
    DEF PipeMoves
  <2>3. UNCHANGED vars => UNCHANGED pipeVars
    BY DEF vars
  <2> QED
    BY <1>2, <2>1, <2>2, <2>3, LoopMovesPipe
<1>3. ASSUME PP!WeightInv
      PROVE  /\ PP!CountersMatch /\ PP!WorkConserving /\ PP!ChannelsConsistent
             /\ PP!WeightMatches /\ totalWeight <= Pipe!DefaultMaxOutstandingWeight
  <2>1. PP!CountersMatch /\ PP!WorkConserving /\ PP!ChannelsConsistent
    BY <1>3 DEF PP!WeightInv, PP!IInv
  <2>2. PP!WeightMatches
    BY <1>3 DEF PP!WeightInv, PP!WeightMatches, PP!Total
  <2>3. PP!MaxWeight = Pipe!DefaultMaxOutstandingWeight
    BY DEF PP!MaxWeight, PP!DefaultMaxOutstandingWeight, Pipe!DefaultMaxOutstandingWeight
  <2>4. totalWeight <= Pipe!DefaultMaxOutstandingWeight
    BY <1>3, <2>3 DEF PP!WeightInv
  <2> QED
    BY <2>1, <2>2, <2>4
<1> QED
  BY Invariance, <1>1, <1>2, <1>3, PTL DEF Spec
=============================================================================
