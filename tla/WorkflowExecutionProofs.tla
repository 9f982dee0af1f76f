----------------------- MODULE WorkflowExecutionProofs -----------------------
(***************************************************************************)
(* Proofs about WorkflowExecution, for any number of activations,          *)
(* operations, futures, coroutines, signals and updates: what drive leaves *)
(* behind, the order of its passes, and the commands it returns.           *)
(***************************************************************************)
EXTENDS WorkflowExecution, FiniteSetTheorems, WellFoundedInduction, TLAPS

OutputKinds ==
  {"start", "completed", "complete", "fail", "accepted", "rejected", "query"}

Outputs == Seq(OutputKinds \X (UpdateIDs \cup Seqs \cup {None}))

ActivationTypes ==
  /\ phase \in Phases
  /\ jobs \in [signals : Int, updates : Seq(UpdateIDs), query : BOOLEAN]
  /\ drive \in [for : {"bootstrap", "retry", "final"}, high : BOOLEAN, next : Nat \ {0},
                upto : Nat, progressed : BOOLEAN]
  /\ bootstrapped \in BOOLEAN /\ terminal \in BOOLEAN
  /\ sentUpdates \in 0 .. MaxUpdates
  /\ answer \in [UpdateIDs -> Answers]

CoroutineTypes ==
  /\ count \in Coroutines
  /\ role \in [Coroutines -> {NoRole, Root, Spawned} \cup HandlerRoles]
  /\ highPriority \in [Coroutines -> BOOLEAN]
  /\ waiting \in [Coroutines -> Futures \cup {None}]
  /\ done \subseteq ran /\ ran \subseteq 1 .. count
  /\ current \in ran \cup {None}
  /\ drive.upto <= count

CounterTypes == nextSequence \in 0 .. MaxSeq /\ waits \in 0 .. MaxWaits

Types == ActivationTypes /\ CoroutineTypes /\ CounterTypes /\ commands \in Outputs

SpawnedOnes == {c \in Coroutines : role[c] = Spawned}

\* Every coroutine but the root comes from a call of Go or from an update that
\* has been started, so that there is a place for the next one.
CoroutinesMatch ==
  /\ Cardinality(SpawnedOnes) <= MaxGo
  /\ count <= 1 + Cardinality(SpawnedOnes) + (sentUpdates - Len(jobs.updates))
  /\ \A c \in Coroutines : c > count => role[c] = NoRole
  /\ \A c \in Coroutines : c \notin ran => waiting[c] = None
  /\ \A c \in Coroutines : role[c] \in HandlerRoles => highPriority[c]

\* A coroutine runs only inside drive, as the last one its loop has visited.
CurrentMatches ==
  current # None =>
    /\ phase = "driving" /\ ~terminal
    /\ current \notin done /\ waiting[current] = None
    /\ highPriority[current] = drive.high
    /\ drive.progressed

Handlers == {c \in 1 .. count : role[c] \in HandlerRoles}

\* The loop over the updates' coroutines has left behind only those that have
\* run, and it comes first.
HandlersFirst ==
  phase = "driving" =>
    /\ \A c \in Handlers : c <= drive.upto
    /\ drive.high => \A c \in Handlers : c < drive.next => c \in ran
    /\ ~drive.high => Handlers \subseteq ran

\* What a pass that has resumed nothing has left behind cannot run.
PassMatches ==
  /\ phase = "driving" /\ ~drive.progressed =>
       /\ drive.upto = count
       /\ \A c \in 1 .. count :
            IF drive.high THEN highPriority[c] /\ c < drive.next => ~CanRun(c)
                          ELSE highPriority[c] \/ c < drive.next => ~CanRun(c)
  /\ phase \in {"answering", "idle"} /\ bootstrapped /\ ~terminal =>
       \A c \in 1 .. count : ~CanRun(c)

Ends(i) == commands[i][1] \in {"complete", "fail"}

\* After the end of the workflow nothing but answers is emitted, and answers to
\* queries only as an activation returns.
CommandsMatch ==
  /\ \A i \in DOMAIN commands : Ends(i) => terminal
  /\ \A i \in DOMAIN commands : commands[i][1] = "query" =>
       phase \in {"idle", "stopped"} /\ i = Len(commands)
  /\ TerminalIsLast

IInv ==
  /\ Types /\ CoroutinesMatch /\ CurrentMatches
  /\ HandlersFirst /\ PassMatches /\ CommandsMatch /\ AcceptedIsPending
-----------------------------------------------------------------------------
(***************************************************************************)
(* The initial state.                                                      *)
(***************************************************************************)
LEMMA Bounds ==
  /\ MaxSeq \in Nat /\ MaxGo \in Nat /\ MaxWaits \in Nat /\ MaxUpdates \in Nat
  /\ None \notin Futures /\ None \notin Coroutines
BY ExecutionAssumption

LEMMA SpawnedFinite ==
  IsFiniteSet(SpawnedOnes) /\ Cardinality(SpawnedOnes) \in Nat
<1>1. 1 + MaxUpdates + MaxGo \in Int /\ 1 \in Int
  BY Bounds
<1>2. IsFiniteSet(Coroutines)
  BY <1>1, FS_Interval DEF Coroutines
<1>3. SpawnedOnes \subseteq Coroutines
  BY DEF SpawnedOnes
<1> QED
  BY <1>2, <1>3, FS_Subset, FS_CardinalityType

LEMMA NoneSpawned == Init => SpawnedOnes = {}
BY DEF Init, SpawnedOnes, Root, NoRole, Spawned

LEMMA InitInvariant == Init => IInv
<1> SUFFICES ASSUME Init PROVE IInv
  OBVIOUS
<1>1. ActivationTypes
  <2>1. jobs \in [signals : Int, updates : Seq(UpdateIDs), query : BOOLEAN]
    BY DEF Init, NoJobs
  <2>2. drive \in [for : {"bootstrap", "retry", "final"}, high : BOOLEAN, next : Nat \ {0},
                   upto : Nat, progressed : BOOLEAN]
    BY DEF Init, NoDrive
  <2>3. phase \in Phases /\ answer \in [UpdateIDs -> Answers]
    BY DEF Init, Phases, Answers
  <2>4. bootstrapped \in BOOLEAN /\ terminal \in BOOLEAN
    BY Zenon DEF Init
  <2>5. sentUpdates \in 0 .. MaxUpdates
    BY Bounds DEF Init
  <2> QED
    BY <2>1, <2>2, <2>3, <2>4, <2>5 DEF ActivationTypes
<1>2. CoroutineTypes
  BY Bounds DEF Init, CoroutineTypes, Coroutines, NoDrive
<1>3. CounterTypes /\ commands \in Outputs
  BY Bounds DEF Init, CounterTypes, Outputs
<1>4. CoroutinesMatch
  <2>1. Cardinality(SpawnedOnes) = 0 /\ Len(jobs.updates) = 0
    BY NoneSpawned, FS_EmptySet DEF Init, NoJobs
  <2> QED
    BY <2>1, Bounds DEF Init, CoroutinesMatch, Root, NoRole, HandlerRoles, Coroutines
<1>5. CurrentMatches /\ HandlersFirst /\ PassMatches /\ CommandsMatch /\ AcceptedIsPending
  BY DEF Init, CurrentMatches, HandlersFirst, PassMatches, CommandsMatch, TerminalIsLast,
         AcceptedIsPending
<1> QED
  BY <1>1, <1>2, <1>3, <1>4, <1>5 DEF IInv, Types
-----------------------------------------------------------------------------
(***************************************************************************)
(* What the steps have in common.                                          *)
(***************************************************************************)
\* There is a place for the coroutine of a call of Go or of a started update.
LEMMA Room ==
  ASSUME Types, CoroutinesMatch,
         jobs.updates # <<>> \/ Cardinality(SpawnedOnes) < MaxGo
  PROVE  /\ count + 1 \in Coroutines /\ count + 1 \notin ran
         /\ role[count + 1] = NoRole /\ waiting[count + 1] = None
<1>1. /\ Cardinality(SpawnedOnes) \in Nat
      /\ Cardinality(SpawnedOnes) <= MaxGo
  BY SpawnedFinite DEF CoroutinesMatch
<1>2. Len(jobs.updates) \in Nat /\ (jobs.updates # <<>> => Len(jobs.updates) >= 1)
  BY DEF Types, ActivationTypes
<1>3. count <= MaxUpdates + MaxGo
  <2>1. count \in Nat /\ sentUpdates \in Nat /\ sentUpdates <= MaxUpdates
    BY Bounds DEF Types, ActivationTypes, CoroutineTypes, Coroutines
  <2>2. count <= 1 + Cardinality(SpawnedOnes) + (sentUpdates - Len(jobs.updates))
    BY DEF CoroutinesMatch
  <2> QED
    BY <1>1, <1>2, <2>1, <2>2, Bounds
<1>4. count + 1 \in Coroutines
  BY <1>3, Bounds DEF Types, CoroutineTypes, Coroutines
<1>5. count + 1 \notin ran
  BY DEF Types, CoroutineTypes, Coroutines
<1> QED
  BY <1>4, <1>5 DEF CoroutinesMatch, Types, CoroutineTypes, Coroutines

LEMMA AddCoroutineEffect ==
  ASSUME Types, CoroutinesMatch, NEW as \in {Spawned} \cup HandlerRoles,
         NEW high \in BOOLEAN, AddCoroutine(as, high),
         count + 1 \in Coroutines, role[count + 1] = NoRole
  PROVE  /\ count' = count + 1
         /\ role' \in [Coroutines -> {NoRole, Root, Spawned} \cup HandlerRoles]
         /\ highPriority' \in [Coroutines -> BOOLEAN]
         /\ role'[count + 1] = as /\ highPriority'[count + 1] = high
         /\ \A c \in Coroutines : c # count + 1 =>
              role'[c] = role[c] /\ highPriority'[c] = highPriority[c]
         /\ as # Spawned => SpawnedOnes' = SpawnedOnes
         /\ as = Spawned => Cardinality(SpawnedOnes') = Cardinality(SpawnedOnes) + 1
<1>1. /\ count' = count + 1
      /\ role' \in [Coroutines -> {NoRole, Root, Spawned} \cup HandlerRoles]
      /\ highPriority' \in [Coroutines -> BOOLEAN]
      /\ role'[count + 1] = as /\ highPriority'[count + 1] = high
      /\ \A c \in Coroutines : c # count + 1 =>
           role'[c] = role[c] /\ highPriority'[c] = highPriority[c]
  BY DEF AddCoroutine, Types, CoroutineTypes
<1>2. count + 1 \notin SpawnedOnes
  BY DEF SpawnedOnes, NoRole, Spawned
<1>3. as # Spawned => SpawnedOnes' = SpawnedOnes
  BY <1>1, <1>2 DEF SpawnedOnes
<1>4. ASSUME as = Spawned PROVE Cardinality(SpawnedOnes') = Cardinality(SpawnedOnes) + 1
  <2>1. SpawnedOnes' = SpawnedOnes \cup {count + 1}
    BY <1>1, <1>4 DEF SpawnedOnes
  <2> QED
    BY <1>2, <2>1, SpawnedFinite, FS_AddElement
<1> QED
  BY <1>1, <1>3, <1>4

LEMMA EmitEffect ==
  ASSUME Types, NEW kind \in OutputKinds, NEW subject \in UpdateIDs \cup Seqs \cup {None},
         Emit(kind, subject)
  PROVE  /\ commands' \in Outputs
         /\ DOMAIN commands' = 1 .. (Len(commands) + 1) /\ Len(commands') = Len(commands) + 1
         /\ DOMAIN commands = 1 .. Len(commands) /\ Len(commands) \in Nat
         /\ \A i \in DOMAIN commands : commands'[i] = commands[i]
         /\ commands'[Len(commands) + 1] = <<kind, subject>>
<1> DEFINE Output == OutputKinds \X (UpdateIDs \cup Seqs \cup {None})
<1>1. commands \in Seq(Output) /\ <<kind, subject>> \in Output
  BY DEF Types, Outputs
<1>2. commands' = Append(commands, <<kind, subject>>)
  BY DEF Emit
<1> HIDE DEF Output
<1>3. commands' \in Seq(Output)
  BY <1>1, <1>2
<1> QED
  BY <1>1, <1>2, <1>3 DEF Outputs, Output

\* The coroutine that drive resumes is the first that can run in its loop.
LEMMA LeastVisited ==
  ASSUME NEW S \in SUBSET Nat, S # {}
  PROVE  Min(S) \in S /\ \A y \in S : Min(S) <= y
<1>1. PICK x \in S : \A y \in S : x <= y
  <2>1. PICK n \in S : TRUE
    OBVIOUS
  <2> DEFINE R == OpToRel(<, Nat)
  <2>2. \E x \in S : \A y \in S : ~(<<y, x>> \in R)
    BY <2>1, NatLessThanWellFounded, WFMin, Zenon
  <2>3. PICK x \in S : \A y \in S : ~(<<y, x>> \in R)
    BY <2>2
  <2>4. \A y \in S : ~(y < x)
    BY <2>3 DEF OpToRel
  <2> QED
    BY <2>4
<1> QED
  BY <1>1 DEF Min

\* The update that is started next, and its coroutine if it is accepted.
LEMMA StartUpdateEffect ==
  ASSUME Types, CoroutinesMatch, StartUpdate
  PROVE  \E u \in UpdateIDs :
           /\ Len(jobs'.updates) = Len(jobs.updates) - 1
           /\ \/ /\ answer' = [answer EXCEPT ![u] = "rejected"] /\ Emit("rejected", u)
                 /\ UNCHANGED <<count, role, highPriority>>
              \/ /\ answer' = [answer EXCEPT ![u] = "accepted"] /\ Emit("accepted", u)
                 /\ AddCoroutine(<<"update", u>>, TRUE)
           /\ count + 1 \in Coroutines /\ count + 1 \notin ran
           /\ role[count + 1] = NoRole /\ waiting[count + 1] = None
<1>1. jobs.updates # <<>> /\ jobs.updates \in Seq(UpdateIDs)
  BY DEF StartUpdate, Types, ActivationTypes
<1>2. jobs'.updates = Tail(jobs.updates)
  BY DEF StartUpdate, Types, ActivationTypes
<1>3. Head(jobs.updates) \in UpdateIDs /\ Len(jobs'.updates) = Len(jobs.updates) - 1
  BY <1>1, <1>2
<1> QED
  BY <1>1, <1>3, Room DEF StartUpdate

\* drive resumes the first coroutine of its loop that can run.
LEMMA ResumeEffect ==
  ASSUME Types, Resume
  PROVE  /\ current' \in Candidates /\ current' \in 1 .. count
         /\ current' \in drive.next .. drive.upto /\ CanRun(current')
         /\ highPriority[current'] = drive.high
         /\ \A c \in Candidates : current' <= c
         /\ drive' = [drive EXCEPT !.next = current' + 1, !.progressed = TRUE]
         /\ waiting' = [waiting EXCEPT ![current'] = None]
         /\ ran' = ran \cup {current'}
         /\ phase' = "driving" /\ phase = "driving" /\ ~terminal /\ ~terminal'
         /\ UNCHANGED <<count, role, highPriority, done, ready>>
<1>1. Candidates # {} /\ Candidates \in SUBSET Nat
  BY DEF Resume, Candidates, Types, ActivationTypes
<1>2. current' = Min(Candidates)
  BY DEF Resume
<1>3. current' \in Candidates /\ \A c \in Candidates : current' <= c
  BY <1>1, <1>2, LeastVisited
<1>4. /\ current' \in drive.next .. drive.upto /\ CanRun(current')
      /\ highPriority[current'] = drive.high
  BY <1>3 DEF Candidates
<1>5. current' \in 1 .. count
  BY <1>4, Bounds DEF Types, ActivationTypes, CoroutineTypes, Coroutines
<1> QED
  BY <1>3, <1>4, <1>5 DEF Resume, Driving, DriveStops, outputVars, futureVars

\* A command that does not answer a query keeps the order of the commands.
LEMMA EmitKeepsOrder ==
  ASSUME Types, CommandsMatch, phase \notin {"idle", "stopped"},
         NEW kind \in OutputKinds \ {"query"}, NEW subject \in UpdateIDs \cup Seqs \cup {None},
         Emit(kind, subject),
         kind \in OfWorkflow => ~terminal,
         terminal' = IF kind \in {"complete", "fail"} THEN TRUE ELSE terminal
  PROVE  CommandsMatch'
<1>1. /\ DOMAIN commands' = 1 .. (Len(commands) + 1) /\ Len(commands) \in Nat
      /\ DOMAIN commands = 1 .. Len(commands)
      /\ \A i \in DOMAIN commands : commands'[i] = commands[i]
      /\ commands'[Len(commands) + 1][1] = kind
  BY EmitEffect
<1>2. \A i \in DOMAIN commands :
        commands[i][1] # "query" /\ (commands[i][1] \in {"complete", "fail"} => terminal)
  BY DEF CommandsMatch, Ends
<1>3. \A i \in DOMAIN commands' : commands'[i][1] \in {"complete", "fail"} => terminal'
  BY <1>1, <1>2
<1>4. \A i \in DOMAIN commands' : commands'[i][1] # "query"
  BY <1>1, <1>2
<1>5. \A i, j \in DOMAIN commands' :
        i < j /\ commands'[i][1] \in {"complete", "fail"} => commands'[j][1] \notin OfWorkflow
  <2> SUFFICES ASSUME NEW i \in DOMAIN commands', NEW j \in DOMAIN commands', i < j,
                      commands'[i][1] \in {"complete", "fail"}
               PROVE  commands'[j][1] \notin OfWorkflow
    OBVIOUS
  <2>1. i \in DOMAIN commands /\ commands[i][1] \in {"complete", "fail"}
    BY <1>1
  <2>2. CASE j \in DOMAIN commands
    BY <1>1, <2>1, <2>2 DEF CommandsMatch, TerminalIsLast
  <2>3. CASE j = Len(commands) + 1
    BY <1>1, <1>2, <2>1, <2>3
  <2> QED
    BY <1>1, <2>2, <2>3
<1>6. ASSUME terminal', \A i \in DOMAIN commands' : commands'[i][1] \notin {"complete", "fail"}
      PROVE  \A i \in DOMAIN commands' : commands'[i][1] \notin OfWorkflow
  <2>1. kind \notin {"complete", "fail"}
    BY <1>1, <1>6
  <2>2. terminal /\ kind \notin OfWorkflow
    BY <1>6, <2>1, Zenon
  <2>3. \A i \in DOMAIN commands : commands[i][1] \notin OfWorkflow
    BY <1>1, <1>6, <2>2 DEF CommandsMatch, TerminalIsLast
  <2> QED
    BY <1>1, <2>2, <2>3
<1> QED
  BY <1>3, <1>4, <1>5, <1>6 DEF CommandsMatch, TerminalIsLast, Ends
-----------------------------------------------------------------------------
(***************************************************************************)
(* Types.                                                                  *)
(***************************************************************************)
LEMMA ActivationTypesKept ==
  ASSUME Types, Next
  PROVE  ActivationTypes'
<1> USE DEF activationVars, outputVars, coroutineVars, futureVars, operationVars, signalVars,
            updateVars
<1> DEFINE Rest == UNCHANGED <<bootstrapped, terminal, sentUpdates, answer>>
<1>0. /\ jobs \in [signals : Int, updates : Seq(UpdateIDs), query : BOOLEAN]
      /\ drive \in [for : {"bootstrap", "retry", "final"}, high : BOOLEAN, next : Nat \ {0},
                    upto : Nat, progressed : BOOLEAN]
      /\ count \in Nat
  BY Bounds DEF Types, ActivationTypes, CoroutineTypes, Coroutines
<1>1. ASSUME phase' \in Phases, UNCHANGED <<jobs, drive, terminal, sentUpdates, answer>>,
             bootstrapped' \in {bootstrapped, TRUE}
      PROVE  ActivationTypes'
  BY <1>1 DEF Types, ActivationTypes
<1>2. CASE Deliver
  <2>1. PICK signals \in 0 .. (MaxSignals - arrived), updates \in 0 .. (MaxUpdates - sentUpdates),
             query \in Queries :
          /\ jobs' = [signals |-> signals, query |-> query,
                      updates |-> [i \in 1 .. updates |-> sentUpdates + i]]
          /\ sentUpdates' = sentUpdates + updates
    BY <1>2 DEF Deliver
  <2>2. sentUpdates \in Nat /\ updates \in Nat /\ sentUpdates + updates <= MaxUpdates
    BY Bounds DEF Types, ActivationTypes
  <2>3. [i \in 1 .. updates |-> sentUpdates + i] \in Seq(UpdateIDs)
    BY <2>2, Bounds DEF UpdateIDs
  <2>4. jobs' \in [signals : Int, updates : Seq(UpdateIDs), query : BOOLEAN]
    BY <2>1, <2>3, ExecutionAssumption
  <2>5. sentUpdates' \in 0 .. MaxUpdates
    BY <2>1, <2>2, Bounds
  <2> QED
    BY <1>2, <2>4, <2>5 DEF Deliver, Types, ActivationTypes, Phases
<1>3. ASSUME NEW why \in {"bootstrap", "retry", "final"}, DriveFor(why), jobs' = jobs, Rest
      PROVE  ActivationTypes'
  <2>1. drive' \in [for : {"bootstrap", "retry", "final"}, high : BOOLEAN, next : Nat \ {0},
                    upto : Nat, progressed : BOOLEAN]
    BY <1>0, <1>3 DEF DriveFor, FirstPriority
  <2> QED
    BY <1>3, <2>1 DEF DriveFor, Types, ActivationTypes, Phases
<1>4. CASE DeliverSignal
  <2>1. jobs' \in [signals : Int, updates : Seq(UpdateIDs), query : BOOLEAN]
    BY <1>0, <1>4 DEF DeliverSignal
  <2> QED
    BY <1>4, <2>1 DEF DeliverSignal, Types, ActivationTypes
<1>5. CASE SignalsDelivered
  BY <1>1, <1>3, <1>5 DEF SignalsDelivered, Phases
<1>6. CASE StartUpdate
  <2>1. jobs' \in [signals : Int, updates : Seq(UpdateIDs), query : BOOLEAN]
    <3>1. Tail(jobs.updates) \in Seq(UpdateIDs)
      BY <1>0, <1>6 DEF StartUpdate
    <3>2. jobs' = [jobs EXCEPT !.updates = Tail(jobs.updates)]
      BY <1>6 DEF StartUpdate
    <3> QED
      BY <1>0, <3>1, <3>2
  <2>2. answer' \in [UpdateIDs -> Answers]
    BY <1>6 DEF StartUpdate, Types, ActivationTypes, Answers
  <2> QED
    BY <1>6, <2>1, <2>2 DEF StartUpdate, Types, ActivationTypes
<1>7. CASE UpdatesStarted
  BY <1>1, <1>7 DEF UpdatesStarted, Phases
<1>8. CASE KeepJob
  BY <1>1, <1>8 DEF KeepJob, Types, ActivationTypes
<1>9. CASE ApplyJob
  BY <1>1, <1>9 DEF ApplyJob, Fail, Types, ActivationTypes, Phases
<1>10. CASE RoundOver
  BY <1>3, <1>10 DEF RoundOver
<1>11. CASE Resume
  <2>1. Candidates # {} /\ Candidates \subseteq Nat
    BY <1>0, <1>11 DEF Resume, Candidates
  <2>2. current' \in Nat
    <3>1. PICK c \in Candidates : TRUE
      BY <2>1
    <3> QED
      BY <1>11, <2>1, LeastVisited DEF Resume
  <2>3. drive' \in [for : {"bootstrap", "retry", "final"}, high : BOOLEAN, next : Nat \ {0},
                    upto : Nat, progressed : BOOLEAN]
    <3>1. /\ current' + 1 \in Nat \ {0}
          /\ drive' = [drive EXCEPT !.next = current' + 1, !.progressed = TRUE]
      BY <1>11, <2>2 DEF Resume
    <3> QED
      BY <1>0, <3>1
  <2> QED
    BY <1>11, <2>3 DEF Resume, Types, ActivationTypes
<1>12. CASE NextLoop
  <2>1. drive' \in [for : {"bootstrap", "retry", "final"}, high : BOOLEAN, next : Nat \ {0},
                    upto : Nat, progressed : BOOLEAN]
    <3>1. \/ drive' = [drive EXCEPT !.high = FALSE, !.next = 1, !.upto = count]
          \/ drive' = [drive EXCEPT !.high = TRUE, !.next = 1, !.upto = count,
                                    !.progressed = FALSE]
      BY <1>12 DEF NextLoop, FirstPriority
    <3>2. CASE drive' = [drive EXCEPT !.high = FALSE, !.next = 1, !.upto = count]
      BY <1>0, <3>2, 1 \in Nat \ {0}
    <3>3. CASE drive' = [drive EXCEPT !.high = TRUE, !.next = 1, !.upto = count,
                                      !.progressed = FALSE]
      BY <1>0, <3>3, 1 \in Nat \ {0}
    <3> QED
      BY <3>1, <3>2, <3>3
  <2> QED
    BY <1>12, <2>1 DEF NextLoop, Types, ActivationTypes
<1>13. CASE DriveReturns
  BY <1>1, <1>13 DEF DriveReturns, Fail, Phases
<1>14. CASE AnswerQueries
  <2>1. /\ jobs' \in [signals : Int, updates : Seq(UpdateIDs), query : BOOLEAN]
        /\ drive' \in [for : {"bootstrap", "retry", "final"}, high : BOOLEAN, next : Nat \ {0},
                       upto : Nat, progressed : BOOLEAN]
    BY <1>14 DEF AnswerQueries, NoJobs, NoDrive
  <2> QED
    BY <1>14, <2>1 DEF AnswerQueries, Types, ActivationTypes, Phases
<1>15. CASE Evict
  BY <1>1, <1>15 DEF Evict, Fail, Phases
<1>16. CASE CoroutineReturns
  <2>1. answer' \in [UpdateIDs -> Answers]
    BY <1>16 DEF CoroutineReturns, HandlerAnswer, Types, ActivationTypes, Answers
  <2>2. terminal' \in BOOLEAN
    BY <1>16 DEF CoroutineReturns, Types, ActivationTypes
  <2> QED
    BY <1>16, <2>1, <2>2 DEF CoroutineReturns, Types, ActivationTypes
<1>17. CASE CoroutineFails
  <2>1. phase' \in Phases /\ terminal' \in BOOLEAN
    BY <1>17 DEF CoroutineFails, Types, ActivationTypes, Phases
  <2> QED
    BY <1>17, <2>1 DEF CoroutineFails, Types, ActivationTypes
<1>18. ASSUME UNCHANGED activationVars, UNCHANGED <<terminal, sentUpdates, answer>>
       PROVE  ActivationTypes'
  BY <1>18 DEF Types, ActivationTypes
<1>19. CASE StartOperation \/ Go \/ NewFuture \/ TakeSignal \/ WaitForSignal \/ SetUpdateHandler
  BY <1>18, <1>19
  DEF StartOperation, Go, NewFuture, TakeSignal, WaitForSignal, SetUpdateHandler
<1>20. ASSUME NEW m \in 1 .. MaxManual, NEW f \in Futures,
              SetFuture(m) \/ ChainFuture(m, f) \/ Get(f)
       PROVE  ActivationTypes'
  BY <1>18, <1>20 DEF SetFuture, ChainFuture, Get
<1>21. ASSUME NEW m \in 1 .. MaxManual, SetFuture(m) PROVE ActivationTypes'
  BY <1>18, <1>21 DEF SetFuture
<1>22. ASSUME NEW f \in Futures, Get(f) PROVE ActivationTypes'
  BY <1>18, <1>22 DEF Get
<1> QED
  BY <1>2, <1>4, <1>5, <1>6, <1>7, <1>8, <1>9, <1>10, <1>11, <1>12, <1>13, <1>14, <1>15,
     <1>16, <1>17, <1>19, <1>20, <1>21, <1>22
  DEF Next, Activate, WorkflowCode

LEMMA CoroutineTypesKept ==
  ASSUME Types, CoroutinesMatch, Next
  PROVE  CoroutineTypes'
<1> USE DEF activationVars, outputVars, coroutineVars, futureVars, operationVars, signalVars,
            updateVars
<1>0. /\ count \in Nat /\ count \in Coroutines /\ drive.upto \in Nat
      /\ role \in [Coroutines -> {NoRole, Root, Spawned} \cup HandlerRoles]
      /\ highPriority \in [Coroutines -> BOOLEAN]
      /\ waiting \in [Coroutines -> Futures \cup {None}]
      /\ done \subseteq ran /\ ran \subseteq 1 .. count /\ current \in ran \cup {None}
      /\ drive.upto <= count
      /\ 1 .. count \subseteq Coroutines
  BY Bounds DEF Types, ActivationTypes, CoroutineTypes, Coroutines
<1>1. ASSUME UNCHANGED <<count, role, highPriority, waiting, done, ran>>,
             current' \in {current, None}, drive'.upto \in {drive.upto, 0, count}
      PROVE  CoroutineTypes'
  BY <1>0, <1>1 DEF CoroutineTypes
<1>2. CASE Deliver \/ DeliverSignal \/ UpdatesStarted \/ KeepJob
  BY <1>1, <1>2 DEF Deliver, DeliverSignal, UpdatesStarted, KeepJob
<1>3. CASE SignalsDelivered \/ RoundOver
  BY <1>1, <1>3 DEF SignalsDelivered, RoundOver, DriveFor
<1>4. ASSUME NEW as \in {Spawned} \cup HandlerRoles, NEW high \in BOOLEAN,
             AddCoroutine(as, high), count + 1 \in Coroutines, role[count + 1] = NoRole,
             UNCHANGED <<drive, waiting, done, ran, current>>
      PROVE  CoroutineTypes'
  <2>1. /\ count' = count + 1
        /\ role' \in [Coroutines -> {NoRole, Root, Spawned} \cup HandlerRoles]
        /\ highPriority' \in [Coroutines -> BOOLEAN]
    BY <1>4, AddCoroutineEffect
  <2> QED
    BY <1>0, <1>4, <2>1 DEF CoroutineTypes
<1>5. CASE StartUpdate
  <2>1. PICK u \in UpdateIDs :
          /\ \/ UNCHANGED <<count, role, highPriority>>
             \/ AddCoroutine(<<"update", u>>, TRUE)
          /\ count + 1 \in Coroutines /\ role[count + 1] = NoRole
    BY <1>5, StartUpdateEffect
  <2>2. <<"update", u>> \in HandlerRoles
    BY DEF HandlerRoles
  <2> QED
    BY <1>1, <1>4, <1>5, <2>1, <2>2 DEF StartUpdate
<1>6. CASE ApplyJob
  BY <1>1, <1>6 DEF ApplyJob, Fail
<1>7. CASE Resume
  <2>1. current' \in 1 .. count /\ waiting' = [waiting EXCEPT ![current'] = None]
        /\ ran' = ran \cup {current'} /\ UNCHANGED <<count, role, highPriority, done>>
        /\ drive' = [drive EXCEPT !.next = current' + 1, !.progressed = TRUE]
    BY <1>7, ResumeEffect
  <2>2. drive'.upto = drive.upto
    BY <2>1 DEF Types, ActivationTypes
  <2> QED
    BY <1>0, <2>1, <2>2 DEF CoroutineTypes
<1>8. CASE NextLoop
  <2>1. drive'.upto = count
    BY <1>8 DEF NextLoop, Types, ActivationTypes
  <2> QED
    BY <1>1, <1>8, <2>1 DEF NextLoop
<1>9. CASE DriveReturns
  BY <1>1, <1>9 DEF DriveReturns, Driving, Fail
<1>10. CASE AnswerQueries
  BY <1>1, <1>10 DEF AnswerQueries, NoDrive
<1>11. CASE Evict
  BY <1>1, <1>11 DEF Evict, Fail
<1>12. CASE StartOperation \/ NewFuture \/ TakeSignal \/ SetUpdateHandler
  BY <1>1, <1>12 DEF StartOperation, NewFuture, TakeSignal, SetUpdateHandler
<1>13. CASE Go
  <2>1. /\ count + 1 \in Coroutines /\ role[count + 1] = NoRole
        /\ highPriority[current] \in BOOLEAN
    BY <1>0, <1>13, Room DEF Go, SpawnedOnes
  <2> QED
    BY <1>4, <1>13, <2>1 DEF Go
<1>14. ASSUME current # None, NEW f \in Futures, Block(f), drive' = drive
       PROVE  CoroutineTypes'
  BY <1>0, <1>14 DEF Block, CoroutineTypes
<1>15. CASE WaitForSignal
  <2>1. <<"signal", waits'>> \in Futures
    BY <1>15, Bounds DEF WaitForSignal, Futures, Types, CounterTypes
  <2> QED
    BY <1>14, <1>15, <2>1 DEF WaitForSignal
<1>16. CASE CoroutineReturns \/ CoroutineFails
  BY <1>0, <1>16 DEF CoroutineReturns, CoroutineFails, EndCoroutine, CoroutineTypes
<1>17. ASSUME NEW m \in 1 .. MaxManual, SetFuture(m) PROVE CoroutineTypes'
  BY <1>1, <1>17 DEF SetFuture
<1>18. ASSUME NEW m \in 1 .. MaxManual, NEW f \in Futures, ChainFuture(m, f)
       PROVE  CoroutineTypes'
  BY <1>1, <1>18 DEF ChainFuture
<1>19. ASSUME NEW f \in Futures, Get(f) PROVE CoroutineTypes'
  BY <1>14, <1>19 DEF Get
<1> QED
  BY <1>2, <1>3, <1>5, <1>6, <1>7, <1>8, <1>9, <1>10, <1>11, <1>12, <1>13, <1>15, <1>16,
     <1>17, <1>18, <1>19
  DEF Next, Activate, WorkflowCode

LEMMA OutputTypesKept ==
  ASSUME Types, CoroutinesMatch, Next
  PROVE  CounterTypes' /\ commands' \in Outputs
<1> USE DEF activationVars, outputVars, coroutineVars, futureVars, operationVars, signalVars,
            updateVars
<1>1. CounterTypes /\ commands \in Outputs
  BY DEF Types
<1>2. CASE Deliver
  BY <1>1, <1>2 DEF Deliver, CounterTypes, Outputs
<1>3. CASE DeliverSignal \/ SignalsDelivered \/ UpdatesStarted \/ KeepJob \/ ApplyJob \/ RoundOver
           \/ Resume \/ NextLoop \/ DriveReturns \/ Evict
  BY <1>1, <1>3
  DEF DeliverSignal, SignalsDelivered, UpdatesStarted, KeepJob, ApplyJob, RoundOver, Resume,
      NextLoop, DriveReturns, Evict, CounterTypes
<1>4. ASSUME NEW kind \in OutputKinds, NEW subject \in UpdateIDs \cup Seqs \cup {None},
             Emit(kind, subject)
      PROVE  commands' \in Outputs
  BY <1>4, EmitEffect
<1>5. CASE StartUpdate
  <2>1. PICK u \in UpdateIDs : Emit("rejected", u) \/ Emit("accepted", u)
    BY <1>5, StartUpdateEffect
  <2> QED
    BY <1>1, <1>4, <1>5, <2>1 DEF StartUpdate, OutputKinds, CounterTypes
<1>6. CASE AnswerQueries
  BY <1>1, <1>4, <1>6 DEF AnswerQueries, OutputKinds, CounterTypes
<1>7. CASE StartOperation
  <2>1. NextSeq \in Seqs /\ nextSequence' \in 0 .. MaxSeq
    BY <1>1, <1>7, Bounds DEF StartOperation, NextSeq, Seqs, CounterTypes
  <2> QED
    BY <1>1, <1>4, <1>7, <2>1 DEF StartOperation, OutputKinds, CounterTypes
<1>8. CASE Go \/ NewFuture \/ TakeSignal \/ SetUpdateHandler
  BY <1>1, <1>8 DEF Go, NewFuture, TakeSignal, SetUpdateHandler, CounterTypes
<1>9. CASE WaitForSignal
  BY <1>1, <1>9, Bounds DEF WaitForSignal, CounterTypes
<1>10. CASE CoroutineReturns
  <2>1. commands' \in Outputs
    <3>1. CASE role[current] = Root
      BY <1>4, <1>10, <3>1 DEF CoroutineReturns, OutputKinds, Root, HandlerRoles, Spawned
    <3>2. CASE role[current] \in HandlerRoles
      <4>1. role[current][2] \in UpdateIDs
        BY <3>2 DEF HandlerRoles
      <4>2. PICK verdict \in {"completed", "rejected"} : Emit(verdict, role[current][2])
        BY <1>10, <3>2 DEF CoroutineReturns, Root, Spawned, HandlerRoles
      <4> QED
        BY <1>4, <4>1, <4>2 DEF OutputKinds
    <3>3. CASE role[current] = Spawned
      BY <1>1, <1>10, <3>3 DEF CoroutineReturns, Root, HandlerRoles, Spawned
    <3> QED
      BY <1>10, <3>1, <3>2, <3>3 DEF CoroutineReturns
  <2> QED
    BY <1>1, <1>10, <2>1 DEF CoroutineReturns, CounterTypes
<1>11. CASE CoroutineFails
  BY <1>1, <1>4, <1>11 DEF CoroutineFails, OutputKinds, CounterTypes
<1>12. ASSUME NEW m \in 1 .. MaxManual, SetFuture(m) PROVE CounterTypes' /\ commands' \in Outputs
  BY <1>1, <1>12 DEF SetFuture, CounterTypes
<1>13. ASSUME NEW m \in 1 .. MaxManual, NEW f \in Futures, ChainFuture(m, f)
       PROVE  CounterTypes' /\ commands' \in Outputs
  BY <1>1, <1>13 DEF ChainFuture, CounterTypes
<1>14. ASSUME NEW f \in Futures, Get(f) PROVE CounterTypes' /\ commands' \in Outputs
  BY <1>1, <1>14 DEF Get, CounterTypes
<1> QED
  BY <1>2, <1>3, <1>5, <1>6, <1>7, <1>8, <1>9, <1>10, <1>11, <1>12, <1>13, <1>14
  DEF Next, Activate, WorkflowCode

LEMMA TypesKept == ASSUME Types, CoroutinesMatch, Next PROVE Types'
BY ActivationTypesKept, CoroutineTypesKept, OutputTypesKept DEF Types
-----------------------------------------------------------------------------
(***************************************************************************)
(* Coroutines.                                                             *)
(***************************************************************************)
\* A step that starts no update and no coroutine.
LEMMA SameCoroutines ==
  ASSUME CoroutinesMatch, Types, Types', UNCHANGED <<count, role, highPriority>>,
         ran \subseteq ran', sentUpdates' - Len(jobs'.updates) >= sentUpdates - Len(jobs.updates),
         \A c \in Coroutines : c \notin ran' => waiting'[c] = waiting[c]
  PROVE  CoroutinesMatch'
<1>1. SpawnedOnes' = SpawnedOnes
  BY DEF SpawnedOnes
<1>2. /\ Len(jobs.updates) \in Nat /\ Len(jobs'.updates) \in Nat
      /\ sentUpdates \in Int /\ sentUpdates' \in Int /\ count \in Int
  BY Bounds DEF Types, ActivationTypes, CoroutineTypes, Coroutines
<1>3. (count <= 1 + Cardinality(SpawnedOnes) + (sentUpdates - Len(jobs.updates)))'
  <2>1. count <= 1 + Cardinality(SpawnedOnes) + (sentUpdates - Len(jobs.updates))
    BY DEF CoroutinesMatch
  <2>2. \A n, k, d, e \in Int : n <= 1 + k + d /\ e >= d => n <= 1 + k + e
    OBVIOUS
  <2>3. /\ Cardinality(SpawnedOnes) \in Int
        /\ sentUpdates - Len(jobs.updates) \in Int /\ sentUpdates' - Len(jobs'.updates) \in Int
    BY <1>2, SpawnedFinite
  <2>4. count <= 1 + Cardinality(SpawnedOnes) + (sentUpdates' - Len(jobs'.updates))
    BY <1>2, <2>1, <2>2, <2>3
  <2> QED
    BY <1>1, <2>4
<1> QED
  BY <1>1, <1>3 DEF CoroutinesMatch

LEMMA CoroutinesKept ==
  ASSUME Types, CoroutinesMatch, Types', Next
  PROVE  CoroutinesMatch'
<1> USE DEF activationVars, outputVars, coroutineVars, futureVars, operationVars, signalVars,
            updateVars
<1>0. /\ Len(jobs.updates) \in Nat /\ sentUpdates \in Nat /\ count \in Nat /\ MaxGo \in Nat
      /\ current # None => current \in ran
      /\ 1 .. count \subseteq Coroutines /\ ran \subseteq 1 .. count
  BY Bounds DEF Types, ActivationTypes, CoroutineTypes, Coroutines
<1>1. ASSUME UNCHANGED <<jobs, count, role, highPriority, waiting, ran, sentUpdates>>
      PROVE  CoroutinesMatch'
  BY <1>0, <1>1, SameCoroutines
<1>2. CASE Deliver
  <2>1. PICK signals \in 0 .. (MaxSignals - arrived), updates \in 0 .. (MaxUpdates - sentUpdates),
             query \in Queries :
          /\ jobs' = [signals |-> signals, query |-> query,
                      updates |-> [i \in 1 .. updates |-> sentUpdates + i]]
          /\ sentUpdates' = sentUpdates + updates
    BY <1>2 DEF Deliver
  <2>2. Len(jobs'.updates) = updates
    BY <2>1, <1>0, Bounds
  <2>3. sentUpdates' - Len(jobs'.updates) >= sentUpdates - Len(jobs.updates)
    <3>1. updates \in Nat /\ sentUpdates' = sentUpdates + updates
      BY <2>1
    <3> QED
      BY <1>0, <2>2, <3>1
  <2> QED
    BY <1>2, <2>3, SameCoroutines DEF Deliver
<1>3. CASE DeliverSignal
  <2>1. jobs'.updates = jobs.updates
    BY <1>3 DEF DeliverSignal, Types, ActivationTypes
  <2> QED
    BY <1>0, <1>3, <2>1, SameCoroutines DEF DeliverSignal
<1>4. CASE SignalsDelivered \/ UpdatesStarted \/ KeepJob \/ ApplyJob \/ RoundOver \/ NextLoop
           \/ DriveReturns \/ Evict
  BY <1>1, <1>4
  DEF SignalsDelivered, UpdatesStarted, KeepJob, ApplyJob, RoundOver, NextLoop, DriveReturns,
      Evict
<1>5. CASE AnswerQueries
  <2>1. Len(jobs'.updates) = 0
    BY <1>5 DEF AnswerQueries, NoJobs
  <2> QED
    BY <1>0, <1>5, <2>1, SameCoroutines DEF AnswerQueries
<1>6. CASE StartUpdate
  <2>1. PICK u \in UpdateIDs :
           /\ Len(jobs'.updates) = Len(jobs.updates) - 1
           /\ \/ UNCHANGED <<count, role, highPriority>>
              \/ AddCoroutine(<<"update", u>>, TRUE)
           /\ count + 1 \in Coroutines /\ role[count + 1] = NoRole
    BY <1>6, StartUpdateEffect
  <2>2. UNCHANGED <<waiting, ran, sentUpdates>>
    BY <1>6 DEF StartUpdate
  <2>3. CASE UNCHANGED <<count, role, highPriority>>
    BY <1>0, <2>1, <2>2, <2>3, SameCoroutines
  <2>4. CASE AddCoroutine(<<"update", u>>, TRUE)
    <3>1. <<"update", u>> \in HandlerRoles /\ <<"update", u>> # Spawned
      BY DEF HandlerRoles, Spawned
    <3>2. /\ count' = count + 1 /\ SpawnedOnes' = SpawnedOnes
          /\ highPriority'[count + 1]
          /\ \A c \in Coroutines : c # count + 1 =>
               role'[c] = role[c] /\ highPriority'[c] = highPriority[c]
      BY <2>1, <2>4, <3>1, AddCoroutineEffect
    <3>3. (count <= 1 + Cardinality(SpawnedOnes) + (sentUpdates - Len(jobs.updates)))'
      <4>1. count <= 1 + Cardinality(SpawnedOnes) + (sentUpdates - Len(jobs.updates))
        BY DEF CoroutinesMatch
      <4>2. /\ count' = count + 1 /\ Cardinality(SpawnedOnes') = Cardinality(SpawnedOnes)
            /\ Len(jobs'.updates) = Len(jobs.updates) - 1 /\ sentUpdates' = sentUpdates
        BY <2>1, <2>2, <3>2
      <4>3. \A n, k, s, l \in Int : n <= 1 + k + (s - l) => n + 1 <= 1 + k + (s - (l - 1))
        OBVIOUS
      <4>4. /\ count \in Int /\ Cardinality(SpawnedOnes) \in Int /\ sentUpdates \in Int
            /\ Len(jobs.updates) \in Int
        BY <1>0, SpawnedFinite
      <4>5. count + 1 <= 1 + Cardinality(SpawnedOnes) + (sentUpdates - (Len(jobs.updates) - 1))
        BY <4>1, <4>3, <4>4
      <4> QED
        BY <4>2, <4>5
    <3> QED
      BY <1>0, <2>2, <3>2, <3>3 DEF CoroutinesMatch, Coroutines
  <2> QED
    BY <2>1, <2>3, <2>4
<1>7. CASE Resume
  <2>1. /\ waiting' = [waiting EXCEPT ![current'] = None] /\ ran' = ran \cup {current'}
        /\ UNCHANGED <<count, role, highPriority>> /\ current' \in 1 .. count
    BY <1>7, ResumeEffect
  <2>2. UNCHANGED <<jobs, sentUpdates>>
    BY <1>7 DEF Resume
  <2>3. \A c \in Coroutines : c \notin ran' => waiting'[c] = waiting[c]
    BY <1>0, <2>1 DEF Types, CoroutineTypes
  <2> QED
    BY <1>0, <2>1, <2>2, <2>3, SameCoroutines
<1>8. CASE Go
  <2>1. /\ count + 1 \in Coroutines /\ role[count + 1] = NoRole
        /\ highPriority[current] \in BOOLEAN /\ Cardinality(SpawnedOnes) < MaxGo
    BY <1>0, <1>8, Room DEF Go, SpawnedOnes, Types, CoroutineTypes
  <2>2. /\ count' = count + 1 /\ Cardinality(SpawnedOnes') = Cardinality(SpawnedOnes) + 1
        /\ role'[count + 1] = Spawned
        /\ \A c \in Coroutines : c # count + 1 =>
             role'[c] = role[c] /\ highPriority'[c] = highPriority[c]
    BY <1>8, <2>1, AddCoroutineEffect DEF Go
  <2>3. UNCHANGED <<jobs, waiting, ran, sentUpdates>>
    BY <1>8 DEF Go
  <2>4. (count <= 1 + Cardinality(SpawnedOnes) + (sentUpdates - Len(jobs.updates)))'
    BY <1>0, SpawnedFinite, <2>2, <2>3 DEF CoroutinesMatch
  <2>5. Cardinality(SpawnedOnes') <= MaxGo
    BY <1>0, SpawnedFinite, <2>1, <2>2
  <2>6. Spawned \notin HandlerRoles
    BY DEF Spawned, HandlerRoles
  <2> QED
    BY <1>0, <2>2, <2>3, <2>4, <2>5, <2>6 DEF CoroutinesMatch, Coroutines
<1>9. CASE StartOperation \/ NewFuture \/ TakeSignal \/ SetUpdateHandler
           \/ CoroutineReturns \/ CoroutineFails
  BY <1>1, <1>9
  DEF StartOperation, NewFuture, TakeSignal, SetUpdateHandler, CoroutineReturns, CoroutineFails,
      EndCoroutine
<1>10. ASSUME current # None, NEW f \in Futures, Block(f), UNCHANGED <<jobs, sentUpdates>>
       PROVE  CoroutinesMatch'
  <2>1. \A c \in Coroutines : c \notin ran' => waiting'[c] = waiting[c]
    BY <1>0, <1>10 DEF Block, Types, CoroutineTypes
  <2> QED
    BY <1>0, <1>10, <2>1, SameCoroutines DEF Block
<1>11. CASE WaitForSignal
  <2>1. <<"signal", waits'>> \in Futures
    BY <1>11, Bounds DEF WaitForSignal, Futures, Types, CounterTypes
  <2> QED
    BY <1>10, <1>11, <2>1 DEF WaitForSignal
<1>12. ASSUME NEW m \in 1 .. MaxManual, SetFuture(m) PROVE CoroutinesMatch'
  BY <1>1, <1>12 DEF SetFuture
<1>13. ASSUME NEW m \in 1 .. MaxManual, NEW f \in Futures, ChainFuture(m, f)
       PROVE  CoroutinesMatch'
  BY <1>1, <1>13 DEF ChainFuture
<1>14. ASSUME NEW f \in Futures, Get(f) PROVE CoroutinesMatch'
  BY <1>10, <1>14 DEF Get
<1> QED
  BY <1>2, <1>3, <1>4, <1>5, <1>6, <1>7, <1>8, <1>9, <1>11, <1>12, <1>13, <1>14
  DEF Next, Activate, WorkflowCode
-----------------------------------------------------------------------------
(***************************************************************************)
(* drive.                                                                  *)
(***************************************************************************)
LEMMA CurrentKept ==
  ASSUME Types, CurrentMatches, Types', Next
  PROVE  CurrentMatches'
<1> USE DEF activationVars, outputVars, coroutineVars, futureVars, operationVars, signalVars,
            updateVars
<1>1. ASSUME current' = None PROVE CurrentMatches'
  BY <1>1 DEF CurrentMatches
<1>2. ASSUME phase # "driving", current' \in {current, None} PROVE CurrentMatches'
  BY <1>1, <1>2 DEF CurrentMatches
<1>3. ASSUME UNCHANGED <<phase, terminal, current, done, waiting, highPriority, drive>>
      PROVE  CurrentMatches'
  BY <1>3 DEF CurrentMatches
<1>4. CASE Deliver \/ DeliverSignal \/ SignalsDelivered \/ StartUpdate \/ UpdatesStarted \/ KeepJob
           \/ RoundOver \/ AnswerQueries \/ Evict \/ ApplyJob
  BY <1>2, <1>4
  DEF Deliver, DeliverSignal, SignalsDelivered, StartUpdate, UpdatesStarted, KeepJob, RoundOver,
      AnswerQueries, Evict, ApplyJob, Fail
<1>5. CASE NextLoop \/ DriveReturns
  BY <1>1, <1>5 DEF NextLoop, DriveReturns, Driving, Fail
<1>6. CASE Resume
  <2>1. /\ current' \in 1 .. count /\ CanRun(current') /\ highPriority[current'] = drive.high
        /\ drive' = [drive EXCEPT !.next = current' + 1, !.progressed = TRUE]
        /\ waiting' = [waiting EXCEPT ![current'] = None]
        /\ phase' = "driving" /\ ~terminal' /\ UNCHANGED <<highPriority, done>>
    BY <1>6, ResumeEffect
  <2>2. drive'.progressed /\ drive'.high = drive.high
    BY <2>1 DEF Types, ActivationTypes
  <2>3. current' \in Coroutines
    BY <2>1, Bounds DEF Types, CoroutineTypes, Coroutines
  <2>4. waiting'[current'] = None /\ current' \notin done'
    BY <2>1, <2>3 DEF CanRun, Types, CoroutineTypes
  <2> QED
    BY <2>1, <2>2, <2>4 DEF CurrentMatches
<1>7. CASE StartOperation \/ NewFuture \/ TakeSignal \/ SetUpdateHandler
  BY <1>3, <1>7 DEF StartOperation, NewFuture, TakeSignal, SetUpdateHandler
<1>8. CASE Go
  <2>1. highPriority'[current] = highPriority[current]
    BY <1>8, Bounds DEF Go, AddCoroutine, Types, CoroutineTypes, Coroutines
  <2> QED
    BY <1>8, <2>1 DEF Go, CurrentMatches
<1>9. CASE WaitForSignal \/ CoroutineReturns \/ CoroutineFails
  BY <1>1, <1>9 DEF WaitForSignal, CoroutineReturns, CoroutineFails, Block, EndCoroutine
<1>10. ASSUME NEW m \in 1 .. MaxManual, SetFuture(m) PROVE CurrentMatches'
  BY <1>3, <1>10 DEF SetFuture
<1>11. ASSUME NEW m \in 1 .. MaxManual, NEW f \in Futures, ChainFuture(m, f)
       PROVE  CurrentMatches'
  BY <1>3, <1>11 DEF ChainFuture
<1>12. ASSUME NEW f \in Futures, Get(f) PROVE CurrentMatches'
  BY <1>1, <1>12 DEF Get, Block
<1> QED
  BY <1>4, <1>5, <1>6, <1>7, <1>8, <1>9, <1>10, <1>11, <1>12 DEF Next, Activate, WorkflowCode

\* Where drive begins, and where its loops over a priority begin.
LEMMA DriveForEffect ==
  ASSUME Types, NEW why \in {"bootstrap", "retry", "final"}, DriveFor(why)
  PROVE  /\ phase' = "driving" /\ drive'.high /\ drive'.next = 1 /\ drive'.upto = count
         /\ ~drive'.progressed
BY DEF DriveFor, FirstPriority

LEMMA NextLoopEffect ==
  ASSUME Types, NextLoop
  PROVE  /\ phase = "driving" /\ Candidates = {}
         /\ drive'.next = 1 /\ drive'.upto = count
         /\ \/ drive.high /\ ~drive'.high /\ drive'.progressed = drive.progressed
            \/ ~drive.high /\ drive'.high /\ ~drive'.progressed /\ drive.progressed
<1>1. CASE drive.high /\ drive' = [drive EXCEPT !.high = FALSE, !.next = 1, !.upto = count]
  BY <1>1 DEF NextLoop, Driving, Types, ActivationTypes
<1>2. CASE /\ ~drive.high /\ drive.progressed
           /\ drive' = [drive EXCEPT !.high = TRUE, !.next = 1, !.upto = count,
                                     !.progressed = FALSE]
  BY <1>2 DEF NextLoop, Driving, Types, ActivationTypes
<1>3. drive.high \in BOOLEAN
  BY DEF Types, ActivationTypes
<1> QED
  BY <1>1, <1>2, <1>3 DEF NextLoop, FirstPriority, AnotherPass

LEMMA HandlersFirstKept ==
  ASSUME Types, CoroutinesMatch, CurrentMatches, HandlersFirst, Types', Next
  PROVE  HandlersFirst'
<1> USE DEF activationVars, outputVars, coroutineVars, futureVars, operationVars, signalVars,
            updateVars
<1>0. /\ count \in Nat /\ count' \in Nat
      /\ drive.next \in Nat /\ drive.upto \in Nat /\ drive.high \in BOOLEAN
      /\ 1 .. count \subseteq Coroutines
  BY Bounds DEF Types, ActivationTypes, CoroutineTypes, Coroutines
<1>1. ASSUME phase' # "driving" PROVE HandlersFirst'
  BY <1>1 DEF HandlersFirst
<1>2. ASSUME UNCHANGED <<phase, count, role, drive, ran>> PROVE HandlersFirst'
  BY <1>2 DEF HandlersFirst, Handlers
<1>3. CASE Deliver \/ DeliverSignal \/ StartUpdate \/ UpdatesStarted \/ KeepJob \/ AnswerQueries
           \/ Evict \/ ApplyJob
  BY <1>1, <1>3
  DEF Deliver, DeliverSignal, StartUpdate, UpdatesStarted, KeepJob, AnswerQueries, Evict,
      ApplyJob, Fail
<1>4. ASSUME NEW why \in {"bootstrap", "retry", "final"}, DriveFor(why),
             UNCHANGED <<count, role, ran>>
      PROVE  HandlersFirst'
  BY <1>0, <1>4, DriveForEffect DEF HandlersFirst, Handlers
<1>5. CASE SignalsDelivered \/ RoundOver
  BY <1>1, <1>4, <1>5 DEF SignalsDelivered, RoundOver
<1>6. CASE Resume
  <2>1. /\ current' \in drive.next .. drive.upto
        /\ \A c \in Candidates : current' <= c
        /\ drive' = [drive EXCEPT !.next = current' + 1, !.progressed = TRUE]
        /\ ran' = ran \cup {current'}
        /\ phase = "driving" /\ UNCHANGED <<count, role>>
    BY <1>6, ResumeEffect
  <2>2. drive'.next = current' + 1 /\ drive'.high = drive.high /\ drive'.upto = drive.upto
    BY <2>1 DEF Types, ActivationTypes
  <2>3. Handlers' = Handlers
    BY <2>1 DEF Handlers
  <2>4. ASSUME drive.high, NEW c \in Handlers, c < current' + 1 PROVE c \in ran'
    <3>1. CASE c < drive.next
      BY <2>1, <2>4, <3>1 DEF HandlersFirst
    <3>2. CASE c = current'
      BY <2>1, <3>2
    <3>3. CASE c \in drive.next .. (current' - 1)
      <4>1. c \in drive.next .. drive.upto /\ c \notin Candidates
        BY <1>0, <2>1, <3>3
      <4>2. highPriority[c] = drive.high
        BY <1>0, <2>4 DEF CoroutinesMatch, Handlers, Types, CoroutineTypes
      <4>3. ~CanRun(c)
        BY <4>1, <4>2 DEF Candidates
      <4>4. c \in ran
        BY <1>0, <2>4, <4>3 DEF CanRun, CoroutinesMatch, Handlers, Types, CoroutineTypes
      <4> QED
        BY <2>1, <4>4
    <3> QED
      BY <1>0, <2>1, <2>4, <3>1, <3>2, <3>3 DEF Handlers
  <2> QED
    BY <2>1, <2>2, <2>3, <2>4 DEF HandlersFirst
<1>7. CASE NextLoop
  <2>1. /\ phase = "driving" /\ Candidates = {} /\ drive'.next = 1 /\ drive'.upto = count
        /\ drive.high \/ drive'.high
    BY <1>7, NextLoopEffect
  <2>2. UNCHANGED <<count, role, ran>>
    BY <1>7 DEF NextLoop
  <2>3. ASSUME drive.high, NEW c \in Handlers PROVE c \in ran
    <3>1. CASE c < drive.next
      BY <2>1, <2>3, <3>1 DEF HandlersFirst
    <3>2. CASE c \in drive.next .. drive.upto
      <4>1. highPriority[c] = drive.high
        BY <1>0, <2>3 DEF CoroutinesMatch, Handlers, Types, CoroutineTypes
      <4>2. ~CanRun(c)
        BY <2>1, <3>2, <4>1 DEF Candidates
      <4> QED
        BY <1>0, <2>3, <4>2 DEF CanRun, CoroutinesMatch, Handlers, Types, CoroutineTypes
    <3> QED
      BY <1>0, <2>1, <3>1, <3>2 DEF HandlersFirst, Handlers
  <2> QED
    BY <1>0, <2>1, <2>2, <2>3 DEF HandlersFirst, Handlers
<1>8. CASE DriveReturns
  BY <1>1, <1>8 DEF DriveReturns, Fail
<1>9. CASE StartOperation \/ NewFuture \/ TakeSignal \/ WaitForSignal \/ SetUpdateHandler
           \/ CoroutineReturns
  BY <1>2, <1>9
  DEF StartOperation, NewFuture, TakeSignal, WaitForSignal, SetUpdateHandler, CoroutineReturns,
      Block, EndCoroutine
<1>10. CASE CoroutineFails
  BY <1>1, <1>2, <1>10 DEF CoroutineFails, EndCoroutine
<1>11. CASE Go
  <2>1. /\ count + 1 \in Coroutines /\ role[count + 1] = NoRole
        /\ highPriority[current] \in BOOLEAN
    BY <1>0, <1>11, Room DEF Go, SpawnedOnes, Types, CoroutineTypes
  <2>2. /\ count' = count + 1 /\ role'[count + 1] = Spawned
        /\ \A c \in Coroutines : c # count + 1 => role'[c] = role[c]
    BY <1>11, <2>1, AddCoroutineEffect DEF Go
  <2>3. Spawned \notin HandlerRoles
    BY DEF Spawned, HandlerRoles
  <2>4. Handlers' = Handlers
    BY <1>0, <2>2, <2>3 DEF Handlers
  <2> QED
    BY <1>11, <2>4 DEF Go, HandlersFirst
<1>12. ASSUME NEW m \in 1 .. MaxManual, SetFuture(m) PROVE HandlersFirst'
  BY <1>2, <1>12 DEF SetFuture
<1>13. ASSUME NEW m \in 1 .. MaxManual, NEW f \in Futures, ChainFuture(m, f)
       PROVE  HandlersFirst'
  BY <1>2, <1>13 DEF ChainFuture
<1>14. ASSUME NEW f \in Futures, Get(f) PROVE HandlersFirst'
  BY <1>2, <1>14 DEF Get, Block
<1> QED
  BY <1>3, <1>5, <1>6, <1>7, <1>8, <1>9, <1>10, <1>11, <1>12, <1>13, <1>14
  DEF Next, Activate, WorkflowCode

LEMMA PassKept ==
  ASSUME Types, CurrentMatches, PassMatches, Types', Next
  PROVE  PassMatches'
<1> USE DEF activationVars, outputVars, coroutineVars, futureVars, operationVars, signalVars,
            updateVars
<1>0. /\ count \in Nat /\ drive.next \in Nat /\ drive.upto \in Nat /\ drive.high \in BOOLEAN
      /\ drive.progressed \in BOOLEAN
      /\ \A c \in 1 .. count : highPriority[c] \in BOOLEAN
  BY Bounds DEF Types, ActivationTypes, CoroutineTypes, Coroutines
<1>1. ASSUME phase' \in Phases \ {"driving", "answering", "idle"} PROVE PassMatches'
  BY <1>1 DEF PassMatches
<1>2. ASSUME current # None, phase' \in {phase, "stopped"}, drive' = drive PROVE PassMatches'
  BY <1>2 DEF PassMatches, CurrentMatches
<1>3. CASE Deliver \/ DeliverSignal \/ StartUpdate \/ UpdatesStarted \/ KeepJob \/ Evict
           \/ ApplyJob
  BY <1>1, <1>3
  DEF Deliver, DeliverSignal, StartUpdate, UpdatesStarted, KeepJob, Evict, ApplyJob, Fail, Phases
<1>4. ASSUME NEW why \in {"bootstrap", "retry", "final"}, DriveFor(why), count' = count
      PROVE  PassMatches'
  BY <1>0, <1>4, DriveForEffect DEF PassMatches
<1>5. CASE SignalsDelivered \/ RoundOver
  BY <1>1, <1>4, <1>5 DEF SignalsDelivered, RoundOver, Phases
<1>6. CASE Resume
  <2>1. phase' = "driving" /\ drive'.progressed
    BY <1>6, ResumeEffect DEF Types, ActivationTypes
  <2> QED
    BY <2>1 DEF PassMatches
<1>7. CASE NextLoop
  <2>1. /\ phase = "driving" /\ Candidates = {} /\ drive'.next = 1 /\ drive'.upto = count
        /\ \/ drive.high /\ ~drive'.high /\ drive'.progressed = drive.progressed
           \/ ~drive.high /\ drive'.high /\ ~drive'.progressed
    BY <1>7, NextLoopEffect
  <2>2. UNCHANGED <<phase, count, highPriority, done, waiting, ready>>
    BY <1>7 DEF NextLoop
  <2>3. \A c : CanRun(c)' <=> CanRun(c)
    BY <2>2 DEF CanRun
  <2>4. ASSUME drive.high, ~drive.progressed, NEW c \in 1 .. count, highPriority[c]
        PROVE  ~CanRun(c)
    <3>1. CASE c < drive.next
      BY <2>1, <2>4, <3>1 DEF PassMatches
    <3>2. CASE c \in drive.next .. drive.upto
      BY <1>0, <2>1, <2>4, <3>2 DEF Candidates
    <3> QED
      BY <1>0, <2>1, <2>4, <3>1, <3>2 DEF PassMatches
  <2> QED
    BY <1>0, <2>1, <2>2, <2>3, <2>4 DEF PassMatches
<1>8. CASE DriveReturns
  <2>1. UNCHANGED <<terminal, count, done, waiting, ready>>
    BY <1>8 DEF DriveReturns
  <2>2. \A c : CanRun(c)' <=> CanRun(c)
    BY <2>1 DEF CanRun
  <2>3. phase' \in {"updating", "stopped", "applying", "answering"}
    BY <1>8 DEF DriveReturns, Fail
  <2>4. ASSUME ~terminal, NEW c \in 1 .. count PROVE ~CanRun(c)
    <3>1. phase = "driving" /\ Candidates = {} /\ ~drive.high /\ ~drive.progressed
      BY <1>0, <1>8, <2>4 DEF DriveReturns, Driving, DriveStops, FirstPriority, AnotherPass
    <3>2. CASE highPriority[c] \/ c < drive.next
      BY <3>1, <3>2 DEF PassMatches
    <3>3. CASE ~highPriority[c] /\ c \in drive.next .. drive.upto
      BY <1>0, <3>1, <3>3 DEF Candidates
    <3> QED
      BY <1>0, <3>1, <3>2, <3>3 DEF PassMatches
  <2> QED
    BY <2>1, <2>2, <2>3, <2>4 DEF PassMatches
<1>9. CASE AnswerQueries
  <2>1. /\ phase = "answering" /\ phase' = "idle"
        /\ UNCHANGED <<bootstrapped, terminal, count, done, waiting, ready>>
    BY <1>9 DEF AnswerQueries
  <2>2. \A c : CanRun(c)' <=> CanRun(c)
    BY <2>1 DEF CanRun
  <2> QED
    BY <2>1, <2>2 DEF PassMatches
<1>10. CASE StartOperation \/ Go \/ NewFuture \/ TakeSignal \/ WaitForSignal \/ SetUpdateHandler
            \/ CoroutineReturns \/ CoroutineFails
  BY <1>2, <1>10
  DEF StartOperation, Go, NewFuture, TakeSignal, WaitForSignal, SetUpdateHandler,
      CoroutineReturns, CoroutineFails
<1>11. ASSUME NEW m \in 1 .. MaxManual, SetFuture(m) PROVE PassMatches'
  BY <1>2, <1>11 DEF SetFuture
<1>12. ASSUME NEW m \in 1 .. MaxManual, NEW f \in Futures, ChainFuture(m, f)
       PROVE  PassMatches'
  BY <1>2, <1>12 DEF ChainFuture
<1>13. ASSUME NEW f \in Futures, Get(f) PROVE PassMatches'
  BY <1>2, <1>13 DEF Get
<1> QED
  BY <1>3, <1>5, <1>6, <1>7, <1>8, <1>9, <1>10, <1>11, <1>12, <1>13
  DEF Next, Activate, WorkflowCode
-----------------------------------------------------------------------------
(***************************************************************************)
(* Commands and updates.                                                   *)
(***************************************************************************)
LEMMA CommandsKept ==
  ASSUME Types, CurrentMatches, CommandsMatch, CoroutinesMatch, Types', Next
  PROVE  CommandsMatch'
<1> USE DEF activationVars, outputVars, coroutineVars, futureVars, operationVars, signalVars,
            updateVars
<1>0. terminal \in BOOLEAN
  BY DEF Types, ActivationTypes
<1>1. ASSUME UNCHANGED <<commands, terminal>>,
             phase' = phase \/ phase' = "stopped" \/ phase \notin {"idle", "stopped"}
      PROVE  CommandsMatch'
  BY <1>1 DEF CommandsMatch, TerminalIsLast, Ends
<1>2. ASSUME NEW kind \in OutputKinds \ {"query"},
             NEW subject \in UpdateIDs \cup Seqs \cup {None}, Emit(kind, subject),
             phase \notin {"idle", "stopped"}, kind \in OfWorkflow => ~terminal,
             terminal' = IF kind \in {"complete", "fail"} THEN TRUE ELSE terminal
      PROVE  CommandsMatch'
  BY <1>2, EmitKeepsOrder
<1>3. CASE Deliver
  <2>1. commands' = <<>>
    BY <1>3 DEF Deliver
  <2> QED
    BY <2>1 DEF CommandsMatch, TerminalIsLast, Ends
<1>4. CASE DeliverSignal \/ SignalsDelivered \/ UpdatesStarted \/ KeepJob \/ ApplyJob \/ RoundOver
           \/ Resume \/ NextLoop \/ DriveReturns \/ Evict
  BY <1>1, <1>4
  DEF DeliverSignal, SignalsDelivered, UpdatesStarted, KeepJob, ApplyJob, RoundOver, Resume,
      NextLoop, DriveReturns, Evict, Driving, Fail
<1>5. CASE StartUpdate
  <2>1. PICK u \in UpdateIDs : Emit("rejected", u) \/ Emit("accepted", u)
    BY <1>5, StartUpdateEffect
  <2>2. phase = "updating" /\ terminal' = terminal
    BY <1>5 DEF StartUpdate
  <2> QED
    BY <1>2, <2>1, <2>2 DEF OutputKinds, OfWorkflow
<1>6. CASE AnswerQueries
  <2>1. phase = "answering" /\ phase' = "idle" /\ terminal' = terminal
    BY <1>6 DEF AnswerQueries
  <2>2. CASE UNCHANGED commands
    BY <1>1, <2>1, <2>2
  <2>3. CASE Emit("query", None)
    <3>1. /\ DOMAIN commands' = 1 .. (Len(commands) + 1) /\ Len(commands') = Len(commands) + 1
          /\ DOMAIN commands = 1 .. Len(commands) /\ Len(commands) \in Nat
          /\ \A i \in DOMAIN commands : commands'[i] = commands[i]
          /\ commands'[Len(commands) + 1][1] = "query"
      BY <2>3, EmitEffect DEF OutputKinds
    <3>2. \A i \in DOMAIN commands : commands[i][1] # "query"
      BY <2>1 DEF CommandsMatch
    <3> QED
      BY <2>1, <3>1, <3>2 DEF CommandsMatch, TerminalIsLast, Ends, OfWorkflow
  <2> QED
    BY <1>6, <2>2, <2>3 DEF AnswerQueries
<1>7. ASSUME current # None PROVE phase = "driving" /\ ~terminal
  BY <1>7 DEF CurrentMatches
<1>8. CASE StartOperation
  <2>1. NextSeq \in Seqs
    BY <1>8, Bounds DEF StartOperation, NextSeq, Seqs, Types, CounterTypes
  <2>2. Emit("start", NextSeq) /\ current # None /\ terminal' = terminal
    BY <1>8 DEF StartOperation
  <2> QED
    BY <1>2, <1>7, <2>1, <2>2 DEF OutputKinds
<1>9. CASE Go \/ NewFuture \/ TakeSignal \/ WaitForSignal \/ SetUpdateHandler
  BY <1>1, <1>9 DEF Go, NewFuture, TakeSignal, WaitForSignal, SetUpdateHandler
<1>10. CASE CoroutineReturns
  <2>1. current # None
    BY <1>10 DEF CoroutineReturns
  <2>2. ASSUME terminal', NEW kind \in {"complete", "fail"}, Emit(kind, None)
        PROVE  CommandsMatch'
    BY <1>2, <1>7, <2>1, <2>2, Zenon DEF OutputKinds
  <2>3. ASSUME role[current] \in HandlerRoles, terminal' = terminal,
               NEW verdict \in {"completed", "rejected"}, Emit(verdict, role[current][2])
        PROVE  CommandsMatch'
    <3>1. role[current][2] \in UpdateIDs
      BY <2>3 DEF HandlerRoles
    <3> QED
      BY <1>2, <1>7, <2>1, <2>3, <3>1 DEF OutputKinds
  <2>4. ASSUME UNCHANGED outputVars PROVE CommandsMatch'
    BY <1>1, <1>7, <2>1, <2>4
  <2> QED
    BY <1>10, <2>2, <2>3, <2>4 DEF CoroutineReturns
<1>11. CASE CoroutineFails
  <2>1. current # None
    BY <1>11 DEF CoroutineFails
  <2>2. ASSUME terminal', Emit("fail", None) PROVE CommandsMatch'
    BY <1>2, <1>7, <2>1, <2>2, Zenon DEF OutputKinds
  <2>3. ASSUME UNCHANGED outputVars PROVE CommandsMatch'
    BY <1>1, <1>7, <2>1, <2>3
  <2> QED
    BY <1>11, <2>2, <2>3 DEF CoroutineFails
<1>12. ASSUME NEW m \in 1 .. MaxManual, SetFuture(m) PROVE CommandsMatch'
  BY <1>1, <1>12 DEF SetFuture
<1>13. ASSUME NEW m \in 1 .. MaxManual, NEW f \in Futures, ChainFuture(m, f)
       PROVE  CommandsMatch'
  BY <1>1, <1>13 DEF ChainFuture
<1>14. ASSUME NEW f \in Futures, Get(f) PROVE CommandsMatch'
  BY <1>1, <1>14 DEF Get
<1> QED
  BY <1>3, <1>4, <1>5, <1>6, <1>8, <1>9, <1>10, <1>11, <1>12, <1>13, <1>14
  DEF Next, Activate, WorkflowCode

LEMMA AcceptedKept ==
  ASSUME Types, CoroutinesMatch, CurrentMatches, AcceptedIsPending, Types', Next
  PROVE  AcceptedIsPending'
<1> USE DEF activationVars, outputVars, coroutineVars, futureVars, operationVars, signalVars,
            updateVars
<1>0. /\ count \in Nat /\ 1 .. count \subseteq Coroutines
      /\ answer \in [UpdateIDs -> Answers] /\ done \subseteq 1 .. count
      /\ current # None => current \in 1 .. count
  BY Bounds DEF Types, ActivationTypes, CoroutineTypes, Coroutines
<1>1. ASSUME phase' = "stopped" PROVE AcceptedIsPending'
  BY <1>1 DEF AcceptedIsPending
<1>2. ASSUME phase # "stopped", UNCHANGED <<count, role, done, answer>>
      PROVE  AcceptedIsPending'
  BY <1>2 DEF AcceptedIsPending
<1>3. CASE Deliver \/ DeliverSignal \/ SignalsDelivered \/ UpdatesStarted \/ KeepJob \/ RoundOver
           \/ NextLoop \/ AnswerQueries
  BY <1>2, <1>3
  DEF Deliver, DeliverSignal, SignalsDelivered, UpdatesStarted, KeepJob, RoundOver, NextLoop,
      AnswerQueries, Driving
<1>4. CASE Evict
  BY <1>1, <1>4 DEF Evict, Fail
<1>5. CASE ApplyJob \/ Resume \/ DriveReturns
  BY <1>2, <1>5 DEF ApplyJob, Resume, DriveReturns, Driving
<1>6. CASE StartUpdate
  <2>1. PICK u \in UpdateIDs :
          /\ \/ /\ answer' = [answer EXCEPT ![u] = "rejected"]
                /\ UNCHANGED <<count, role, highPriority>>
             \/ /\ answer' = [answer EXCEPT ![u] = "accepted"]
                /\ AddCoroutine(<<"update", u>>, TRUE)
          /\ count + 1 \in Coroutines /\ role[count + 1] = NoRole
    BY <1>6, StartUpdateEffect
  <2>2. phase = "updating" /\ done' = done
    BY <1>6 DEF StartUpdate
  <2>3. CASE answer' = [answer EXCEPT ![u] = "rejected"] /\ UNCHANGED <<count, role>>
    BY <1>0, <2>2, <2>3 DEF AcceptedIsPending
  <2>4. CASE answer' = [answer EXCEPT ![u] = "accepted"] /\ AddCoroutine(<<"update", u>>, TRUE)
    <3>1. <<"update", u>> \in HandlerRoles
      BY DEF HandlerRoles
    <3>2. /\ count' = count + 1 /\ role'[count + 1] = <<"update", u>>
          /\ \A c \in Coroutines : c # count + 1 => role'[c] = role[c]
      BY <2>1, <2>4, <3>1, AddCoroutineEffect
    <3>3. count + 1 \notin done
      BY <1>0
    <3> SUFFICES ASSUME NEW v \in UpdateIDs, answer'[v] = "accepted"
                 PROVE  \E c \in 1 .. count' : role'[c] = <<"update", v>> /\ c \notin done'
      BY DEF AcceptedIsPending
    <3>4. CASE v = u
      BY <1>0, <2>2, <3>2, <3>3, <3>4
    <3>5. CASE v # u
      <4>1. PICK c \in 1 .. count : role[c] = <<"update", v>> /\ c \notin done
        BY <1>0, <2>2, <2>4, <3>5 DEF AcceptedIsPending
      <4> QED
        BY <1>0, <2>2, <3>2, <4>1
    <3> QED
      BY <3>4, <3>5
  <2> QED
    BY <2>1, <2>3, <2>4
<1>7. ASSUME current # None PROVE phase = "driving"
  BY <1>7 DEF CurrentMatches
<1>8. CASE StartOperation \/ NewFuture \/ TakeSignal \/ WaitForSignal \/ SetUpdateHandler
  BY <1>2, <1>7, <1>8
  DEF StartOperation, NewFuture, TakeSignal, WaitForSignal, SetUpdateHandler, Block
<1>9. CASE Go
  <2>1. /\ count + 1 \in Coroutines /\ role[count + 1] = NoRole
        /\ highPriority[current] \in BOOLEAN
    BY <1>0, <1>9, Room DEF Go, SpawnedOnes, Types, CoroutineTypes
  <2>2. /\ count' = count + 1
        /\ \A c \in Coroutines : c # count + 1 => role'[c] = role[c]
    BY <1>9, <2>1, AddCoroutineEffect DEF Go
  <2>3. phase = "driving" /\ UNCHANGED <<done, answer>>
    BY <1>7, <1>9 DEF Go
  <2> SUFFICES ASSUME NEW v \in UpdateIDs, answer'[v] = "accepted"
               PROVE  \E c \in 1 .. count' : role'[c] = <<"update", v>> /\ c \notin done'
    BY DEF AcceptedIsPending
  <2>4. PICK c \in 1 .. count : role[c] = <<"update", v>> /\ c \notin done
    BY <2>3 DEF AcceptedIsPending
  <2> QED
    BY <1>0, <2>2, <2>3, <2>4
<1>10. CASE CoroutineReturns
  <2>1. /\ phase = "driving" /\ done' = done \cup {current} /\ UNCHANGED <<count, role>>
        /\ current \in Coroutines
    BY <1>0, <1>7, <1>10 DEF CoroutineReturns, EndCoroutine
  <2>2. CASE role[current] \in HandlerRoles
    <3>1. PICK u \in UpdateIDs : role[current] = <<"update", u>>
      BY <2>2 DEF HandlerRoles
    <3>2. PICK verdict \in {"completed", "rejected"} : answer' = [answer EXCEPT ![u] = verdict]
      BY <1>10, <2>2, <3>1
      DEF CoroutineReturns, HandlerAnswer, Root, Spawned, HandlerRoles
    <3> SUFFICES ASSUME NEW v \in UpdateIDs, answer'[v] = "accepted"
                 PROVE  \E c \in 1 .. count' : role'[c] = <<"update", v>> /\ c \notin done'
      BY DEF AcceptedIsPending
    <3>3. v # u /\ answer[v] = "accepted"
      BY <1>0, <3>2
    <3>4. PICK c \in 1 .. count : role[c] = <<"update", v>> /\ c \notin done
      BY <2>1, <3>3 DEF AcceptedIsPending
    <3>5. c # current
      BY <3>1, <3>3, <3>4
    <3> QED
      BY <2>1, <3>4, <3>5
  <2>3. CASE role[current] \notin HandlerRoles
    <3>1. answer' = answer
      BY <1>10, <2>3 DEF CoroutineReturns
    <3>2. \A v \in UpdateIDs : <<"update", v>> \in HandlerRoles
      BY DEF HandlerRoles
    <3> QED
      BY <2>1, <2>3, <3>1, <3>2 DEF AcceptedIsPending
  <2> QED
    BY <2>2, <2>3
<1>11. CASE CoroutineFails
  <2>1. current # None
    BY <1>11 DEF CoroutineFails
  <2>2. CASE highPriority[current]
    BY <1>1, <1>11, <2>2 DEF CoroutineFails
  <2>3. CASE ~highPriority[current]
    <3>1. role[current] \notin HandlerRoles
      BY <1>0, <2>1, <2>3 DEF CoroutinesMatch
    <3>2. phase = "driving" /\ done' = done \cup {current} /\ UNCHANGED <<count, role, answer>>
      BY <1>7, <1>11 DEF CoroutineFails, EndCoroutine
    <3>3. \A v \in UpdateIDs : <<"update", v>> \in HandlerRoles
      BY DEF HandlerRoles
    <3> QED
      BY <3>1, <3>2, <3>3 DEF AcceptedIsPending
  <2> QED
    BY <2>2, <2>3
<1>12. ASSUME NEW m \in 1 .. MaxManual, SetFuture(m) PROVE AcceptedIsPending'
  BY <1>2, <1>7, <1>12 DEF SetFuture
<1>13. ASSUME NEW m \in 1 .. MaxManual, NEW f \in Futures, ChainFuture(m, f)
       PROVE  AcceptedIsPending'
  BY <1>2, <1>7, <1>13 DEF ChainFuture
<1>14. ASSUME NEW f \in Futures, Get(f) PROVE AcceptedIsPending'
  BY <1>2, <1>7, <1>14 DEF Get, Block
<1> QED
  BY <1>3, <1>4, <1>5, <1>6, <1>8, <1>9, <1>10, <1>11, <1>12, <1>13, <1>14
  DEF Next, Activate, WorkflowCode
-----------------------------------------------------------------------------
LEMMA StutterKeeps == ASSUME IInv, UNCHANGED vars PROVE IInv'
<1> USE DEF vars, activationVars, outputVars, coroutineVars, futureVars, operationVars,
            signalVars, updateVars
<1>1. Types'
  BY DEF IInv, Types, ActivationTypes, CoroutineTypes, CounterTypes
<1>2. CoroutinesMatch'
  BY DEF IInv, CoroutinesMatch, SpawnedOnes
<1>3. CurrentMatches' /\ HandlersFirst' /\ PassMatches'
  BY DEF IInv, CurrentMatches, HandlersFirst, Handlers, PassMatches, CanRun
<1>4. CommandsMatch' /\ AcceptedIsPending'
  BY DEF IInv, CommandsMatch, Ends, TerminalIsLast, AcceptedIsPending
<1> QED
  BY <1>1, <1>2, <1>3, <1>4 DEF IInv

\* The invariant behind all of the theorems below.
THEOREM Invariance == Spec => []IInv
<1>1. ASSUME IInv, Next PROVE IInv'
  <2>1. Types'
    BY <1>1, TypesKept DEF IInv
  <2> QED
    BY <1>1, <2>1, CoroutinesKept, CurrentKept, HandlersFirstKept, PassKept, CommandsKept,
       AcceptedKept
    DEF IInv
<1>2. IInv /\ [Next]_vars => IInv'
  BY <1>1, StutterKeeps
<1> QED
  BY InitInvariant, <1>2, PTL DEF Spec

\* When an activation returns, no coroutine of a workflow that goes on can still
\* run: the passes of drive over two priorities, which see only the coroutines
\* there were when they began, end when a whole pass has resumed nothing.
THEOREM NoneLeftToRun == Spec => []NothingLeftToRun
<1>1. IInv => NothingLeftToRun
  BY DEF IInv, PassMatches, NothingLeftToRun
<1> QED
  BY Invariance, <1>1, PTL

\* Ordinary workflow code runs only when the handler of every update that has
\* been accepted has begun.
THEOREM UpdatesGoFirst == Spec => []UpdatesFirst
<1>1. IInv => UpdatesFirst
  BY DEF IInv, CurrentMatches, HandlersFirst, Handlers, UpdatesFirst
<1> QED
  BY Invariance, <1>1, PTL

\* The workflow's completion or failure is its last command, and answers to
\* queries end an activation.
THEOREM TerminalComesLast == Spec => []TerminalIsLast
<1>1. IInv => TerminalIsLast
  BY DEF IInv, CommandsMatch
<1> QED
  BY Invariance, <1>1, PTL

\* An update accepted and not answered has a coroutine that has not ended.
THEOREM AcceptedStaysPending == Spec => []AcceptedIsPending
<1>1. IInv => AcceptedIsPending
  BY DEF IInv
<1> QED
  BY Invariance, <1>1, PTL
=============================================================================
