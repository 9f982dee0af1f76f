------------------------ MODULE CombinedWorkerProofs ------------------------
(***************************************************************************)
(* Proofs about CombinedWorker, for any set of callers of Shutdown: Core   *)
(* is shut down once, with its last view, and everyone hears how it went.  *)
(***************************************************************************)
EXTENDS CombinedWorker, TLAPS

Inside(t) == pc[t] \in {"releasing", "stopping"}

Pending(t) == pc[t] = "asking" \/ Inside(t)

Turn(t) == Head(todo[t])

\* What a thread that is shutting views down may have left to do.
Plans(t) ==
  IF t \in Views THEN {<<t>>}
  ELSE IF t = Maker THEN {<<"workflow">>, <<"activity", "workflow">>}
  ELSE {<<"activity">>, <<"workflow", "activity">>}

TodoShape ==
  \A t \in Threads : IF Pending(t) THEN todo[t] \in Plans(t) ELSE todo[t] = <<>>

\* How far NewWorker is decides which views exist and who may act.
MakingMatches ==
  /\ made = "no" <=> views = {}
  /\ made = "workflow" => views = {"workflow"}
  /\ made = "yes" => views = Views
  /\ made = "failed" => views = {"workflow"} \/ views = Views
  /\ made = "failed" /\ views = {"workflow"} /\ Pending(Maker) => todo[Maker] = <<"workflow">>
  /\ made \in {"no", "workflow"} => \A v \in Views : once[v] = "new"
  /\ made = "failed" <=> pc[Maker] # "idle"
  /\ pc[Maker] # "running"
  /\ \A t \in Callers \cup Views : pc[t] # "idle" => made = "yes"
  /\ \A c \in Callers : pc[c] # "running"

\* A busy Once has one thread inside, and only those.
OnceMatches ==
  /\ \A v \in Views : once[v] = "busy" => \E t \in Threads : Inside(t) /\ Turn(t) = v
  /\ \A t \in Threads : Inside(t) => once[Turn(t)] = "busy"
  /\ \A t, u \in Threads : Inside(t) /\ Inside(u) /\ Turn(t) = Turn(u) => t = u
  /\ \A v \in Views : v \notin views => once[v] = "new"

\* Core is stopping while a thread is in its Shutdown, and that is one thread.
StoppingMatches ==
  /\ core = "stopping" <=> \E t \in Threads : pc[t] = "stopping"
  /\ \A t, u \in Threads : pc[t] = "stopping" /\ pc[u] = "stopping" => t = u

\* Core's error is that of the view that came last, and of no other.
ErrorsMatch ==
  /\ coreFailed => core = "down"
  /\ \A v \in Views : viewFailed[v] => once[v] = "done" /\ coreFailed
  /\ core = "down" /\ coreFailed => viewFailed["workflow"] \/ viewFailed["activity"]

\* What each thread has been told by the views it has been through.
HeardMatches ==
  /\ \A c \in Callers :
       /\ Pending(c) /\ todo[c] = <<"workflow", "activity">> => ~heard[c]
       /\ Pending(c) /\ todo[c] = <<"activity">> =>
            once["workflow"] = "done" /\ (heard[c] <=> viewFailed["workflow"])
       /\ pc[c] = "done" =>
            /\ \A v \in Views : once[v] = "done"
            /\ heard[c] <=> viewFailed["workflow"] \/ viewFailed["activity"]
       /\ pc[c] = "idle" => ~heard[c]
  /\ \A v \in Views :
       IF pc[v] = "done" THEN once[v] = "done" /\ (heard[v] <=> viewFailed[v]) ELSE ~heard[v]
  /\ Pending(Maker) /\ todo[Maker] = <<"workflow">> /\ views = Views => once["activity"] = "done"
  /\ pc[Maker] = "done" => \A v \in views : once[v] = "done"

RunMatches ==
  /\ \A v \in received : pc[v] = "done"
  /\ runFailed <=> \E v \in received : viewFailed[v]
  /\ run = "returned" <=> received = Views
  /\ run = "no" => \A v \in Views : pc[v] = "idle"

IInv ==
  /\ TypeOK /\ RefsMatch /\ CoreUpWhileHeld
  /\ TodoShape /\ MakingMatches /\ OnceMatches /\ StoppingMatches
  /\ ErrorsMatch /\ HeardMatches /\ RunMatches
-----------------------------------------------------------------------------
\* Sequences of one and two views.
LEMMA PlanFacts ==
  /\ \A x, y : Head(<<x, y>>) = x /\ Tail(<<x, y>>) = <<y>> /\ <<x, y>> # <<>>
  /\ \A x : Head(<<x>>) = x /\ Tail(<<x>>) = <<>> /\ <<x>> # <<>>
  /\ \A x, y, z : <<x, y>> # <<z>>
  /\ \A x, y : <<x>> = <<y>> => x = y
  OBVIOUS

\* Plans are sequences of views.
LEMMA PlansAreSequences ==
  ASSUME NEW v \in Views, NEW w \in Views
  PROVE  <<v>> \in Seq(Views) /\ <<v, w>> \in Seq(Views)
  OBVIOUS

\* The turn of a thread that shuts views down is a view that exists.
LEMMA TurnIsView ==
  ASSUME IInv, NEW t \in Threads, Pending(t)
  PROVE  /\ Turn(t) \in views
         /\ Turn(t) \in Views
         /\ todo[t] # <<>>
         /\ todo[t] \in Plans(t)
  <1>1. todo[t] \in Plans(t)
    BY DEF IInv, TodoShape
  <1>2. made = "yes" \/ (t = Maker /\ made = "failed")
    BY ThreadAssumption DEF IInv, MakingMatches, Pending, Inside, Threads
  <1>. QED
    BY <1>1, <1>2, PlanFacts, ThreadAssumption
    DEF IInv, MakingMatches, Plans, Views, Turn, Threads, Pending

\* Where a thread that shuts views down stands, before and after its turn.
Caller1(t) == t \in Callers /\ todo[t] = <<"workflow", "activity">> /\ Turn(t) = "workflow"
Caller2(t) == t \in Callers /\ todo[t] = <<"activity">> /\ Turn(t) = "activity"
Maker1(t)  == t = Maker /\ todo[t] = <<"activity", "workflow">> /\ Turn(t) = "activity"
Maker2(t)  == t = Maker /\ todo[t] = <<"workflow">> /\ Turn(t) = "workflow"
Loop(t)    == t \in Views /\ todo[t] = <<t>> /\ Turn(t) = t

\* A plan is one of these, and its tail is one of them or empty.
LEMMA PlanCases ==
  ASSUME NEW t \in Threads, todo[t] \in Plans(t)
  PROVE  /\ Caller1(t) \/ Caller2(t) \/ Maker1(t) \/ Maker2(t) \/ Loop(t)
         /\ Caller1(t) => Tail(todo[t]) = <<"activity">>
         /\ Maker1(t) => Tail(todo[t]) = <<"workflow">>
         /\ Caller2(t) \/ Maker2(t) \/ Loop(t) => Tail(todo[t]) = <<>>
  <1>. USE PlanFacts, ThreadAssumption
       DEF Plans, Views, Turn, Caller1, Caller2, Maker1, Maker2, Loop
  <1>1. CASE t \in Views
    BY <1>1
  <1>2. CASE t = Maker
    <2>1. t \notin Views /\ t \notin Callers
      BY <1>2
    <2>2. CASE todo[t] = <<"workflow">>
      BY <1>2, <2>1, <2>2
    <2>3. CASE todo[t] = <<"activity", "workflow">>
      BY <1>2, <2>1, <2>3
    <2>. QED
      BY <1>2, <2>1, <2>2, <2>3
  <1>3. CASE t \in Callers
    <2>1. t \notin Views /\ t # Maker
      BY <1>3
    <2>2. CASE todo[t] = <<"activity">>
      BY <1>3, <2>1, <2>2
    <2>3. CASE todo[t] = <<"workflow", "activity">>
      BY <1>3, <2>1, <2>3
    <2>. QED
      BY <1>3, <2>1, <2>2, <2>3
  <1>. QED
    BY <1>1, <1>2, <1>3 DEF Threads

\* A call of a view's Shutdown returns to the thread that made it.
LEMMA ReturnedEffect ==
  ASSUME IInv, NEW t \in Threads, Pending(t), NEW failed \in BOOLEAN, Returned(t, failed)
  PROVE  /\ pc' \in [Threads -> {"idle", "running", "asking", "releasing", "stopping", "done"}]
         /\ todo' \in [Threads -> Seq(Views)]
         /\ heard' \in [Threads -> BOOLEAN]
         /\ \A u \in Threads : u # t => pc'[u] = pc[u] /\ todo'[u] = todo[u] /\ heard'[u] = heard[u]
         /\ heard'[t] <=> heard[t] \/ failed
         /\ TodoShape'
         /\ \/ Loop(t) /\ pc'[t] = "done"
            \/ Caller1(t) /\ pc'[t] = "asking" /\ todo'[t] = <<"activity">>
            \/ Caller2(t) /\ pc'[t] = "done"
            \/ Maker1(t) /\ pc'[t] = "asking" /\ todo'[t] = <<"workflow">>
            \/ Maker2(t) /\ pc'[t] = "done"
  <1>1. /\ pc \in [Threads -> {"idle", "running", "asking", "releasing", "stopping", "done"}]
        /\ todo \in [Threads -> Seq(Views)] /\ heard \in [Threads -> BOOLEAN]
    BY DEF IInv, TypeOK
  <1>2. todo[t] \in Plans(t) /\ todo[t] # <<>>
    BY TurnIsView
  <1>3. Tail(todo[t]) \in Seq(Views)
    BY <1>1, <1>2
  <1>4. /\ pc'[t] = IF Tail(todo[t]) = <<>> THEN "done" ELSE "asking"
        /\ todo'[t] = Tail(todo[t])
        /\ heard'[t] <=> heard[t] \/ failed
        /\ \A u \in Threads : u # t => pc'[u] = pc[u] /\ todo'[u] = todo[u] /\ heard'[u] = heard[u]
    BY <1>1 DEF Returned
  <1>5. /\ pc' \in [Threads -> {"idle", "running", "asking", "releasing", "stopping", "done"}]
        /\ todo' \in [Threads -> Seq(Views)] /\ heard' \in [Threads -> BOOLEAN]
    BY <1>1, <1>3 DEF Returned
  <1>6. \/ Loop(t) /\ pc'[t] = "done" /\ todo'[t] = <<>>
        \/ Caller1(t) /\ pc'[t] = "asking" /\ todo'[t] = <<"activity">>
        \/ Caller2(t) /\ pc'[t] = "done" /\ todo'[t] = <<>>
        \/ Maker1(t) /\ pc'[t] = "asking" /\ todo'[t] = <<"workflow">>
        \/ Maker2(t) /\ pc'[t] = "done" /\ todo'[t] = <<>>
    BY <1>2, <1>4, PlanCases, PlanFacts
  <1>7. TodoShape'
    <2>. SUFFICES ASSUME NEW u \in Threads
                  PROVE  (IF Pending(u) THEN todo[u] \in Plans(u) ELSE todo[u] = <<>>)'
      BY DEF TodoShape
    <2>1. CASE u = t
      BY <2>1, <1>6, ThreadAssumption
      DEF Pending, Inside, Plans, Views, Caller1, Caller2, Maker1, Maker2, Loop
    <2>2. CASE u # t
      BY <2>2, <1>4 DEF IInv, TodoShape, Pending, Inside, Plans
    <2>. QED
      BY <2>1, <2>2
  <1>. QED
    BY <1>4, <1>5, <1>6, <1>7
-----------------------------------------------------------------------------
(***************************************************************************)
(* One lemma per action: it keeps IInv.                                    *)
(***************************************************************************)

\* The workflow view is made.
LEMMA MakeWorkflowKeeps ==
  ASSUME IInv, MakeWorkflow
  PROVE  IInv'
  <1>. USE ThreadAssumption, PlanFacts DEF IInv, Views, Threads, coreVars, viewVars, runVars,
           MakeWorkflow, AddView, SetOut
  <1>. <<"workflow">> \in Seq(Views) /\ <<"activity", "workflow">> \in Seq(Views)
    BY PlansAreSequences
  <1>1. TypeOK'
    <2>a. todo' = todo \/ todo' = [todo EXCEPT ![Maker] = <<"workflow">>]
      OBVIOUS
    <2>b. pc' = pc \/ pc' = [pc EXCEPT ![Maker] = "asking"]
      OBVIOUS
    <2>1. /\ todo' \in [Threads -> Seq(Views)]
          /\ pc' \in [Threads -> {"idle", "running", "asking", "releasing", "stopping", "done"}]
      <3>1. todo \in [Threads -> Seq(Views)]
        BY DEF TypeOK
      <3>2. todo' \in [Threads -> Seq(Views)]
        BY ONLY <2>a, <3>1, <<"workflow">> \in Seq(Views), <<"activity", "workflow">> \in Seq(Views)
      <3>3. pc' \in [Threads -> {"idle", "running", "asking", "releasing", "stopping", "done"}]
        BY <2>b DEF TypeOK
      <3>. QED
        BY <3>2, <3>3
    <2>2. refs' \in 0 .. 2
      BY DEF TypeOK, RefsMatch, Held, MakingMatches
    <2>. QED
      BY <2>1, <2>2 DEF TypeOK
  <1>2. RefsMatch'
    BY DEF RefsMatch, TypeOK, Held, Inside, Turn, MakingMatches
  <1>3. CoreUpWhileHeld'
    BY DEF CoreUpWhileHeld, TypeOK, MakingMatches, Held, Turn, Inside
  <1>4. TodoShape'
    BY DEF TodoShape, TypeOK, Pending, Inside, Plans, MakingMatches
  <1>5. MakingMatches'
    <2>1. /\ made = "no" /\ views = {} /\ pc[Maker] = "idle"
          /\ \A t \in Callers \cup Views : pc[t] = "idle"
          /\ \A v \in Views : once[v] = "new"
      BY DEF MakingMatches
    <2>2. /\ made' \in {"workflow", "failed"} /\ views' = {"workflow"}
          /\ pc'[Maker] = IF made' = "failed" THEN "asking" ELSE "idle"
          /\ made' = "failed" => todo'[Maker] = <<"workflow">>
          /\ \A t \in Callers \cup Views : pc'[t] = "idle"
          /\ \A v \in Views : once'[v] = "new"
      BY <2>1 DEF TypeOK
    <2>. QED
      BY ONLY <2>2 DEF MakingMatches, Views
  <1>6. OnceMatches'
    BY DEF OnceMatches, TypeOK, MakingMatches, TodoShape, Pending, Inside, Turn
  <1>7. StoppingMatches'
    BY DEF StoppingMatches, TypeOK, MakingMatches, Inside
  <1>8. ErrorsMatch'
    BY DEF ErrorsMatch, TypeOK
  <1>9. HeardMatches'
    <2>1. /\ pc[Maker] = "idle" /\ pc'[Maker] \in {"idle", "asking"}
          /\ \A t \in Callers \cup Views : pc'[t] = pc[t] /\ todo'[t] = todo[t]
      BY DEF TypeOK, MakingMatches
    <2>2. /\ \A t \in Callers \cup Views : Pending(t)' <=> Pending(t)
          /\ pc'[Maker] # "done"
      BY ONLY <2>1 DEF Pending, Inside
    <2>3. views' # Views /\ UNCHANGED <<once, viewFailed, heard>>
      BY DEF MakingMatches
    <2>4. HeardMatches
      OBVIOUS
    <2>. QED
      BY ONLY <2>1, <2>2, <2>3, <2>4 DEF HeardMatches, Views
  <1>10. RunMatches'
    BY DEF RunMatches, TypeOK, MakingMatches, HeardMatches
  <1>. QED
    BY <1>1, <1>2, <1>3, <1>4, <1>5, <1>6, <1>7, <1>8, <1>9, <1>10

\* The activity view is made.
LEMMA MakeActivityKeeps ==
  ASSUME IInv, MakeActivity
  PROVE  IInv'
  <1>. USE ThreadAssumption, PlanFacts DEF IInv, Views, Threads, coreVars, viewVars, runVars,
           MakeActivity, AddView, SetOut, UndoWorkflowToo
  <1>. <<"workflow">> \in Seq(Views) /\ <<"activity", "workflow">> \in Seq(Views)
    BY PlansAreSequences
  <1>1. TypeOK'
    <2>a. todo' = todo \/ todo' = [todo EXCEPT ![Maker] = <<"activity", "workflow">>]
      OBVIOUS
    <2>b. pc' = pc \/ pc' = [pc EXCEPT ![Maker] = "asking"]
      OBVIOUS
    <2>1. /\ todo' \in [Threads -> Seq(Views)]
          /\ pc' \in [Threads -> {"idle", "running", "asking", "releasing", "stopping", "done"}]
      <3>1. todo \in [Threads -> Seq(Views)]
        BY DEF TypeOK
      <3>2. todo' \in [Threads -> Seq(Views)]
        BY ONLY <2>a, <3>1, <<"workflow">> \in Seq(Views), <<"activity", "workflow">> \in Seq(Views)
      <3>3. pc' \in [Threads -> {"idle", "running", "asking", "releasing", "stopping", "done"}]
        BY <2>b DEF TypeOK
      <3>. QED
        BY <3>2, <3>3
    <2>2. refs' \in 0 .. 2
      BY DEF TypeOK, RefsMatch, Held, MakingMatches
    <2>. QED
      BY <2>1, <2>2 DEF TypeOK
  <1>2. RefsMatch'
    BY DEF RefsMatch, TypeOK, Held, Inside, Turn, MakingMatches
  <1>3. CoreUpWhileHeld'
    BY DEF CoreUpWhileHeld, TypeOK, MakingMatches, Held, Turn, Inside
  <1>4. TodoShape'
    BY DEF TodoShape, TypeOK, Pending, Inside, Plans, MakingMatches
  <1>5. MakingMatches'
    <2>1. /\ made = "workflow" /\ views = {"workflow"} /\ pc[Maker] = "idle"
          /\ \A t \in Callers \cup Views : pc[t] = "idle"
      BY DEF MakingMatches
    <2>2. /\ made' \in {"yes", "failed"} /\ views' = Views
          /\ pc'[Maker] = IF made' = "failed" THEN "asking" ELSE "idle"
          /\ \A t \in Callers \cup Views : pc'[t] = "idle"
      BY <2>1 DEF TypeOK
    <2>. QED
      BY ONLY <2>2 DEF MakingMatches, Views
  <1>6. OnceMatches'
    BY DEF OnceMatches, TypeOK, MakingMatches, TodoShape, Pending, Inside, Turn
  <1>7. StoppingMatches'
    BY DEF StoppingMatches, TypeOK, MakingMatches, Inside
  <1>8. ErrorsMatch'
    BY DEF ErrorsMatch, TypeOK
  <1>9. HeardMatches'
    <2>1. /\ pc[Maker] = "idle" /\ (\A t \in Callers \cup Views : pc[t] = "idle")
          /\ made' = "yes" => pc'[Maker] = "idle"
          /\ pc'[Maker] \in {"idle", "asking"}
          /\ \A t \in Callers \cup Views : pc'[t] = "idle"
      BY DEF TypeOK, MakingMatches
    <2>2. pc'[Maker] = "asking" => todo'[Maker] # <<"workflow">>
      BY <2>1 DEF TypeOK
    <2>3. UNCHANGED <<once, viewFailed, heard>>
      OBVIOUS
    <2>4. HeardMatches
      OBVIOUS
    <2>5. \A t \in Callers \cup Views : ~Pending(t)' /\ pc'[t] # "done"
      BY ONLY <2>1 DEF Pending, Inside
    <2>6. ~(Pending(Maker)' /\ todo'[Maker] = <<"workflow">>) /\ pc'[Maker] # "done"
      BY ONLY <2>1, <2>2 DEF Pending, Inside
    <2>7. /\ \A c \in Callers : ~heard[c]
          /\ \A v \in Views : ~heard[v]
      BY ONLY <2>1, <2>4 DEF HeardMatches
    <2>. QED
      BY ONLY <2>3, <2>5, <2>6, <2>7 DEF HeardMatches
  <1>10. RunMatches'
    BY DEF RunMatches, TypeOK, MakingMatches, HeardMatches
  <1>. QED
    BY <1>1, <1>2, <1>3, <1>4, <1>5, <1>6, <1>7, <1>8, <1>9, <1>10

\* Run starts the loops.
LEMMA StartRunKeeps ==
  ASSUME IInv, StartRun
  PROVE  IInv'
  <1>. USE ThreadAssumption, PlanFacts DEF IInv, Views, Threads, coreVars, viewVars, runVars,
           StartRun
  <1>. /\ \A t \in Threads : pc'[t] = pc[t] \/ (t \in Views /\ pc[t] = "idle" /\ pc'[t] = "running")
       /\ \A t \in Threads : (Pending(t)' <=> Pending(t)) /\ (Inside(t)' <=> Inside(t))
       /\ \A t \in Threads : pc'[t] = "stopping" <=> pc[t] = "stopping"
       /\ \A t \in Threads : pc'[t] = "releasing" <=> pc[t] = "releasing"
       /\ todo' = todo
    BY DEF TypeOK, RunMatches, Pending, Inside
  <1>1. TypeOK'
    BY DEF TypeOK
  <1>2. RefsMatch' /\ CoreUpWhileHeld'
    <2>1. \A v \in Views : Held(v)' <=> Held(v)
      BY DEF Held
    <2>. QED
      BY <2>1 DEF RefsMatch, CoreUpWhileHeld
  <1>3. TodoShape'
    BY DEF TodoShape, Plans
  <1>4. MakingMatches'
    BY DEF MakingMatches
  <1>5. OnceMatches'
    BY DEF OnceMatches, Turn
  <1>6. StoppingMatches'
    BY DEF StoppingMatches
  <1>7. ErrorsMatch'
    BY DEF ErrorsMatch
  <1>8. HeardMatches'
    <2>1. /\ \A t \in Threads : pc'[t] = "done" <=> pc[t] = "done"
          /\ \A c \in Callers \cup {Maker} : pc'[c] = pc[c]
      OBVIOUS
    <2>2. \A c \in Callers \cup {Maker} : Pending(c)' <=> Pending(c)
      OBVIOUS
    <2>3. UNCHANGED <<todo, heard, once, viewFailed, views>>
      OBVIOUS
    <2>. HIDE DEF StartRun, Pending
    <2>. QED
      BY <2>1, <2>2, <2>3 DEF HeardMatches
  <1>9. RunMatches'
    BY DEF RunMatches, TypeOK
  <1>. QED
    BY <1>1, <1>2, <1>3, <1>4, <1>5, <1>6, <1>7, <1>8, <1>9

\* A loop ends and sets out to release its view.
LEMMA LoopEndsKeeps ==
  ASSUME IInv, NEW v \in Views, LoopEnds(v)
  PROVE  IInv'
  <1>. USE ThreadAssumption, PlanFacts DEF IInv, Views, Threads, coreVars, viewVars, runVars,
           LoopEnds, SetOut
  <1>1. TypeOK'
    <2>1. <<v>> \in Seq(Views)
      BY ONLY PlansAreSequences, v \in Views DEF Views
    <2>2. todo' \in [Threads -> Seq(Views)]
      <3>. HIDE DEF Threads, Views
      <3>. QED
        BY <2>1 DEF TypeOK
    <2>3. pc' \in [Threads -> {"idle", "running", "asking", "releasing", "stopping", "done"}]
      <3>. HIDE DEF Threads, Views
      <3>. QED
        BY DEF TypeOK
    <2>. QED
      BY <2>2, <2>3 DEF TypeOK
  <1>2. RefsMatch'
    BY DEF RefsMatch, TypeOK, Held, Inside, Turn, MakingMatches
  <1>3. CoreUpWhileHeld'
    BY DEF CoreUpWhileHeld, TypeOK, MakingMatches, Held, Turn, Inside
  <1>4. TodoShape'
    BY DEF TodoShape, TypeOK, Pending, Inside, Plans, MakingMatches
  <1>5. MakingMatches'
    BY DEF MakingMatches, TypeOK, Pending, Inside
  <1>6. OnceMatches'
    BY DEF OnceMatches, TypeOK, MakingMatches, TodoShape, Pending, Inside, Turn
  <1>7. StoppingMatches'
    BY DEF StoppingMatches, TypeOK, MakingMatches, Inside
  <1>8. ErrorsMatch'
    BY DEF ErrorsMatch, TypeOK
  <1>9. HeardMatches'
    <2>1. /\ \A t \in Callers \cup {Maker} : pc'[t] = pc[t] /\ todo'[t] = todo[t]
          /\ \A w \in Views : pc'[w] = "done" <=> pc[w] = "done"
      BY DEF TypeOK
    <2>2. \A t \in Callers \cup {Maker} : Pending(t)' <=> Pending(t)
      BY ONLY <2>1 DEF Pending, Inside
    <2>3. UNCHANGED <<once, viewFailed, heard, views>>
      OBVIOUS
    <2>4. HeardMatches
      OBVIOUS
    <2>. QED
      BY ONLY <2>1, <2>2, <2>3, <2>4 DEF HeardMatches
  <1>10. RunMatches'
    BY DEF RunMatches, TypeOK, MakingMatches, HeardMatches
  <1>. QED
    BY <1>1, <1>2, <1>3, <1>4, <1>5, <1>6, <1>7, <1>8, <1>9, <1>10

\* Run receives a result.
LEMMA ReceiveResultKeeps ==
  ASSUME IInv, NEW v \in Views, ReceiveResult(v)
  PROVE  IInv'
  <1>. USE ThreadAssumption, PlanFacts DEF IInv, Views, Threads, coreVars, viewVars, runVars,
           ReceiveResult, Joined, CancelOther
  <1>1. TypeOK'
    BY DEF TypeOK, MakingMatches, RefsMatch, Held
  <1>2. RefsMatch'
    BY DEF RefsMatch, TypeOK, Held, Inside, Turn, MakingMatches
  <1>3. CoreUpWhileHeld'
    BY DEF CoreUpWhileHeld, TypeOK, MakingMatches, Held, Turn, Inside
  <1>4. TodoShape'
    BY DEF TodoShape, TypeOK, Pending, Inside, Plans, MakingMatches
  <1>5. MakingMatches'
    BY DEF MakingMatches, TypeOK, Pending, Inside
  <1>6. OnceMatches'
    BY DEF OnceMatches, TypeOK, MakingMatches, TodoShape, Pending, Inside, Turn
  <1>7. StoppingMatches'
    BY DEF StoppingMatches, TypeOK, MakingMatches, Inside
  <1>8. ErrorsMatch'
    BY DEF ErrorsMatch, TypeOK
  <1>9. HeardMatches'
    <2>1. UNCHANGED <<pc, todo, once, viewFailed, heard, views>>
      OBVIOUS
    <2>2. HeardMatches
      OBVIOUS
    <2>. QED
      BY ONLY <2>1, <2>2 DEF HeardMatches, Pending, Inside
  <1>10. RunMatches'
    BY DEF RunMatches, TypeOK, MakingMatches, HeardMatches
  <1>. QED
    BY <1>1, <1>2, <1>3, <1>4, <1>5, <1>6, <1>7, <1>8, <1>9, <1>10

\* Shutdown is called.
LEMMA CallShutdownKeeps ==
  ASSUME IInv, NEW c \in Callers, CallShutdown(c)
  PROVE  IInv'
  <1>. USE ThreadAssumption, PlanFacts DEF IInv, Views, Threads, coreVars, viewVars, runVars,
           CallShutdown, SetOut
  <1>1. TypeOK'
    <2>1. <<"workflow", "activity">> \in Seq(Views)
      BY ONLY PlansAreSequences, TRUE DEF Views
    <2>2. todo' \in [Threads -> Seq(Views)]
      <3>. HIDE DEF Threads, Views
      <3>. QED
        BY <2>1 DEF TypeOK
    <2>3. pc' \in [Threads -> {"idle", "running", "asking", "releasing", "stopping", "done"}]
      <3>. HIDE DEF Threads, Views
      <3>. QED
        BY DEF TypeOK
    <2>. QED
      BY <2>2, <2>3 DEF TypeOK
  <1>2. RefsMatch'
    BY DEF RefsMatch, TypeOK, Held, Inside, Turn, MakingMatches
  <1>3. CoreUpWhileHeld'
    BY DEF CoreUpWhileHeld, TypeOK, MakingMatches, Held, Turn, Inside
  <1>4. TodoShape'
    BY DEF TodoShape, TypeOK, Pending, Inside, Plans, MakingMatches
  <1>5. MakingMatches'
    BY DEF MakingMatches, TypeOK, Pending, Inside
  <1>6. OnceMatches'
    BY DEF OnceMatches, TypeOK, MakingMatches, TodoShape, Pending, Inside, Turn
  <1>7. StoppingMatches'
    BY DEF StoppingMatches, TypeOK, MakingMatches, Inside
  <1>8. ErrorsMatch'
    BY DEF ErrorsMatch, TypeOK
  <1>9. HeardMatches'
    <2>1. /\ pc[c] = "idle" /\ pc'[c] = "asking" /\ todo'[c] = <<"workflow", "activity">>
          /\ \A t \in Threads : t # c => pc'[t] = pc[t] /\ todo'[t] = todo[t]
      BY DEF TypeOK
    <2>2. \A t \in Threads : t # c => (Pending(t)' <=> Pending(t))
      BY ONLY <2>1 DEF Pending, Inside
    <2>3. UNCHANGED <<once, viewFailed, heard, views>>
      OBVIOUS
    <2>4. HeardMatches
      OBVIOUS
    <2>5. ~heard[c]
      BY ONLY <2>1, <2>4 DEF HeardMatches
    <2>6. c # Maker /\ c \notin Views /\ <<"workflow", "activity">> # <<"activity">>
      OBVIOUS
    <2>. QED
      BY ONLY <2>1, <2>2, <2>3, <2>4, <2>5, <2>6 DEF HeardMatches, Threads
  <1>10. RunMatches'
    BY DEF RunMatches, TypeOK, MakingMatches, HeardMatches
  <1>. QED
    BY <1>1, <1>2, <1>3, <1>4, <1>5, <1>6, <1>7, <1>8, <1>9, <1>10

\* A view's Shutdown returns to t, and its Once is done with t's error: what
\* others were told stands.
LEMMA ReturnKeeps ==
  ASSUME IInv, NEW t \in Threads, Pending(t), NEW failed \in BOOLEAN, Returned(t, failed),
         UNCHANGED <<made, views, runVars>>,
         once'[Turn(t)] = "done", viewFailed'[Turn(t)] <=> failed,
         \A v \in Views : v # Turn(t) => once'[v] = once[v] /\ (viewFailed'[v] <=> viewFailed[v]),
         \A v \in Views : once[v] = "done" => once'[v] = "done" /\ (viewFailed'[v] <=> viewFailed[v])
  PROVE  /\ MakingMatches'
         /\ HeardMatches'
         /\ RunMatches'
         /\ \A v \in Views : v \notin views' => once'[v] = "new"
  <1>1. /\ \A u \in Threads : u # t => pc'[u] = pc[u] /\ todo'[u] = todo[u] /\ heard'[u] = heard[u]
        /\ heard'[t] <=> heard[t] \/ failed
        /\ \/ Loop(t) /\ pc'[t] = "done"
           \/ Caller1(t) /\ pc'[t] = "asking" /\ todo'[t] = <<"activity">>
           \/ Caller2(t) /\ pc'[t] = "done"
           \/ Maker1(t) /\ pc'[t] = "asking" /\ todo'[t] = <<"workflow">>
           \/ Maker2(t) /\ pc'[t] = "done"
    BY ReturnedEffect
  <1>2. Turn(t) \in views /\ Turn(t) \in Views
    BY TurnIsView
  <1>3. \A u \in Threads : u # t => (Pending(u)' <=> Pending(u))
    BY <1>1 DEF Pending, Inside
  <1>4. MakingMatches /\ HeardMatches /\ RunMatches /\ OnceMatches
    BY DEF IInv
  <1>5. pc[t] # "idle" /\ pc[t] # "done" /\ pc[t] # "running"
    BY DEF Pending, Inside
  <1>6. /\ Caller1(t) \/ Caller2(t) => t \in Callers /\ t \notin Views /\ t # Maker
        /\ Maker1(t) \/ Maker2(t) => t = Maker /\ t \notin Views /\ t \notin Callers
        /\ Loop(t) => t \in Views /\ t \notin Callers /\ t # Maker
    BY ThreadAssumption DEF Caller1, Caller2, Maker1, Maker2, Loop
  <1>7. made \notin {"no", "workflow"}
    BY <1>4, <1>5, ThreadAssumption DEF MakingMatches, Threads
  <1>8. MakingMatches'
    <2>1. \A c \in Callers \cup Views : pc'[c] # "idle" => made = "yes"
      BY <1>1, <1>4, <1>5 DEF MakingMatches, Threads
    <2>2. \A c \in Callers : pc'[c] # "running"
      BY <1>1, <1>4 DEF MakingMatches, Threads
    <2>3. pc'[Maker] # "running" /\ (made = "failed" <=> pc'[Maker] # "idle")
      BY <1>1, <1>4, <1>5 DEF MakingMatches, Threads
    <2>4. views = {"workflow"} /\ made = "failed" /\ Pending(Maker)' => todo'[Maker] = <<"workflow">>
      <3>1. CASE t = Maker
        BY <1>1, <1>6, <3>1 DEF Pending, Inside
      <3>2. CASE t # Maker
        BY <1>1, <1>3, <1>4, <3>2 DEF MakingMatches, Threads
      <3>. QED
        BY <3>1, <3>2
    <2>. QED
      BY <1>4, <1>7, <2>1, <2>2, <2>3, <2>4 DEF MakingMatches
  <1>9. \A c \in Callers :
          /\ Pending(c)' /\ todo'[c] = <<"workflow", "activity">> => ~heard'[c]
          /\ Pending(c)' /\ todo'[c] = <<"activity">> =>
               once'["workflow"] = "done" /\ (heard'[c] <=> viewFailed'["workflow"])
          /\ pc'[c] = "done" =>
               /\ \A v \in Views : once'[v] = "done"
               /\ heard'[c] <=> viewFailed'["workflow"] \/ viewFailed'["activity"]
          /\ pc'[c] = "idle" => ~heard'[c]
    <2>. TAKE c \in Callers
    <2>1. CASE c # t
      <3>1. c \in Threads /\ pc'[c] = pc[c] /\ todo'[c] = todo[c] /\ heard'[c] = heard[c]
            /\ (Pending(c)' <=> Pending(c))
        BY <1>1, <1>3, <2>1 DEF Threads
      <3>. QED
        BY <3>1, <1>4 DEF HeardMatches, Views
    <2>2. CASE c = t /\ Caller1(t)
      <3>1. ~heard[t] /\ Turn(t) = "workflow"
        BY <1>4, <2>2 DEF HeardMatches, Caller1
      <3>. QED
        BY <1>1, <1>6, <2>2, <3>1, PlanFacts DEF Loop, Caller1, Caller2, Maker1, Maker2
    <2>3. CASE c = t /\ Caller2(t)
      <3>1. /\ once["workflow"] = "done" /\ (heard[t] <=> viewFailed["workflow"])
            /\ Turn(t) = "activity"
        BY <1>4, <2>3 DEF HeardMatches, Caller2
      <3>2. pc'[t] = "done"
        BY <1>1, <1>6, <2>3, PlanFacts DEF Caller1, Caller2
      <3>. QED
        BY <1>1, <2>3, <3>1, <3>2 DEF Views, Pending, Inside
    <2>. QED
      BY <1>1, <1>6, <2>1, <2>2, <2>3
  <1>10. \A v \in Views :
           IF pc'[v] = "done" THEN once'[v] = "done" /\ (heard'[v] <=> viewFailed'[v]) ELSE ~heard'[v]
    <2>. TAKE v \in Views
    <2>1. CASE v # t
      BY <1>1, <1>4, <2>1 DEF HeardMatches, Threads
    <2>2. CASE v = t
      BY <1>1, <1>4, <1>5, <1>6, <2>2 DEF HeardMatches, Loop
    <2>. QED
      BY <2>1, <2>2
  <1>11. /\ Pending(Maker)' /\ todo'[Maker] = <<"workflow">> /\ views = Views => once'["activity"] = "done"
         /\ pc'[Maker] = "done" => \A v \in views : once'[v] = "done"
    <2>1. CASE t # Maker
      BY <1>1, <1>3, <1>4, <2>1 DEF HeardMatches, Threads, Views, IInv, TypeOK
    <2>2. CASE t = Maker /\ Maker1(t)
      BY <1>1, <1>6, <2>2, PlanFacts DEF Maker1, Maker2, Pending, Inside
    <2>3. CASE t = Maker /\ Maker2(t)
      <3>1. pc'[t] = "done" /\ Turn(t) = "workflow" /\ todo[t] = <<"workflow">>
        BY <1>1, <1>6, <2>3, PlanFacts DEF Maker1, Maker2
      <3>2. views = {"workflow"} \/ views = Views
        BY <1>4, <1>5, <2>3 DEF MakingMatches
      <3>3. views = Views => once["activity"] = "done"
        BY <1>4, <2>3, <3>1 DEF HeardMatches
      <3>. QED
        BY <2>3, <3>1, <3>2, <3>3 DEF Pending, Inside, Views
    <2>. QED
      BY <1>1, <1>6, <2>1, <2>2, <2>3
  <1>12. HeardMatches'
    BY <1>9, <1>10, <1>11 DEF HeardMatches
  <1>13. RunMatches'
    <2>1. received \subseteq Views
      BY DEF IInv, TypeOK
    <2>2. \A v \in received : pc[v] = "done" /\ v # t /\ once[v] = "done"
      BY <1>4, <1>5, <2>1 DEF RunMatches, HeardMatches
    <2>3. \A v \in received : pc'[v] = "done" /\ (viewFailed'[v] <=> viewFailed[v])
      BY <1>1, <2>1, <2>2 DEF Threads
    <2>4. run = "no" => t \notin Views
      BY <1>4, <1>5 DEF RunMatches
    <2>5. run = "no" => \A v \in Views : pc'[v] = "idle"
      BY <1>1, <1>4, <2>4 DEF RunMatches, Threads
    <2>. QED
      BY <1>4, <2>3, <2>5 DEF RunMatches, runVars
  <1>14. \A v \in Views : v \notin views' => once'[v] = "new"
    BY <1>2, <1>4 DEF OnceMatches
  <1>. QED
    BY <1>8, <1>12, <1>13, <1>14

\* t asks for a view: it is let in, or told what the view's Once ended with.
LEMMA AskViewKeeps ==
  ASSUME IInv, NEW t \in Threads, AskView(t)
  PROVE  IInv'
  <1>1. /\ pc[t] = "asking" /\ Pending(t) /\ ~Inside(t)
        /\ UNCHANGED <<made, views, refs, core, coreFailed, shutdowns, viewFailed, runVars>>
    BY DEF AskView, Pending, Inside, coreVars
  <1>2. Turn(t) \in views /\ Turn(t) \in Views /\ todo[t] \in Plans(t)
    BY <1>1, TurnIsView
  <1>3. CASE /\ FirstCall(Turn(t))
             /\ once' = [once EXCEPT ![Turn(t)] = "busy"]
             /\ pc' = [pc EXCEPT ![t] = "releasing"]
             /\ UNCHANGED <<todo, heard>>
    <2>1. /\ pc'[t] = "releasing" /\ Inside(t)'
          /\ \A u \in Threads : u # t => pc'[u] = pc[u] /\ (Inside(u)' <=> Inside(u))
          /\ \A u \in Threads : (Pending(u)' <=> Pending(u)) /\ Turn(u)' = Turn(u)
      BY <1>1, <1>3 DEF IInv, TypeOK, Inside, Pending, Turn
    <2>2. /\ once[Turn(t)] = "new" /\ once'[Turn(t)] = "busy"
          /\ \A v \in Views : v # Turn(t) => once'[v] = once[v]
      BY <1>2, <1>3 DEF IInv, TypeOK, FirstCall
    <2>3. \A v \in Views : Held(v)' <=> Held(v)
      <3>1. \A u \in Threads : pc'[u] = "releasing" <=> pc[u] = "releasing" \/ u = t
        BY <1>1, <2>1
      <3>. QED
        BY <1>1, <1>2, <2>1, <2>2, <3>1 DEF Held, Turn
    <2>4. TypeOK'
      BY <1>1, <1>3, <1>2 DEF IInv, TypeOK, runVars
    <2>5. RefsMatch' /\ CoreUpWhileHeld'
      BY <1>1, <2>3 DEF IInv, RefsMatch, CoreUpWhileHeld, Views
    <2>6. TodoShape'
      BY <1>3, <2>1 DEF IInv, TodoShape, Plans
    <2>7. MakingMatches'
      <3>1. made \notin {"no", "workflow"}
        BY <1>1, ThreadAssumption DEF IInv, MakingMatches, Threads
      <3>2. pc[t] # "idle" /\ pc'[t] # "idle" /\ pc'[t] # "running"
        BY <1>1, <2>1
      <3>. QED
        BY <1>1, <1>3, <2>1, <3>1, <3>2 DEF IInv, MakingMatches, Threads
    <2>8. OnceMatches'
      <3>1. \A u \in Threads : Inside(u) => Turn(u) # Turn(t)
        BY <2>2 DEF IInv, OnceMatches
      <3>2. \A u \in Threads : Inside(u) => Turn(u) \in Views
        BY TurnIsView DEF Pending
      <3>3. \A v \in Views : once'[v] = "busy" => \E u \in Threads : Inside(u)' /\ Turn(u)' = v
        <4>. TAKE v \in Views
        <4>1. CASE v = Turn(t)
          BY <2>1, <4>1
        <4>2. CASE v # Turn(t)
          BY <2>1, <2>2, <4>2 DEF IInv, OnceMatches
        <4>. QED
          BY <4>1, <4>2
      <3>4. \A u \in Threads : Inside(u)' => once'[Turn(u)'] = "busy"
        BY <2>1, <2>2, <3>1, <3>2 DEF IInv, OnceMatches
      <3>5. \A u, w \in Threads : Inside(u)' /\ Inside(w)' /\ Turn(u)' = Turn(w)' => u = w
        BY <2>1, <3>1 DEF IInv, OnceMatches
      <3>6. \A v \in Views : v \notin views' => once'[v] = "new"
        BY <1>1, <1>2, <2>2 DEF IInv, OnceMatches
      <3>. QED
        BY <3>3, <3>4, <3>5, <3>6 DEF OnceMatches
    <2>9. StoppingMatches'
      BY <1>1, <2>1 DEF IInv, StoppingMatches
    <2>10. ErrorsMatch'
      BY <1>1, <2>2 DEF IInv, ErrorsMatch
    <2>11. HeardMatches'
      <3>1. \A u \in Threads : pc'[u] = "done" <=> pc[u] = "done"
        BY <1>1, <2>1
      <3>2. \A u \in Threads : pc'[u] = "idle" <=> pc[u] = "idle"
        BY <1>1, <2>1
      <3>3. \A v \in Views : once[v] = "done" => once'[v] = "done"
        BY <2>2
      <3>4. views \subseteq Views
        BY DEF IInv, TypeOK
      <3>5. HeardMatches
        BY DEF IInv
      <3>6. UNCHANGED <<todo, heard, viewFailed, views>>
        BY <1>1, <1>3
      <3>7. \A u \in Threads : Pending(u)' <=> Pending(u)
        BY <2>1
      <3>. QED
        BY ONLY <3>1, <3>2, <3>3, <3>4, <3>5, <3>6, <3>7 DEF HeardMatches, Threads, Views
    <2>12. RunMatches'
      <3>1. t \in Views => run # "no"
        BY <1>1 DEF IInv, RunMatches
      <3>. QED
        BY <1>1, <2>1, <3>1 DEF IInv, TypeOK, RunMatches, runVars, Threads
    <2>. QED
      BY <2>4, <2>5, <2>6, <2>7, <2>8, <2>9, <2>10, <2>11, <2>12 DEF IInv
  <1>4. CASE /\ once[Turn(t)] = "done"
             /\ Returned(t, viewFailed[Turn(t)])
             /\ once' = once
    <2>1. viewFailed[Turn(t)] \in BOOLEAN
      BY <1>2 DEF IInv, TypeOK
    <2>2. /\ pc' \in [Threads -> {"idle", "running", "asking", "releasing", "stopping", "done"}]
          /\ todo' \in [Threads -> Seq(Views)]
          /\ heard' \in [Threads -> BOOLEAN]
          /\ \A u \in Threads : u # t => pc'[u] = pc[u] /\ todo'[u] = todo[u]
          /\ pc'[t] \in {"asking", "done"}
          /\ TodoShape'
      BY <1>1, <1>4, <2>1, ReturnedEffect
    <2>3. MakingMatches' /\ HeardMatches' /\ RunMatches'
      BY <1>1, <1>4, <2>1, ReturnKeeps
    <2>4. \A u \in Threads : /\ Inside(u)' <=> Inside(u)
                             /\ pc'[u] = "releasing" <=> pc[u] = "releasing"
                             /\ pc'[u] = "stopping" <=> pc[u] = "stopping"
                             /\ Inside(u) => Turn(u)' = Turn(u)
      BY <1>1, <2>2 DEF Inside, Turn
    <2>5. \A v \in Views : Held(v)' <=> Held(v)
      BY <1>1, <1>4, <2>2, <2>4 DEF Held
    <2>6. TypeOK'
      BY <1>1, <1>4, <2>2 DEF IInv, TypeOK, runVars
    <2>7. RefsMatch' /\ CoreUpWhileHeld'
      BY <1>1, <2>5 DEF IInv, RefsMatch, CoreUpWhileHeld, Views
    <2>8. OnceMatches'
      BY <1>1, <1>4, <2>4 DEF IInv, OnceMatches
    <2>9. StoppingMatches' /\ ErrorsMatch'
      BY <1>1, <1>4, <2>4 DEF IInv, StoppingMatches, ErrorsMatch
    <2>. QED
      BY <2>2, <2>3, <2>6, <2>7, <2>8, <2>9 DEF IInv
  <1>. QED
    BY <1>3, <1>4 DEF AskView, Turn

\* t leaves a view's Once with an error of Core's Shutdown or without: no other
\* thread is inside the Once it leaves.
LEMMA FinishOnceKeeps ==
  ASSUME IInv, NEW t \in Threads, Inside(t), NEW failed \in BOOLEAN, FinishOnce(t, failed),
         UNCHANGED <<made, views, runVars>>
  PROVE  /\ TodoShape' /\ MakingMatches' /\ OnceMatches' /\ HeardMatches' /\ RunMatches'
         /\ pc' \in [Threads -> {"idle", "running", "asking", "releasing", "stopping", "done"}]
         /\ todo' \in [Threads -> Seq(Views)]
         /\ heard' \in [Threads -> BOOLEAN]
         /\ once' \in [Views -> {"new", "busy", "done"}]
         /\ viewFailed' \in [Views -> BOOLEAN]
         /\ pc'[t] \in {"asking", "done"}
         /\ \A u \in Threads : u # t => pc'[u] = pc[u] /\ todo'[u] = todo[u]
         /\ once[Turn(t)] = "busy" /\ once'[Turn(t)] = "done"
         /\ viewFailed'[Turn(t)] <=> failed
         /\ \A v \in Views : v # Turn(t) => once'[v] = once[v] /\ viewFailed'[v] = viewFailed[v]
         /\ \A u \in Threads : u # t /\ Inside(u) => Turn(u) # Turn(t)
  <1>1. Pending(t) /\ Returned(t, failed)
    BY DEF Pending, FinishOnce
  <1>2. Turn(t) \in views /\ Turn(t) \in Views
    BY <1>1, TurnIsView
  <1>3. /\ once[Turn(t)] = "busy"
        /\ \A u \in Threads : u # t /\ Inside(u) => Turn(u) # Turn(t)
    BY DEF IInv, OnceMatches
  <1>4. /\ once' \in [Views -> {"new", "busy", "done"}]
        /\ viewFailed' \in [Views -> BOOLEAN]
        /\ once'[Turn(t)] = "done"
        /\ viewFailed'[Turn(t)] = failed
        /\ \A v \in Views : v # Turn(t) => once'[v] = once[v] /\ viewFailed'[v] = viewFailed[v]
    BY <1>2 DEF IInv, TypeOK, FinishOnce, Turn
  <1>5. /\ pc' \in [Threads -> {"idle", "running", "asking", "releasing", "stopping", "done"}]
        /\ todo' \in [Threads -> Seq(Views)]
        /\ heard' \in [Threads -> BOOLEAN]
        /\ \A u \in Threads : u # t => pc'[u] = pc[u] /\ todo'[u] = todo[u]
        /\ pc'[t] \in {"asking", "done"}
        /\ TodoShape'
    BY <1>1, ReturnedEffect
  <1>6. /\ MakingMatches' /\ HeardMatches' /\ RunMatches'
        /\ \A v \in Views : v \notin views' => once'[v] = "new"
    BY <1>1, <1>3, <1>4, ReturnKeeps
  <1>7. OnceMatches'
    <2>1. /\ \A u \in Threads : u # t => (Inside(u)' <=> Inside(u)) /\ Turn(u)' = Turn(u)
          /\ ~Inside(t)'
      BY <1>5 DEF Inside, Turn
    <2>2. \A u \in Threads : Inside(u) => Turn(u) \in Views
      BY TurnIsView DEF Pending
    <2>3. \A v \in Views : once'[v] = "busy" => \E u \in Threads : Inside(u)' /\ Turn(u)' = v
      BY <1>4, <2>1 DEF IInv, OnceMatches
    <2>4. \A u \in Threads : Inside(u)' => once'[Turn(u)'] = "busy"
      BY <1>3, <1>4, <2>1, <2>2 DEF IInv, OnceMatches
    <2>5. \A u, w \in Threads : Inside(u)' /\ Inside(w)' /\ Turn(u)' = Turn(w)' => u = w
      BY <2>1 DEF IInv, OnceMatches
    <2>. QED
      BY <1>6, <2>3, <2>4, <2>5 DEF OnceMatches
  <1>. QED
    BY <1>3, <1>4, <1>5, <1>6, <1>7

\* Taking a view off the count; with the last, Core is told to stop.
LEMMA ReleaseKeeps ==
  ASSUME IInv, NEW t \in Threads, Release(t)
  PROVE  IInv'
  <1>1. /\ pc[t] = "releasing" /\ Inside(t) /\ Pending(t)
        /\ refs' = refs - 1
        /\ \A u \in Threads : pc[u] # "stopping"
        /\ UNCHANGED <<made, views, coreFailed, runVars>>
    BY DEF Release, MutexFree, Inside, Pending
  <1>2. Turn(t) \in views /\ Turn(t) \in Views
    BY <1>1, TurnIsView
  <1>2a. PICK w \in Views : w = Turn(t) /\ w \in views
    BY <1>2
  <1>3. Held(Turn(t))
    BY <1>1, <1>2 DEF Held, Turn
  <1>4. core = "up" /\ coreFailed = FALSE /\ shutdowns = 0 /\ refs \in 1 .. 2
    BY <1>1, <1>2, <1>3 DEF IInv, TypeOK, CoreUpWhileHeld, StoppingMatches, ErrorsMatch, RefsMatch, Views
  <1>5. /\ once[Turn(t)] = "busy"
        /\ \A u \in Threads : u # t /\ Inside(u) => Turn(u) # Turn(t)
    BY <1>1 DEF IInv, OnceMatches
  <1>6. CASE /\ ~IsLastView
             /\ FinishOnce(t, coreFailed)
             /\ UNCHANGED <<core, shutdowns>>
    <2>1. FinishOnce(t, FALSE)
      BY <1>4, <1>6
    <2>2. /\ TodoShape' /\ MakingMatches' /\ OnceMatches' /\ HeardMatches' /\ RunMatches'
          /\ pc' \in [Threads -> {"idle", "running", "asking", "releasing", "stopping", "done"}]
          /\ todo' \in [Threads -> Seq(Views)]
          /\ heard' \in [Threads -> BOOLEAN]
          /\ once' \in [Views -> {"new", "busy", "done"}]
          /\ viewFailed' \in [Views -> BOOLEAN]
          /\ pc'[t] \in {"asking", "done"}
          /\ \A u \in Threads : u # t => pc'[u] = pc[u] /\ todo'[u] = todo[u]
          /\ once'[Turn(t)] = "done" /\ ~viewFailed'[Turn(t)]
          /\ \A v \in Views : v # Turn(t) => once'[v] = once[v] /\ viewFailed'[v] = viewFailed[v]
      BY <1>1, <2>1, FinishOnceKeeps
    <2>3. \A v \in Views : Held(v)' <=> Held(v) /\ v # w
      <3>1. ~Held(w)'
        <4>1. once'[w] = "done" /\ pc'[t] # "releasing"
          BY <1>2a, <2>2
        <4>2. ASSUME NEW u \in Threads, u # t, pc'[u] = "releasing"
              PROVE  Head(todo'[u]) # w
          BY <1>2a, <1>5, <2>2, <4>2 DEF Inside, Turn
        <4>. QED
          BY <4>1, <4>2 DEF Held
      <3>2. ASSUME NEW v \in Views, v # w
            PROVE  Held(v)' <=> Held(v)
        BY <1>1, <1>2a, <2>2, <3>2 DEF Held, Turn
      <3>. QED
        BY <3>1, <3>2
    <2>4. RefsMatch' /\ (\E v \in Views : Held(v)')
      BY <1>1, <1>2, <1>2a, <1>3, <1>4, <1>6, <2>3 DEF IInv, RefsMatch, IsLastView, Views
    <2>5. CoreUpWhileHeld'
      BY <1>1, <1>4, <1>6, <2>4 DEF CoreUpWhileHeld
    <2>6. TypeOK'
      BY <1>1, <1>4, <1>6, <2>2 DEF IInv, TypeOK, runVars
    <2>7. StoppingMatches'
      BY <1>1, <1>4, <1>6, <2>2 DEF StoppingMatches
    <2>8. ErrorsMatch'
      BY <1>1, <1>4, <1>6, <2>2 DEF IInv, ErrorsMatch
    <2>. QED
      BY <2>2, <2>4, <2>5, <2>6, <2>7, <2>8 DEF IInv
  <1>7. CASE /\ IsLastView
             /\ core' = "stopping" /\ shutdowns' = shutdowns + 1
             /\ pc' = [pc EXCEPT ![t] = "stopping"]
             /\ UNCHANGED <<viewVars, todo, heard>>
    <2>1. /\ pc'[t] = "stopping"
          /\ \A u \in Threads : u # t => pc'[u] = pc[u]
          /\ \A u \in Threads : (Inside(u)' <=> Inside(u)) /\ (Pending(u)' <=> Pending(u))
          /\ \A u \in Threads : Turn(u)' = Turn(u)
      BY <1>1, <1>7 DEF IInv, TypeOK, Inside, Pending, Turn
    <2>2. \A v \in Views : ~Held(v)'
      <3>1. ~Held(w)'
        <4>1. once'[w] = "busy" /\ pc'[t] # "releasing"
          BY <1>2a, <1>5, <1>7, <2>1 DEF viewVars
        <4>2. ASSUME NEW u \in Threads, u # t, pc'[u] = "releasing"
              PROVE  Head(todo'[u]) # w
          BY <1>2a, <1>5, <1>7, <2>1, <4>2 DEF Inside, Turn
        <4>. QED
          BY <4>1, <4>2 DEF Held
      <3>2. ASSUME NEW v \in Views, v # w
            PROVE  Held(v)' <=> Held(v)
        BY <1>1, <1>2a, <1>7, <2>1, <3>2 DEF Held, Turn, viewVars
      <3>3. \A v \in Views : v # w => ~Held(v)
        BY <1>2, <1>2a, <1>3, <1>7 DEF IInv, RefsMatch, IsLastView, Views
      <3>. QED
        BY <3>1, <3>2, <3>3
    <2>3. RefsMatch'
      BY <1>1, <1>7, <2>2 DEF RefsMatch, IsLastView, Views
    <2>4. CoreUpWhileHeld'
      BY <1>1, <1>2, <1>4, <1>7, <2>2 DEF CoreUpWhileHeld
    <2>5. TypeOK'
      BY <1>1, <1>4, <1>7 DEF IInv, TypeOK, runVars, viewVars
    <2>6. TodoShape'
      BY <1>7, <2>1 DEF IInv, TodoShape, Plans
    <2>7. MakingMatches'
      <3>1. pc[t] # "idle" /\ pc'[t] # "idle" /\ pc'[t] # "running"
        BY <1>1, <2>1
      <3>. QED
        BY <1>1, <1>7, <2>1, <3>1 DEF IInv, MakingMatches, Threads, viewVars
    <2>8. OnceMatches'
      BY <1>1, <1>7, <2>1 DEF IInv, OnceMatches, viewVars
    <2>9. StoppingMatches'
      BY <1>1, <1>7, <2>1 DEF StoppingMatches
    <2>10. ErrorsMatch'
      BY <1>1, <1>4, <1>7 DEF IInv, ErrorsMatch, viewVars
    <2>11. HeardMatches'
      <3>1. \A u \in Threads : /\ pc'[u] = "done" <=> pc[u] = "done"
                               /\ pc'[u] = "idle" <=> pc[u] = "idle"
        BY <1>1, <2>1
      <3>. QED
        BY <1>1, <1>7, <2>1, <3>1 DEF IInv, HeardMatches, Threads, viewVars
    <2>12. RunMatches'
      <3>1. t \in Views => run # "no"
        BY <1>1 DEF IInv, RunMatches
      <3>. QED
        BY <1>1, <1>7, <2>1, <3>1 DEF IInv, TypeOK, RunMatches, runVars, viewVars, Threads
    <2>. QED
      BY <2>3, <2>4, <2>5, <2>6, <2>7, <2>8, <2>9, <2>10, <2>11, <2>12 DEF IInv
  <1>. QED
    BY <1>6, <1>7 DEF Release

\* Core's Shutdown returns.
LEMMA CoreStopsKeeps ==
  ASSUME IInv, NEW t \in Threads, CoreStops(t)
  PROVE  IInv'
  <1>1. /\ pc[t] = "stopping" /\ Inside(t) /\ Pending(t)
        /\ core' = "down"
        /\ UNCHANGED <<made, views, refs, shutdowns, runVars>>
    BY DEF CoreStops, Inside, Pending
  <1>2. PICK failed \in BOOLEAN : coreFailed' = failed /\ FinishOnce(t, failed)
    BY DEF CoreStops
  <1>3. core = "stopping" /\ ~coreFailed /\ \A u \in Threads : pc[u] = "stopping" => u = t
    BY <1>1 DEF IInv, StoppingMatches, ErrorsMatch
  <1>4. Turn(t) \in Views
    BY <1>1, TurnIsView
  <1>5. /\ TodoShape' /\ MakingMatches' /\ OnceMatches' /\ HeardMatches' /\ RunMatches'
        /\ pc' \in [Threads -> {"idle", "running", "asking", "releasing", "stopping", "done"}]
        /\ todo' \in [Threads -> Seq(Views)]
        /\ heard' \in [Threads -> BOOLEAN]
        /\ once' \in [Views -> {"new", "busy", "done"}]
        /\ viewFailed' \in [Views -> BOOLEAN]
        /\ pc'[t] \in {"asking", "done"}
        /\ \A u \in Threads : u # t => pc'[u] = pc[u] /\ todo'[u] = todo[u]
        /\ once[Turn(t)] = "busy" /\ once'[Turn(t)] = "done"
        /\ viewFailed'[Turn(t)] <=> failed
        /\ \A v \in Views : v # Turn(t) => once'[v] = once[v] /\ viewFailed'[v] = viewFailed[v]
    BY <1>1, <1>2, FinishOnceKeeps
  <1>6. \A v \in Views : Held(v)' <=> Held(v)
    <2>1. \A u \in Threads : /\ pc'[u] = "releasing" <=> pc[u] = "releasing"
                             /\ pc[u] = "releasing" => todo'[u] = todo[u]
      BY <1>1, <1>5
    <2>2. \A v \in Views : once'[v] = "new" <=> once[v] = "new"
      BY <1>5
    <2>. QED
      BY <1>1, <2>1, <2>2 DEF Held
  <1>7. RefsMatch' /\ CoreUpWhileHeld'
    BY <1>1, <1>3, <1>6 DEF IInv, RefsMatch, CoreUpWhileHeld, Views
  <1>8. TypeOK'
    BY <1>1, <1>2, <1>5 DEF IInv, TypeOK, runVars
  <1>9. StoppingMatches'
    BY <1>1, <1>3, <1>5 DEF StoppingMatches
  <1>10. ErrorsMatch'
    <2>1. \A v \in Views : v # Turn(t) => ~viewFailed'[v]
      BY <1>3, <1>5 DEF IInv, ErrorsMatch, TypeOK
    <2>. QED
      BY <1>1, <1>2, <1>4, <1>5, <2>1 DEF ErrorsMatch, Views
  <1>. QED
    BY <1>5, <1>7, <1>8, <1>9, <1>10 DEF IInv
-----------------------------------------------------------------------------
\* It holds initially.
LEMMA InitIInv ==
  ASSUME Init
  PROVE  IInv
  <1>. USE ThreadAssumption DEF Init, Views, Threads, Pending, Inside
  <1>0. <<>> \in Seq(Views)
    OBVIOUS
  <1>1. TypeOK
    <2>1. /\ todo \in [Threads -> Seq(Views)]
          /\ pc \in [Threads -> {"idle", "running", "asking", "releasing", "stopping", "done"}]
          /\ heard \in [Threads -> BOOLEAN]
      <3>. HIDE DEF Threads
      <3>. QED
        BY <1>0
    <2>2. /\ once \in [Views -> {"new", "busy", "done"}]
          /\ viewFailed \in [Views -> BOOLEAN]
      OBVIOUS
    <2>. HIDE DEF Views, Threads
    <2>3. /\ made \in {"no", "workflow", "yes", "failed"}
          /\ core \in {"up", "stopping", "down"}
          /\ run \in {"no", "waiting", "cancelled", "returned"}
      OBVIOUS
    <2>4. refs \in 0 .. 2 /\ shutdowns \in 0 .. 1
      OBVIOUS
    <2>5. coreFailed \in BOOLEAN /\ runFailed \in BOOLEAN
      OBVIOUS
    <2>6. views \subseteq Views /\ received \subseteq Views
      OBVIOUS
    <2>. HIDE DEF Init
    <2>. QED
      BY <2>1, <2>2, <2>3, <2>4, <2>5, <2>6 DEF TypeOK
  <1>2. RefsMatch /\ CoreUpWhileHeld
    BY DEF RefsMatch, CoreUpWhileHeld, Held
  <1>3. TodoShape /\ MakingMatches /\ OnceMatches /\ StoppingMatches
    BY DEF TodoShape, MakingMatches, OnceMatches, StoppingMatches
  <1>4. ErrorsMatch /\ HeardMatches /\ RunMatches
    BY DEF ErrorsMatch, HeardMatches, RunMatches
  <1>. QED
    BY <1>1, <1>2, <1>3, <1>4 DEF IInv

\* It holds when nothing changes.
LEMMA StutterIInv ==
  ASSUME IInv, UNCHANGED vars
  PROVE  IInv'
  <1>. USE DEF IInv, vars, coreVars, viewVars, runVars
  <1>1. TypeOK' /\ RefsMatch' /\ CoreUpWhileHeld'
    BY DEF TypeOK, RefsMatch, CoreUpWhileHeld, Held
  <1>2. TodoShape' /\ MakingMatches' /\ OnceMatches'
    BY DEF TodoShape, Plans, MakingMatches, OnceMatches, Pending, Inside, Turn
  <1>3. StoppingMatches' /\ ErrorsMatch' /\ RunMatches'
    BY DEF StoppingMatches, ErrorsMatch, RunMatches
  <1>4. HeardMatches'
    <2>1. UNCHANGED <<pc, todo, heard, once, viewFailed, views>>
      OBVIOUS
    <2>2. HeardMatches
      OBVIOUS
    <2>. QED
      BY ONLY <2>1, <2>2 DEF HeardMatches, Pending, Inside
  <1>. QED
    BY <1>1, <1>2, <1>3, <1>4

\* IInv is an invariant of every behaviour.
THEOREM Inductive == Spec => []IInv
  <1>1. Init => IInv
    BY InitIInv
  <1>2. IInv /\ [Next]_vars => IInv'
    <2>. SUFFICES ASSUME IInv, [Next]_vars
                  PROVE  IInv'
      OBVIOUS
    <2>1. CASE MakeWorkflow
      BY <2>1, MakeWorkflowKeeps
    <2>2. CASE MakeActivity
      BY <2>2, MakeActivityKeeps
    <2>3. CASE StartRun
      BY <2>3, StartRunKeeps
    <2>4. ASSUME NEW t \in Threads, ThreadStep(t)
          PROVE  IInv'
      BY <2>4, AskViewKeeps, ReleaseKeeps, CoreStopsKeeps DEF ThreadStep
    <2>5. ASSUME NEW v \in Views, LoopEnds(v) \/ ReceiveResult(v)
          PROVE  IInv'
      BY <2>5, LoopEndsKeeps, ReceiveResultKeeps
    <2>6. ASSUME NEW c \in Callers, CallShutdown(c)
          PROVE  IInv'
      BY <2>6, CallShutdownKeeps
    <2>7. CASE UNCHANGED vars
      BY <2>7, StutterIInv
    <2>. QED
      BY <2>1, <2>2, <2>3, <2>4, <2>5, <2>6, <2>7 DEF Next
  <1>. QED
    BY <1>1, <1>2, PTL DEF Spec

\* The state stays well-typed, whoever calls Shutdown: refs in particular never
\* leaves 0 to 2.
THEOREM TypeCorrect == Spec => []TypeOK
  <1>1. IInv => TypeOK
    BY DEF IInv
  <1>. QED
    BY <1>1, Inductive, PTL

\* sharedCombinedCore.refs is the number of views not yet given up.
THEOREM RefsCorrect == Spec => []RefsMatch
  <1>1. IInv => RefsMatch
    BY DEF IInv
  <1>. QED
    BY <1>1, Inductive, PTL

\* Core is shut down once, with its last view and never before.
THEOREM ShutOnceWithLastView == Spec => []CoreUpWhileHeld
  <1>1. IInv => CoreUpWhileHeld
    BY DEF IInv
  <1>. QED
    BY <1>1, Inductive, PTL

\* A view whose Once is done is not held.
LEMMA DoneNotHeld ==
  ASSUME IInv, NEW v \in Views, once[v] = "done"
  PROVE  ~Held(v)
  BY DEF IInv, OnceMatches, Held, Inside, Turn

\* When the Onces of all views are done, Core is down.
LEMMA AllDoneIsDown ==
  ASSUME IInv, views # {}, \A v \in views : once[v] = "done"
  PROVE  core = "down"
  <1>1. \A v \in Views : ~Held(v)
    BY DoneNotHeld DEF Held
  <1>2. core # "up"
    BY <1>1 DEF IInv, CoreUpWhileHeld
  <1>3. \A t \in Threads : pc[t] # "stopping"
    <2>. SUFFICES ASSUME NEW t \in Threads, pc[t] = "stopping"
                  PROVE  FALSE
      OBVIOUS
    <2>1. Turn(t) \in views /\ once[Turn(t)] = "busy"
      BY TurnIsView DEF IInv, OnceMatches, Inside, Pending
    <2>. QED
      BY <2>1
  <1>. QED
    BY <1>2, <1>3 DEF IInv, StoppingMatches, TypeOK

\* A call of Shutdown, and Run, return only when Core is down, and with the
\* error of its shutdown.
THEOREM ErrorReachesEveryone == Spec => []EveryoneHears
  <1>1. IInv => EveryoneHears
    <2>. SUFFICES ASSUME IInv
                  PROVE  EveryoneHears
      OBVIOUS
    <2>1. ASSUME NEW c \in Callers, pc[c] = "done"
          PROVE  core = "down" /\ (heard[c] <=> coreFailed)
      <3>1. /\ \A v \in Views : once[v] = "done"
            /\ heard[c] <=> viewFailed["workflow"] \/ viewFailed["activity"]
        BY <2>1 DEF IInv, HeardMatches
      <3>2. views = Views
        BY <2>1 DEF IInv, MakingMatches
      <3>3. core = "down"
        BY <3>1, <3>2, AllDoneIsDown DEF Views
      <3>. QED
        BY <3>1, <3>3 DEF IInv, ErrorsMatch, Views
    <2>2. ASSUME run = "returned"
          PROVE  core = "down" /\ (runFailed <=> coreFailed)
      <3>1. /\ received = Views
            /\ \A v \in Views : pc[v] = "done"
            /\ runFailed <=> \E v \in Views : viewFailed[v]
        BY <2>2 DEF IInv, RunMatches
      <3>2. (\A v \in Views : once[v] = "done") /\ views = Views
        BY <3>1 DEF IInv, HeardMatches, MakingMatches, Views
      <3>3. core = "down"
        BY <3>2, AllDoneIsDown DEF Views
      <3>. QED
        BY <3>1, <3>3 DEF IInv, ErrorsMatch, Views
    <2>. QED
      BY <2>1, <2>2 DEF EveryoneHears
  <1>. QED
    BY <1>1, Inductive, PTL

\* A constructor that fails leaves no Core behind.
THEOREM FailedNewLeavesNothing == Spec => []NoCoreLeft
  <1>1. IInv => NoCoreLeft
    <2>. SUFFICES ASSUME IInv, made = "failed", pc[Maker] = "done"
                  PROVE  core = "down"
      BY DEF NoCoreLeft
    <2>1. views # {} /\ \A v \in views : once[v] = "done"
      BY DEF IInv, HeardMatches, MakingMatches, Views
    <2>. QED
      BY <2>1, AllDoneIsDown
  <1>. QED
    BY <1>1, Inductive, PTL
=============================================================================
