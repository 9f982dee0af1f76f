--------------------------- MODULE CoreBridgeProofs ---------------------------
(***************************************************************************)
(* Proofs about CoreBridge, for any number of polls, completions,          *)
(* heartbeats and RPCs, any capacities and any faults.                     *)
(***************************************************************************)
EXTENDS CoreBridge, FiniteSetTheorems, TLAPS

\* The owner runs a step for exactly the call that waits for it.
OwnerMatches == \A t \in Threads : pc[t] = "served" <=> owner = t

\* Before newBridge has succeeded nobody else has the bridge, and Shutdown
\* closes it before anything else.
LifeMatches ==
  /\ built = "yes" => pc[Maker] = "returned"
  /\ built # "yes" => \A t \in Threads \ {Maker} : pc[t] = "idle"
  /\ pc[Stopper] # "idle" => closing /\ built = "yes"

\* Who gave the scratch buffers back was the last to use the bridge.
Over ==
  \/ closing /\ pc[Stopper] \in {"finishing", "returned"}
  \/ built # "yes" /\ pc[Maker] \in {"finishing", "returned"}

EndMatches ==
  /\ \A t \in Threads : pc[t] \in {"ending", "releasing", "finishing"} => t \in Enders
  /\ \A t \in Threads : pc[t] = "finishing" => released \/ done # "no"
  /\ released => Over
  /\ done = "stopped" => released
  /\ released \/ done # "no" => owner \notin Threads

CallInv == OwnerMatches /\ LifeMatches /\ EndMatches

Signalled(i) == rpc[responses[i]] # "signalling"

RPCsMatch ==
  /\ \A r \in RPCs : rpc[r] = "none" <=> caller[r] = None
  /\ \A i \in 1 .. Len(responses) : rpc[responses[i]] \in {"signalling", "gone"}

\* What has been signalled since a call looked has taken it out of watching.
WatchMatches ==
  /\ \A t \in watching \ {Stopper} : OperationErr => pc[Stopper] = "closing"
  /\ \A t \in watching :
       pc[t] = "waiting" \/ (owner = t /\ at = "send") =>
         \A i \in 1 .. Len(responses) : ~Signalled(i)

IInv ==
  /\ TypeOK /\ CallInv /\ WatchMatches
  /\ RPCsMatch /\ InFlightMatches /\ PollsMatch
-----------------------------------------------------------------------------
(***************************************************************************)
(* What the steps have in common.                                          *)
(***************************************************************************)
Places == {"idle", "closing", "starting", "looking", "stepping", "served",
           "waiting", "ending", "releasing", "finishing", "returned"}

LEMMA InitInvariant == Init => IInv
<1> SUFFICES ASSUME Init PROVE IInv
  OBVIOUS
<1> USE DEF Init
<1>1. TypeOK
  <2>1. /\ pc \in [Threads -> Places]
        /\ op \in [Threads -> {"none", "active", "ready"}]
        /\ caller \in [RPCs -> Threads \cup {None}]
        /\ rpc \in [RPCs -> {"none", "queued", "flying", "signalling", "gone"}]
    BY DEF Places
  <2>2. /\ responses \in Seq(RPCs) /\ Len(responses) <= ResponseCap
        /\ inFlight \in 0 .. MaxInFlight
    BY BridgeAssumption
  <2> QED
    BY <2>1, <2>2 DEF TypeOK, Places
<1>2. CallInv
  BY BridgeAssumption
  DEF CallInv, OwnerMatches, LifeMatches, EndMatches, Over, Threads, Enders
<1>3. WatchMatches /\ RPCsMatch /\ PollsMatch
  BY BridgeAssumption DEF WatchMatches, RPCsMatch, PollsMatch
<1>4. InFlightMatches
  <2>1. Running = {}
    BY DEF Running
  <2> QED
    BY <2>1, FS_EmptySet DEF InFlightMatches
<1> QED
  BY <1>1, <1>2, <1>3, <1>4 DEF IInv

\* Errs changes the place of t and nothing else of the calls.
LEMMA ErrsEffect ==
  ASSUME TypeOK, NEW t \in Threads, Errs(t)
  PROVE  /\ failed' \in BOOLEAN
         /\ pc' \in [Threads -> Places]
         /\ \A u \in Threads : u # t => pc'[u] = pc[u]
         /\ pc'[t] \in {"returned", "ending", "finishing"}
         /\ pc'[t] \in {"ending", "finishing"} => t \in Enders
         /\ pc'[t] = "finishing" => pc[t] = "releasing"
BY DEF TypeOK, Errs, Places

\* The owner is free after an answer, and the call goes on.
LEMMA AnswerEffect ==
  ASSUME TypeOK, NEW t \in Threads,
         NEW answer \in {"error", "pending", "started", "released", "ready"},
         Answer(t, answer), t \in Enders \/ answer # "released"
  PROVE  /\ owner' = None /\ at' = "take"
         /\ built' = IF t = Maker /\ answer = "ready" THEN "yes" ELSE built
         /\ failed' \in BOOLEAN
         /\ watching' \in {watching, watching \ {t}}
         /\ pc' \in [Threads -> Places]
         /\ \A u \in Threads : u # t => pc'[u] = pc[u]
         /\ pc'[t] \in {"returned", "ending", "finishing", "waiting", "looking", "idle"}
         /\ pc'[t] \in {"ending", "finishing"} => t \in Enders
         /\ pc'[t] = "finishing" => pc[t] = "releasing"  \/ answer = "released"
         /\ pc'[t] = "waiting" => answer = "pending"
         /\ pc'[t] = "idle" => t \in Pollers
         /\ answer = "ready" /\ t = Maker => pc'[t] = "returned"
<1>1. CASE answer = "error"
  <2>1. Errs(t) /\ watching' = watching \ {t}
    BY <1>1 DEF Answer, Fail
  <2> QED
    BY <1>1, <2>1, ErrsEffect DEF Answer
<1>2. CASE answer = "pending"
  BY <1>2 DEF Answer, TypeOK, Places
<1>3. CASE answer = "started"
  BY <1>3 DEF Answer, TypeOK, Places
<1>4. CASE answer = "released"
  BY <1>4 DEF Answer, TypeOK, Places
<1>5. CASE answer = "ready"
  BY <1>5, BridgeAssumption DEF Answer, TypeOK, Places, Enders
<1> QED
  BY <1>1, <1>2, <1>3, <1>4, <1>5

LEMMA CoreGoesOnEffect ==
  ASSUME TypeOK, RPCsMatch, NEW t \in Threads, NEW waiting \in SUBSET RPCs,
         CoreGoesOn(t, waiting)
  PROVE  /\ op' \in [Threads -> {"none", "active", "ready"}]
         /\ \A u \in Threads : op[u] # "none" => op'[u] # "none"
         /\ op'[t] # "none"
         /\ unanswered' \subseteq RPCs
         /\ caller' \in [RPCs -> Threads \cup {None}]
         /\ rpc' \in [RPCs -> {"none", "queued", "flying", "signalling", "gone"}]
         /\ \A r \in RPCs :
              rpc'[r] = rpc[r] \/ (rpc[r] = "none" /\ rpc'[r] = "queued")
         /\ \A r \in RPCs : rpc'[r] = "none" <=> caller'[r] = None
<1>1. ASSUME NEW to \in {"active", "ready"},
             op' = [op EXCEPT ![t] = to], unanswered' = waiting, UNCHANGED <<caller, rpc>>
      PROVE  /\ op' \in [Threads -> {"none", "active", "ready"}]
             /\ \A u \in Threads : op[u] # "none" => op'[u] # "none"
             /\ op'[t] # "none"
             /\ unanswered' \subseteq RPCs
             /\ caller' \in [RPCs -> Threads \cup {None}]
             /\ rpc' \in [RPCs -> {"none", "queued", "flying", "signalling", "gone"}]
             /\ \A x \in RPCs :
                  rpc'[x] = rpc[x] \/ (rpc[x] = "none" /\ rpc'[x] = "queued")
             /\ \A x \in RPCs : rpc'[x] = "none" <=> caller'[x] = None
  BY <1>1 DEF TypeOK, RPCsMatch
<1>2. ASSUME NEW r \in Fresh,
             caller' = [caller EXCEPT ![r] = t],
             rpc' = [rpc EXCEPT ![r] = "queued"],
             unanswered' = waiting \cup {r},
             op' = [op EXCEPT ![t] = "active"]
      PROVE  /\ op' \in [Threads -> {"none", "active", "ready"}]
             /\ \A u \in Threads : op[u] # "none" => op'[u] # "none"
             /\ op'[t] # "none"
             /\ unanswered' \subseteq RPCs
             /\ caller' \in [RPCs -> Threads \cup {None}]
             /\ rpc' \in [RPCs -> {"none", "queued", "flying", "signalling", "gone"}]
             /\ \A x \in RPCs :
                  rpc'[x] = rpc[x] \/ (rpc[x] = "none" /\ rpc'[x] = "queued")
             /\ \A x \in RPCs : rpc'[x] = "none" <=> caller'[x] = None
  <2>1. r \in RPCs /\ caller[r] = None /\ rpc[r] = "none" /\ t # None
    BY BridgeAssumption DEF Fresh, RPCsMatch
  <2> QED
    BY <1>2, <2>1 DEF TypeOK, RPCsMatch
<1> QED
  BY <1>1, <1>2 DEF CoreGoesOn

LEMMA FiniteRunning ==
  IsFiniteSet(Running) /\ Cardinality(Running) \in Nat
<1>1. IsFiniteSet(RPCs)
  BY BridgeAssumption, FS_Interval DEF RPCs
<1>2. Running \subseteq RPCs
  BY DEF Running
<1> QED
  BY <1>1, <1>2, FS_Subset, FS_CardinalityType

\* Where neither Core nor the RPCs move, this much carries over.
LEMMA CallerFrame ==
  ASSUME IInv, UNCHANGED <<coreVars, rpcVars>>, pollStarted' \subseteq pollStarted,
         done # "no" => done' # "no"
  PROVE  RPCsMatch' /\ InFlightMatches' /\ PollsMatch'
<1>1. /\ rpc' = rpc /\ caller' = caller /\ responses' = responses /\ inFlight' = inFlight
      /\ op' = op
  BY DEF coreVars, rpcVars
<1>2. Running' = Running
  BY <1>1 DEF Running
<1> QED
  BY <1>1, <1>2 DEF IInv, RPCsMatch, InFlightMatches, PollsMatch
-----------------------------------------------------------------------------
(***************************************************************************)
(* Steps of a call.                                                        *)
(***************************************************************************)
LEMMA CallStepsPreserve ==
  ASSUME IInv, NEW t \in Threads,
         Call(t) \/ Look(t) \/ GiveUp(t) \/ WaitEnds(t) \/ Release(t)
  PROVE  IInv'
<1>1. /\ UNCHANGED <<bridgeVars, built, ownerVars, coreVars, rpcVars>>
      /\ done' = done /\ closing' = closing /\ cut' = cut /\ cancelled' = cancelled
      /\ built' = built /\ owner' = owner /\ at' = at /\ progressed' = progressed
      /\ pollStarted' = pollStarted /\ released' = released
      /\ op' = op /\ caller' = caller /\ unanswered' = unanswered
      /\ rpc' = rpc /\ inFlight' = inFlight /\ responses' = responses
  BY DEF Call, Look, GiveUp, WaitEnds, Release, bridgeVars, ownerVars, coreVars, rpcVars
<1>2. /\ failed' \in BOOLEAN
      /\ pc' \in [Threads -> Places]
      /\ \A u \in Threads : u # t => pc'[u] = pc[u]
      /\ watching' \in {watching, watching \ {t}, watching \cup {t}}
      /\ t \in watching' => t \in watching \/ t = Stopper \/ ~OperationErr
      /\ pc[t] \notin {"served", "finishing", "returned", "closing"}
      /\ pc'[t] \notin {"served", "waiting", "idle", "closing"}
      /\ pc'[t] \in {"ending", "releasing", "finishing"} => t \in Enders
      /\ pc'[t] = "finishing" => done # "no"
      /\ t = Maker \/ built = "yes"
      /\ t = Stopper => pc[t] # "idle"
  <2> USE DEF TypeOK, IInv
  <2>1. CASE Call(t)
    <3>1. CASE Fail(t)
      BY <2>1, <3>1, ErrsEffect DEF Call, Fail
    <3>2. CASE pc' = [pc EXCEPT ![t] = "starting"] /\ UNCHANGED <<failed, watching>>
      BY <2>1, <3>2 DEF Call, Places
    <3> QED
      BY <2>1, <3>1, <3>2 DEF Call, Enter
  <2>2. t = Maker \/ built = "yes" \/ pc[t] = "idle"
    BY DEF CallInv, LifeMatches
  <2>3. CASE Look(t)
    <3>1. CASE Fail(t)
      BY <2>2, <2>3, <3>1, ErrsEffect DEF Look, Fail
    <3>2. CASE ~Fail(t)
      BY <2>2, <2>3, <3>2 DEF Look, Places, AllowClosed
    <3> QED
      BY <3>1, <3>2
  <2>4. CASE GiveUp(t)
    BY <2>2, <2>4, ErrsEffect DEF GiveUp, Fail, Requests, MayGiveUp
  <2>5. CASE WaitEnds(t)
    <3>1. CASE Fail(t)
      BY <2>2, <2>5, <3>1, ErrsEffect DEF WaitEnds, Fail
    <3>2. CASE ~Fail(t)
      BY <2>2, <2>5, <3>2 DEF WaitEnds, Places
    <3> QED
      BY <3>1, <3>2
  <2>6. CASE Release(t)
    BY <2>2, <2>6 DEF Release, Places, CallInv, EndMatches
  <2> QED
    BY <2>1, <2>3, <2>4, <2>5, <2>6
<1>3. TypeOK'
  BY <1>1, <1>2 DEF IInv, TypeOK, Places
<1>4. CallInv'
  <2>1. OwnerMatches'
    BY <1>1, <1>2 DEF IInv, CallInv, OwnerMatches
  <2>2. LifeMatches'
    <3>1. Maker \in Threads /\ Stopper \in Threads
      BY DEF Threads, Enders
    <3> QED
      BY <1>1, <1>2, <3>1 DEF IInv, CallInv, LifeMatches
  <2>3. Over => Over'
    BY <1>1, <1>2, BridgeAssumption DEF Over, Threads, Enders
  <2>4. EndMatches'
    BY <1>1, <1>2, <2>3 DEF IInv, CallInv, EndMatches
  <2> QED
    BY <2>1, <2>2, <2>4 DEF CallInv
<1>5. WatchMatches'
  <2>1. OperationErr' <=> OperationErr
    BY <1>1 DEF OperationErr
  <2>2. pc[Stopper] = "closing" => pc'[Stopper] = "closing"
    BY <1>2 DEF Threads, Enders
  <2>3. \A u \in watching' : u # t => u \in watching /\ pc'[u] = pc[u]
    BY <1>2 DEF IInv, TypeOK
  <2>4. owner # t
    BY <1>2 DEF IInv, CallInv, OwnerMatches
  <2> QED
    BY <1>1, <1>2, <2>1, <2>2, <2>3, <2>4 DEF IInv, WatchMatches, Signalled
<1>6. RPCsMatch' /\ InFlightMatches' /\ PollsMatch'
  BY <1>1, CallerFrame
<1> QED
  BY <1>3, <1>4, <1>5, <1>6 DEF IInv

LEMMA EndStepsPreserve ==
  ASSUME IInv, BeginShutdown \/ SignalClosing \/ CancelContext
               \/ \E t \in Threads : Finish(t)
  PROVE  IInv'
<1>1. /\ UNCHANGED <<ownerVars, coreVars, rpcVars>>
      /\ owner' = owner /\ at' = at /\ progressed' = progressed
      /\ pollStarted' = pollStarted /\ released' = released
      /\ op' = op /\ caller' = caller /\ unanswered' = unanswered
      /\ rpc' = rpc /\ inFlight' = inFlight /\ responses' = responses
  BY DEF BeginShutdown, SignalClosing, CancelContext, Finish, ownerVars, coreVars, rpcVars,
         callVars
<1>2. Stopper \in Threads /\ Maker \in Threads /\ Maker # Stopper
  BY BridgeAssumption DEF Threads, Enders
<1>3. CASE CancelContext
  <2>1. /\ cancelled' = TRUE /\ closing' = closing /\ done' = done /\ cut' = cut
        /\ built' = built /\ pc' = pc /\ failed' = failed /\ watching' = watching
    BY <1>3 DEF CancelContext, callVars
  <2>2. TypeOK' /\ CallInv'
    BY <1>1, <2>1 DEF IInv, TypeOK, CallInv, OwnerMatches, LifeMatches, EndMatches, Over
  <2>3. WatchMatches'
    BY <1>1, <2>1 DEF IInv, WatchMatches, Signalled, OperationErr
  <2> QED
    BY <1>1, <2>1, <2>2, <2>3, CallerFrame DEF IInv
<1>4. CASE BeginShutdown
  <2>1. /\ pc[Stopper] = "idle" /\ built = "yes" /\ closing' = TRUE /\ cut' = TRUE
        /\ pc' = [pc EXCEPT ![Stopper] = "closing"]
        /\ built' = built /\ done' = done /\ cancelled' = cancelled
        /\ failed' = failed /\ watching' = watching
    BY <1>4 DEF BeginShutdown
  <2>2. TypeOK'
    BY <1>1, <2>1 DEF IInv, TypeOK
  <2>3. CallInv'
    BY <1>1, <1>2, <2>1
    DEF IInv, TypeOK, CallInv, OwnerMatches, LifeMatches, EndMatches, Over
  <2>4. WatchMatches'
    BY <1>1, <1>2, <2>1 DEF IInv, TypeOK, WatchMatches, Signalled, OperationErr
  <2> QED
    BY <1>1, <2>1, <2>2, <2>3, <2>4, CallerFrame DEF IInv
<1>5. CASE SignalClosing
  <2>1. /\ pc[Stopper] = "closing" /\ watching' = {}
        /\ pc' = [pc EXCEPT ![Stopper] = "starting"]
        /\ built' = built /\ done' = done /\ cancelled' = cancelled /\ closing' = closing
        /\ cut' = cut /\ failed' = failed
    BY <1>5 DEF SignalClosing, SignalWake, bridgeVars
  <2>2. TypeOK' /\ WatchMatches'
    <3>1. pc' \in [Threads -> Places]
      BY <2>1 DEF IInv, TypeOK, Places
    <3>2. TypeOK'
      BY <1>1, <2>1, <3>1 DEF IInv, TypeOK, Places
    <3> QED
      BY <2>1, <3>2 DEF WatchMatches
  <2>3. CallInv'
    BY <1>1, <1>2, <2>1
    DEF IInv, TypeOK, CallInv, OwnerMatches, LifeMatches, EndMatches, Over
  <2> QED
    BY <1>1, <2>1, <2>2, <2>3, CallerFrame DEF IInv
<1>6. ASSUME NEW t \in Threads, Finish(t) PROVE IInv'
  <2>1. /\ pc[t] = "finishing" /\ watching' = {} /\ cut' = TRUE
        /\ pc' = [pc EXCEPT ![t] = "returned"]
        /\ closing' = closing /\ cancelled' = cancelled /\ failed' = failed
        /\ built' = IF t = Maker THEN "failed" ELSE built
        /\ done' = IF done # "no" THEN done
                   ELSE IF t = Stopper /\ ~failed THEN "stopped" ELSE "broken"
    BY <1>6 DEF Finish, SignalWake
  <2>2. TypeOK' /\ WatchMatches'
    BY <1>1, <2>1 DEF IInv, TypeOK, WatchMatches
  <2>3. /\ t \in Enders
        /\ released \/ done # "no"
        /\ owner \notin Threads
        /\ t = Maker => built # "yes"
    BY <2>1 DEF IInv, CallInv, EndMatches, LifeMatches
  <2>4. OwnerMatches'
    BY <1>1, <2>1 DEF IInv, TypeOK, CallInv, OwnerMatches
  <2>5. LifeMatches'
    BY <1>2, <2>1, <2>3 DEF IInv, TypeOK, CallInv, LifeMatches
  <2>6. Over => Over'
    BY <1>2, <2>1, <2>3 DEF IInv, TypeOK, Over
  <2>7. EndMatches'
    BY <1>1, <2>1, <2>3, <2>6 DEF IInv, TypeOK, CallInv, EndMatches
  <2>8. done # "no" => done' # "no"
    BY <2>1
  <2> QED
    BY <1>1, <2>2, <2>4, <2>5, <2>7, <2>8, CallerFrame DEF IInv, CallInv
<1> QED
  BY <1>3, <1>4, <1>5, <1>6
-----------------------------------------------------------------------------
(***************************************************************************)
(* Steps of the owner.                                                     *)
(***************************************************************************)
NoneSignalled == \A i \in 1 .. Len(responses) : ~Signalled(i)

\* An RPC in the channel is past the point where the owner could touch it.
LEMMA ResponsesKept ==
  ASSUME TypeOK, RPCsMatch,
         \A r \in RPCs : rpc'[r] = rpc[r] \/ rpc[r] \in {"none", "queued", "flying"},
         responses' = responses \/ (responses # <<>> /\ responses' = Tail(responses))
  PROVE  /\ responses' \in Seq(RPCs) /\ Len(responses') <= ResponseCap
         /\ \A i \in 1 .. Len(responses') : rpc'[responses'[i]] \in {"signalling", "gone"}
         /\ NoneSignalled => NoneSignalled'
<1>1. /\ responses \in Seq(RPCs) /\ Len(responses) <= ResponseCap /\ Len(responses) \in Nat
      /\ ResponseCap \in Nat
      /\ \A i \in 1 .. Len(responses) : /\ responses[i] \in RPCs
                                        /\ rpc'[responses[i]] = rpc[responses[i]]
                                        /\ rpc'[responses[i]] \in {"signalling", "gone"}
  BY BridgeAssumption DEF TypeOK, RPCsMatch
<1>2. CASE responses' = responses
  BY <1>1, <1>2 DEF NoneSignalled, Signalled
<1>3. CASE responses # <<>> /\ responses' = Tail(responses)
  <2>1. /\ responses' \in Seq(RPCs) /\ Len(responses') = Len(responses) - 1
        /\ \A i \in 1 .. Len(responses') :
             i + 1 \in 1 .. Len(responses) /\ responses'[i] = responses[i + 1]
    BY <1>1, <1>3
  <2>2. ASSUME NEW i \in 1 .. Len(responses')
        PROVE  \E k \in 1 .. Len(responses) : responses'[i] = responses[k]
    BY <2>1
  <2>3. \A i \in 1 .. Len(responses') : rpc'[responses'[i]] \in {"signalling", "gone"}
    BY <1>1, <2>2
  <2>4. ASSUME NoneSignalled, NEW i \in 1 .. Len(responses')
        PROVE  rpc'[responses'[i]] = "signalling"
    <3>1. PICK k \in 1 .. Len(responses) : responses'[i] = responses[k]
      BY <2>2
    <3> QED
      BY <1>1, <2>4, <3>1 DEF NoneSignalled, Signalled
  <2>5. Len(responses') <= ResponseCap
    BY <1>1, <2>1
  <2> QED
    BY <2>1, <2>3, <2>4, <2>5 DEF NoneSignalled, Signalled
<1> QED
  BY <1>2, <1>3

\* The owner answers t, whose step or request it has.
LEMMA AnswerFrame ==
  ASSUME IInv, NEW t \in Threads,
         NEW answer \in {"error", "pending", "started", "released", "ready"},
         Answer(t, answer), t \in Enders \/ answer # "released",
         UNCHANGED bridgeVars,
         owner = t \/ (owner = None /\ pc[t] \in Requests),
         released' = released \/ (answer = "released" /\ released'),
         answer = "released" => released',
         answer = "ready" => owner = t,
         pc[t] = "releasing" /\ answer # "released" => done # "no",
         answer = "pending" /\ t \in watching => NoneSignalled,
         NoneSignalled => NoneSignalled'
  PROVE  CallInv' /\ WatchMatches'
<1>1. /\ owner' = None /\ at' = "take"
      /\ built' = IF t = Maker /\ answer = "ready" THEN "yes" ELSE built
      /\ watching' \in {watching, watching \ {t}}
      /\ \A u \in Threads : u # t => pc'[u] = pc[u]
      /\ pc'[t] \in {"returned", "ending", "finishing", "waiting", "looking", "idle"}
      /\ pc'[t] \in {"ending", "finishing"} => t \in Enders
      /\ pc'[t] = "finishing" => pc[t] = "releasing" \/ answer = "released"
      /\ pc'[t] = "waiting" => answer = "pending"
      /\ pc'[t] = "idle" => t \in Pollers
      /\ answer = "ready" /\ t = Maker => pc'[t] = "returned"
      /\ answer = "released" => pc'[t] = "finishing"
  <2>1. answer = "released" => pc'[t] = "finishing"
    BY DEF Answer, IInv, TypeOK
  <2> QED
    BY <2>1, AnswerEffect DEF IInv
<1>2. closing' = closing /\ done' = done
  BY DEF bridgeVars
<1>3. /\ pc[t] \in Requests \cup {"served"}
      /\ Maker \in Threads /\ Stopper \in Threads /\ Maker # Stopper
      /\ None \notin Threads /\ Maker \notin Pollers /\ Stopper \notin Pollers
  BY BridgeAssumption DEF IInv, CallInv, OwnerMatches, Threads, Enders
<1>4. /\ t = Maker => built # "yes"
      /\ t # Maker => built = "yes"
      /\ t = Stopper => closing
      /\ \A u \in Threads : pc[u] = "served" <=> owner = u
  BY <1>3 DEF IInv, CallInv, LifeMatches, OwnerMatches, Requests
<1>5. OwnerMatches'
  BY <1>1, <1>3, <1>4 DEF OwnerMatches
<1>6. LifeMatches'
  BY <1>1, <1>2, <1>3, <1>4 DEF IInv, CallInv, LifeMatches, Requests
<1>7. released' => Over'
  <2>1. CASE answer = "released"
    BY <1>1, <1>2, <1>4, <2>1 DEF Over, Enders
  <2>2. CASE answer # "released" /\ released
    <3>1. Over /\ owner \notin Threads
      BY <2>2 DEF IInv, CallInv, EndMatches
    <3>2. CASE closing /\ pc[Stopper] \in {"finishing", "returned"}
      BY <1>1, <1>2, <1>3, <3>2 DEF Over, Requests
    <3>3. CASE built # "yes" /\ pc[Maker] \in {"finishing", "returned"}
      BY <1>1, <1>3, <3>3 DEF Over, Requests
    <3> QED
      BY <3>1, <3>2, <3>3 DEF Over
  <2> QED
    BY <2>1, <2>2
<1>8. EndMatches'
  BY <1>1, <1>2, <1>3, <1>7 DEF IInv, CallInv, EndMatches
<1>9. WatchMatches'
  <2>1. pc[Stopper] = "closing" => pc'[Stopper] = "closing"
    BY <1>1, <1>3 DEF Requests
  <2>2. \A u \in watching' : u \in watching /\ u \in Threads
    BY <1>1 DEF IInv, TypeOK
  <2>3. ASSUME NEW u \in watching', pc'[u] = "waiting" PROVE NoneSignalled'
    BY <1>1, <2>2, <2>3 DEF IInv, WatchMatches, NoneSignalled
  <2> QED
    BY <1>1, <1>2, <1>3, <2>1, <2>2, <2>3 DEF IInv, WatchMatches, OperationErr, NoneSignalled
<1> QED
  BY <1>5, <1>6, <1>8, <1>9 DEF CallInv

\* The owner goes on with a step without answering.
LEMMA StepFrame ==
  ASSUME IInv, UNCHANGED <<bridgeVars, callVars, owner, released>>,
         at' = "send" => at = "send" \/ responses' = <<>>,
         NoneSignalled => NoneSignalled'
  PROVE  CallInv' /\ WatchMatches'
<1>1. /\ built' = built /\ pc' = pc /\ watching' = watching /\ closing' = closing
      /\ done' = done /\ owner' = owner /\ released' = released
  BY DEF bridgeVars, callVars
<1>2. CallInv'
  BY <1>1 DEF IInv, CallInv, OwnerMatches, LifeMatches, EndMatches, Over
<1>3. OperationErr' <=> OperationErr
  BY <1>1 DEF OperationErr
<1>4. responses' = <<>> => NoneSignalled'
  <2>1. 1 .. Len(<<>>) = {}
    OBVIOUS
  <2> QED
    BY <2>1 DEF NoneSignalled
<1>5. WatchMatches'
  BY <1>1, <1>3, <1>4 DEF IInv, WatchMatches, NoneSignalled
<1> QED
  BY <1>2, <1>5

\* Once the bridge is done or the scratch buffers are back, the owner has no
\* step and begins none.
LEMMA OwnerFacts ==
  ASSUME IInv, NEW t \in Threads
  PROVE  /\ owner = t => done = "no" /\ ~released /\ pc[t] = "served"
         /\ Takes(t) => owner = None /\ pc[t] \in Requests
         /\ Runs(t, "starting") \/ Runs(t, "stepping") => done = "no" /\ ~released
         /\ Runs(t, "releasing") => t \in Enders
<1>1. owner = t => done = "no" /\ ~released /\ pc[t] = "served"
  BY DEF IInv, CallInv, OwnerMatches, EndMatches
<1>2. Takes(t) => owner = None /\ pc[t] \in Requests
  BY DEF Takes
<1>3. Runs(t, "releasing") => t \in Enders
  BY DEF Runs, IInv, CallInv, EndMatches
<1>4. ASSUME Runs(t, "starting") \/ Runs(t, "stepping")
      PROVE  done = "no" /\ ~released
  <2>1. pc[t] \in {"starting", "stepping"} /\ (t = Stopper => done # "broken")
        /\ (t # Stopper => ~OperationErr)
    BY <1>4 DEF Runs, Refused, AllowClosed
  <2>2. ASSUME released PROVE FALSE
    <3>1. Over
      BY <2>2 DEF IInv, CallInv, EndMatches
    <3>2. t = Maker \/ built = "yes"
      BY <2>1 DEF IInv, CallInv, LifeMatches
    <3> QED
      BY <2>1, <3>1, <3>2 DEF Over, OperationErr
  <2>3. done \in {"no", "stopped", "broken"} /\ (done = "stopped" => released)
    BY DEF IInv, TypeOK, CallInv, EndMatches
  <2> QED
    BY <2>1, <2>2, <2>3 DEF OperationErr
<1> QED
  BY <1>1, <1>2, <1>3, <1>4

\* The types of what only the calls and the owner's control write.
LEMMA AnswerTypes ==
  ASSUME TypeOK, NEW t \in Threads,
         NEW answer \in {"error", "pending", "started", "released", "ready"},
         Answer(t, answer), t \in Enders \/ answer # "released",
         UNCHANGED bridgeVars, progressed' \in BOOLEAN, released' \in BOOLEAN,
         pollStarted' \subseteq Pollers,
         op' \in [Threads -> {"none", "active", "ready"}],
         caller' \in [RPCs -> Threads \cup {None}],
         rpc' \in [RPCs -> {"none", "queued", "flying", "signalling", "gone"}],
         unanswered' \subseteq RPCs,
         responses' \in Seq(RPCs), Len(responses') <= ResponseCap,
         inFlight' \in 0 .. MaxInFlight
  PROVE  TypeOK'
<1>1. /\ owner' = None /\ at' = "take"
      /\ built' \in {"yes", built}
      /\ failed' \in BOOLEAN
      /\ watching' \subseteq Threads
      /\ pc' \in [Threads -> Places]
  <2>1. watching' \in {watching, watching \ {t}}
    BY AnswerEffect
  <2> QED
    BY <2>1, AnswerEffect DEF TypeOK
<1> QED
  BY <1>1 DEF TypeOK, bridgeVars, Places

LEMMA RefusalsPreserve ==
  ASSUME IInv, NEW t \in Threads, Refuse(t) \/ StartFails(t) \/ RunRelease(t)
  PROVE  IInv'
<1>1. PICK answer \in {"error", "released"} :
        /\ Answer(t, answer)
        /\ Takes(t)
        /\ answer = "released" <=> RunRelease(t)
        /\ answer = "released" => Runs(t, "releasing")
        /\ released' = released \/ (answer = "released" /\ released')
        /\ answer = "released" => released'
        /\ released' \in BOOLEAN
        /\ pc[t] = "releasing" /\ answer # "released" => done # "no"
        /\ UNCHANGED <<bridgeVars, progressed, pollStarted, coreVars, rpcVars>>
  <2>1. CASE RunRelease(t)
    BY <2>1 DEF RunRelease, Runs
  <2>2. CASE Refuse(t)
    BY <2>2 DEF Refuse, Refused, AllowClosed, Takes, RunRelease, Runs, IInv, TypeOK
  <2>3. CASE StartFails(t)
    BY <2>3 DEF StartFails, Runs, RunRelease, IInv, TypeOK
  <2> QED
    BY <2>1, <2>2, <2>3
<1>2. /\ t \in Enders \/ answer # "released"
      /\ owner = None /\ pc[t] \in Requests
  BY <1>1, OwnerFacts
<1>3. /\ responses' = responses /\ rpc' = rpc /\ inFlight' = inFlight
      /\ op' = op /\ caller' = caller /\ unanswered' = unanswered
      /\ NoneSignalled => NoneSignalled'
      /\ done' = done
  BY <1>1 DEF rpcVars, coreVars, bridgeVars, NoneSignalled, Signalled
<1>4. CallInv' /\ WatchMatches'
  BY <1>1, <1>2, <1>3, AnswerFrame
<1>5. TypeOK'
  BY <1>1, <1>2, <1>3, AnswerTypes DEF IInv, TypeOK
<1> QED
  BY <1>1, <1>3, <1>4, <1>5, CallerFrame DEF IInv

LEMMA StartPreserves ==
  ASSUME IInv, NEW t \in Threads, RunStart(t)
  PROVE  IInv'
<1>1. /\ Runs(t, "starting") /\ Takes(t) /\ Answer(t, "started")
      /\ UNCHANGED bridgeVars /\ done' = done
      /\ progressed' = progressed /\ released' = released /\ inFlight' = inFlight
      /\ responses' = responses
  BY DEF RunStart, Runs, bridgeVars
<1>2. /\ op' \in [Threads -> {"none", "active", "ready"}]
      /\ \A u \in Threads : op[u] # "none" => op'[u] # "none"
      /\ pollStarted' = pollStarted \/ (pollStarted' \subseteq pollStarted \cup {t} /\ op'[t] # "none")
      /\ pollStarted' \subseteq Pollers
      /\ unanswered' \subseteq RPCs
      /\ caller' \in [RPCs -> Threads \cup {None}]
      /\ rpc' \in [RPCs -> {"none", "queued", "flying", "signalling", "gone"}]
      /\ \A r \in RPCs : rpc'[r] = rpc[r] \/ (rpc[r] = "none" /\ rpc'[r] = "queued")
      /\ \A r \in RPCs : rpc'[r] = "none" <=> caller'[r] = None
  <2>1. CASE UNCHANGED <<pollStarted, coreVars, rpc>>
    BY <2>1 DEF IInv, TypeOK, RPCsMatch, coreVars
  <2>2. CASE CoreGoesOn(t, unanswered) /\ pollStarted' = pollStarted \cup ({t} \cap Pollers)
    <3>1. unanswered \in SUBSET RPCs /\ TypeOK /\ RPCsMatch
      BY DEF IInv, TypeOK
    <3>2. pollStarted' \subseteq Pollers /\ pollStarted' \subseteq pollStarted \cup {t}
      BY <2>2 DEF IInv, TypeOK
    <3> QED
      BY <2>2, <3>1, <3>2, CoreGoesOnEffect
  <2> QED
    BY <2>1, <2>2 DEF RunStart
<1>3. /\ \A i \in 1 .. Len(responses') : rpc'[responses'[i]] \in {"signalling", "gone"}
      /\ NoneSignalled => NoneSignalled'
  BY <1>1, <1>2, ResponsesKept DEF IInv
<1>4. CallInv' /\ WatchMatches'
  <2>1. owner = None /\ pc[t] \in Requests /\ pc[t] = "starting"
    BY <1>1, OwnerFacts DEF Runs
  <2> QED
    BY <1>1, <1>3, <2>1, AnswerFrame
<1>5. TypeOK'
  BY <1>1, <1>2, AnswerTypes DEF IInv, TypeOK
<1>6. InFlightMatches'
  <2>1. Running' = Running
    BY <1>2 DEF Running
  <2> QED
    BY <1>1, <2>1 DEF IInv, InFlightMatches
<1>7. PollsMatch'
  <2>1. pollStarted \subseteq Threads
    BY DEF IInv, TypeOK, Threads
  <2> QED
    BY <1>2, <2>1 DEF IInv, PollsMatch
<1> QED
  BY <1>2, <1>3, <1>4, <1>5, <1>6, <1>7 DEF IInv, RPCsMatch

LEMMA BeginStepPreserves ==
  ASSUME IInv, NEW t \in Threads, BeginStep(t)
  PROVE  IInv'
<1>1. /\ Runs(t, "stepping") /\ owner = None /\ pc[t] = "stepping" /\ done = "no" /\ ~released
      /\ owner' = t /\ at' = "take" /\ pc' = [pc EXCEPT ![t] = "served"]
      /\ UNCHANGED <<bridgeVars, built, failed, watching, progressed, pollStarted, released,
                     coreVars, rpcVars>>
      /\ closing' = closing /\ done' = done
  BY OwnerFacts DEF BeginStep, Runs, Takes, bridgeVars
<1>2. None \notin Threads /\ Maker \in Threads /\ Stopper \in Threads
  BY BridgeAssumption DEF Threads, Enders
<1>3. /\ pc' \in [Threads -> Places] /\ pc'[t] = "served"
      /\ \A u \in Threads : u # t => pc'[u] = pc[u]
  BY <1>1 DEF IInv, TypeOK, Places
<1>4. TypeOK'
  BY <1>1, <1>3 DEF IInv, TypeOK, Places, bridgeVars, coreVars, rpcVars
<1>5. OwnerMatches'
  BY <1>1, <1>2, <1>3 DEF IInv, CallInv, OwnerMatches
<1>6. LifeMatches'
  BY <1>1, <1>2, <1>3 DEF IInv, CallInv, LifeMatches
<1>7. EndMatches'
  BY <1>1, <1>3 DEF IInv, CallInv, EndMatches
<1>8. WatchMatches'
  <2>1. /\ OperationErr' <=> OperationErr
        /\ pc[Stopper] = "closing" => pc'[Stopper] = "closing"
        /\ NoneSignalled' <=> NoneSignalled
    BY <1>1, <1>2, <1>3 DEF OperationErr, NoneSignalled, Signalled, rpcVars
  <2>2. watching' = watching /\ watching \subseteq Threads
    BY <1>1 DEF IInv, TypeOK
  <2> QED
    BY <1>1, <1>3, <2>1, <2>2 DEF IInv, WatchMatches, NoneSignalled
<1> QED
  BY <1>1, <1>4, <1>5, <1>6, <1>7, <1>8, CallerFrame DEF IInv, CallInv

\* A take export, whether it brings the result, an error or nothing yet, and
\* a poll for which Core has a task.
LEMMA TakesPreserve ==
  ASSUME IInv, NEW t \in Threads,
         TakeResult(t) \/ TakeFails(t) \/ TakePending(t) \/ CorePrepares(t)
  PROVE  IInv'
<1>1. /\ UNCHANGED <<bridgeVars, released, caller, unanswered, rpcVars>>
      /\ responses' = responses /\ rpc' = rpc /\ inFlight' = inFlight /\ done' = done
      /\ released' = released
  BY DEF TakeResult, TakeFails, StepFails, TakePending, CorePrepares, rpcVars, bridgeVars,
         coreVars, ownerVars
<1>2. NoneSignalled => NoneSignalled'
  BY <1>1 DEF NoneSignalled, Signalled
<1>3. RPCsMatch' /\ InFlightMatches'
  BY <1>1 DEF IInv, RPCsMatch, InFlightMatches, Running
<1>4. CASE TakeResult(t) \/ TakeFails(t)
  <2>1. PICK answer \in {"ready", "error"} : Answer(t, answer)
    BY <1>4 DEF TakeResult, TakeFails, StepFails
  <2>2. /\ owner = t /\ progressed' = progressed
        /\ op' = [op EXCEPT ![t] = "none"]
        /\ pollStarted' = pollStarted \ {t}
    BY <1>4 DEF TakeResult, TakeFails, StepFails, Serving, EndsPoll
  <2>3. pc[t] = "served"
    BY <2>2, OwnerFacts
  <2>4. CallInv' /\ WatchMatches'
    BY <1>1, <1>2, <2>1, <2>2, <2>3, AnswerFrame
  <2>5. TypeOK'
    BY <1>1, <2>1, <2>2, AnswerTypes DEF IInv, TypeOK
  <2>6. PollsMatch'
    BY <2>2 DEF IInv, TypeOK, PollsMatch, Threads
  <2> QED
    BY <1>3, <2>4, <2>5, <2>6 DEF IInv
<1>5. CASE TakePending(t) \/ CorePrepares(t)
  <2>1. /\ UNCHANGED <<bridgeVars, callVars, owner, released>>
        /\ at' \in {"receive", at} /\ pollStarted' = pollStarted
        /\ progressed' \in BOOLEAN
        /\ op' \in {op, [op EXCEPT ![t] = "ready"]}
    BY <1>5 DEF TakePending, CorePrepares, ownerVars, coreVars, IInv, TypeOK
  <2>2. CallInv' /\ WatchMatches'
    BY <1>2, <2>1, StepFrame
  <2>3. TypeOK'
    <3>1. op' \in [Threads -> {"none", "active", "ready"}]
      BY <2>1 DEF IInv, TypeOK
    <3> QED
      BY <1>1, <2>1, <3>1 DEF IInv, TypeOK, bridgeVars, callVars
  <2>4. PollsMatch'
    <3>1. \A u \in Threads : op'[u] = op[u] \/ op'[u] = "ready"
      BY <2>1 DEF IInv, TypeOK
    <3>2. pollStarted \subseteq Threads
      BY DEF IInv, TypeOK, Threads
    <3> QED
      BY <2>1, <3>1, <3>2 DEF IInv, PollsMatch
  <2> QED
    BY <1>3, <2>2, <2>3, <2>4 DEF IInv
<1> QED
  BY <1>4, <1>5

\* A response is taken out of the channel, whether Core can read it or not.
LEMMA ReceivePreserves ==
  ASSUME IInv, NEW t \in Threads, ReceiveResponse(t) \/ ResponseFails(t)
  PROVE  IInv'
<1>1. /\ owner = t /\ at = "receive" /\ responses # <<>>
      /\ responses' = Tail(responses) /\ inFlight' = inFlight - 1
      /\ UNCHANGED bridgeVars /\ done' = done /\ released' = released
  BY DEF ReceiveResponse, ResponseFails, StepFails, Serving, OneLess, bridgeVars
<1>2. done = "no" /\ pc[t] = "served"
  BY <1>1, OwnerFacts
<1>3. PICK r \in RPCs : r = Head(responses) /\ rpc[r] \in {"signalling", "gone"}
  <2>1. 1 \in 1 .. Len(responses) /\ responses[1] = Head(responses) /\ responses[1] \in RPCs
    BY <1>1 DEF IInv, TypeOK
  <2> QED
    BY <2>1 DEF IInv, RPCsMatch
<1>4. caller[r] \in Threads
  BY <1>3 DEF IInv, RPCsMatch, TypeOK
<1>5. /\ op' \in [Threads -> {"none", "active", "ready"}]
      /\ \A u \in Threads : op[u] # "none" => op'[u] # "none"
      /\ unanswered' \subseteq RPCs
      /\ caller' \in [RPCs -> Threads \cup {None}]
      /\ rpc' \in [RPCs -> {"none", "queued", "flying", "signalling", "gone"}]
      /\ \A x \in RPCs : rpc'[x] = rpc[x] \/ (rpc[x] = "none" /\ rpc'[x] = "queued")
      /\ \A x \in RPCs : rpc'[x] = "none" <=> caller'[x] = None
  <2>1. CASE UNCHANGED <<op, caller, rpc>> /\ unanswered' \in {unanswered, unanswered \ {r}}
    BY <2>1 DEF IInv, TypeOK, RPCsMatch
  <2>2. CASE CoreGoesOn(caller[r], unanswered \ {r})
    <3>1. unanswered \ {r} \in SUBSET RPCs /\ TypeOK /\ RPCsMatch
      BY DEF IInv, TypeOK
    <3> QED
      BY <1>4, <2>2, <3>1, CoreGoesOnEffect
  <2> QED
    BY <1>3, <2>1, <2>2 DEF ReceiveResponse, ResponseFails, coreVars
<1>6. /\ responses' \in Seq(RPCs) /\ Len(responses') <= ResponseCap
      /\ \A i \in 1 .. Len(responses') : rpc'[responses'[i]] \in {"signalling", "gone"}
      /\ NoneSignalled => NoneSignalled'
  BY <1>1, <1>5, ResponsesKept DEF IInv
<1>7. /\ InFlightMatches'
      /\ inFlight' \in 0 .. MaxInFlight
  <2>1. Running' = Running
    BY <1>5 DEF Running
  <2>2. /\ Len(responses') = Len(responses) - 1 /\ Len(responses) \in Nat \ {0}
        /\ inFlight = Cardinality(Running) + Len(responses)
        /\ inFlight \in 0 .. MaxInFlight /\ MaxInFlight \in Nat
    BY <1>1, <1>2, BridgeAssumption DEF IInv, TypeOK, InFlightMatches
  <2> QED
    BY <1>1, <2>1, <2>2, FiniteRunning DEF InFlightMatches
<1>8. PollsMatch' /\ CallInv' /\ WatchMatches' /\ TypeOK'
  <2>1. pollStarted \subseteq Threads /\ pollStarted \subseteq Pollers
    BY DEF IInv, TypeOK, Threads
  <2>2. CASE ReceiveResponse(t)
    <3>1. /\ UNCHANGED <<bridgeVars, callVars, owner, released>> /\ at' = at
          /\ pollStarted' = pollStarted /\ progressed' = TRUE
      BY <2>2 DEF ReceiveResponse
    <3>2. CallInv' /\ WatchMatches'
      BY <1>1, <1>6, <3>1, StepFrame
    <3>3. TypeOK'
      BY <1>5, <1>6, <1>7, <3>1 DEF IInv, TypeOK, bridgeVars, callVars
    <3> QED
      BY <1>5, <2>1, <3>1, <3>2, <3>3 DEF IInv, PollsMatch
  <2>3. CASE ResponseFails(t)
    <3>1. /\ Answer(t, "error") /\ pollStarted' = pollStarted \ {t} /\ progressed' = progressed
      BY <2>3 DEF ResponseFails, StepFails, EndsPoll
    <3>2. CallInv' /\ WatchMatches'
      BY <1>1, <1>2, <1>6, <3>1, AnswerFrame
    <3>3. /\ progressed' \in BOOLEAN /\ released' \in BOOLEAN /\ pollStarted' \subseteq Pollers
      BY <1>1, <2>1, <3>1 DEF IInv, TypeOK
    <3>4. TypeOK'
      BY <1>1, <1>5, <1>6, <1>7, <3>1, <3>3, AnswerTypes DEF IInv
    <3> QED
      BY <1>5, <2>1, <3>1, <3>2, <3>4 DEF IInv, PollsMatch
  <2> QED
    BY <2>2, <2>3
<1> QED
  BY <1>5, <1>6, <1>7, <1>8 DEF IInv, RPCsMatch

\* A request of Core goes out, or cannot be decoded.
LEMMA SendPreserves ==
  ASSUME IInv, NEW t \in Threads, SendRequest(t) \/ RequestFails(t)
  PROVE  IInv'
<1>1. /\ owner = t /\ inFlight < MaxInFlight
      /\ at = "send" \/ responses = <<>>
      /\ responses' = responses
      /\ UNCHANGED <<bridgeVars, released, coreVars>> /\ done' = done /\ released' = released
      /\ op' = op /\ caller' = caller /\ unanswered' = unanswered
  BY DEF SendRequest, RequestFails, StepFails, Sending, Serving, MayStart, bridgeVars, coreVars
<1>2. done = "no" /\ pc[t] = "served"
  BY <1>1, OwnerFacts
<1>3. PICK r \in Queued, to \in {"flying", "gone"} :
        /\ rpc' = [rpc EXCEPT ![r] = to]
        /\ to = "flying" <=> SendRequest(t)
  <2>1. CASE SendRequest(t)
    BY <2>1 DEF SendRequest
  <2>2. CASE ~SendRequest(t)
    BY <2>2 DEF RequestFails
  <2> QED
    BY <2>1, <2>2
<1>4. /\ rpc' \in [RPCs -> {"none", "queued", "flying", "signalling", "gone"}]
      /\ r \in RPCs /\ rpc[r] = "queued" /\ rpc'[r] = to
      /\ \A x \in RPCs : x # r => rpc'[x] = rpc[x]
  BY <1>3 DEF IInv, TypeOK, Queued
<1>5. /\ \A i \in 1 .. Len(responses') : rpc'[responses'[i]] \in {"signalling", "gone"}
      /\ NoneSignalled => NoneSignalled'
  BY <1>1, <1>4, ResponsesKept DEF IInv
<1>6. RPCsMatch'
  BY <1>1, <1>4, <1>5 DEF IInv, RPCsMatch
<1>7. inFlight \in 0 .. MaxInFlight /\ inFlight = Cardinality(Running) + Len(responses)
  BY <1>2 DEF IInv, TypeOK, InFlightMatches
<1>8. CASE SendRequest(t)
  <2>1. /\ UNCHANGED <<bridgeVars, callVars, owner, released>> /\ at' = "send"
        /\ pollStarted' = pollStarted /\ progressed' = progressed
        /\ inFlight' = inFlight + 1
    BY <1>8 DEF SendRequest
  <2>2. CallInv' /\ WatchMatches'
    BY <1>1, <1>5, <2>1, StepFrame
  <2>3. InFlightMatches'
    <3>1. Running' = Running \cup {r} /\ r \notin Running
      BY <1>3, <1>4, <1>8 DEF Running
    <3>2. Cardinality(Running \cup {r}) = Cardinality(Running) + 1
      BY <3>1, FiniteRunning, FS_AddElement
    <3>3. Len(responses) \in Nat
      BY DEF IInv, TypeOK
    <3> QED
      BY <1>1, <1>7, <2>1, <3>1, <3>2, <3>3, FiniteRunning DEF InFlightMatches
  <2>4. inFlight' \in 0 .. MaxInFlight
    BY <1>1, <1>7, <2>1, BridgeAssumption
  <2>5. TypeOK'
    BY <1>1, <1>4, <2>1, <2>4 DEF IInv, TypeOK, bridgeVars, callVars
  <2>6. PollsMatch'
    BY <1>1, <2>1 DEF IInv, PollsMatch
  <2> QED
    BY <1>6, <2>2, <2>3, <2>5, <2>6 DEF IInv
<1>9. CASE ~SendRequest(t)
  <2>1. /\ Answer(t, "error") /\ pollStarted' = pollStarted \ {t} /\ progressed' = progressed
        /\ inFlight' = inFlight
    BY <1>9 DEF RequestFails, StepFails, EndsPoll
  <2>2. CallInv' /\ WatchMatches'
    BY <1>1, <1>2, <1>5, <2>1, AnswerFrame
  <2>3. Running' = Running
    BY <1>3, <1>4, <1>9 DEF Running
  <2>4. TypeOK'
    BY <1>1, <1>4, <2>1, AnswerTypes DEF IInv, TypeOK
  <2>5. InFlightMatches' /\ PollsMatch'
    BY <1>1, <2>1, <2>3 DEF IInv, InFlightMatches, PollsMatch
  <2> QED
    BY <1>6, <2>2, <2>4, <2>5 DEF IInv
<1> QED
  BY <1>8, <1>9

LEMMA PumpEndsPreserves ==
  ASSUME IInv, NEW t \in Threads, PumpEnds(t)
  PROVE  IInv'
<1>1. /\ owner = t /\ (at = "send" \/ responses = <<>>)
      /\ UNCHANGED <<bridgeVars, progressed, pollStarted, released, coreVars, rpcVars>>
      /\ responses' = responses /\ rpc' = rpc /\ released' = released /\ done' = done
  BY DEF PumpEnds, Sending, Serving, rpcVars, bridgeVars
<1>2. NoneSignalled => NoneSignalled'
  BY <1>1 DEF NoneSignalled, Signalled
<1>3. CASE at' = "take" /\ UNCHANGED <<callVars, owner>>
  <2>1. CallInv' /\ WatchMatches'
    BY <1>1, <1>2, <1>3, StepFrame
  <2>2. TypeOK'
    BY <1>1, <1>3 DEF IInv, TypeOK, bridgeVars, callVars, coreVars, rpcVars
  <2> QED
    BY <1>1, <2>1, <2>2, CallerFrame DEF IInv
<1>4. CASE Answer(t, "pending")
  <2>1. responses = <<>> => NoneSignalled
    <3>1. 1 .. Len(<<>>) = {}
      OBVIOUS
    <3> QED
      BY <3>1 DEF NoneSignalled
  <2>2. t \in watching => NoneSignalled
    BY <1>1, <2>1 DEF IInv, WatchMatches, NoneSignalled
  <2>3. pc[t] = "served"
    BY <1>1, OwnerFacts
  <2>4. CallInv' /\ WatchMatches'
    BY <1>1, <1>2, <1>4, <2>2, <2>3, AnswerFrame
  <2>5. TypeOK'
    BY <1>1, <1>4, AnswerTypes DEF IInv, TypeOK, coreVars, rpcVars
  <2> QED
    BY <1>1, <2>4, <2>5, CallerFrame DEF IInv
<1> QED
  BY <1>3, <1>4 DEF PumpEnds

LEMMA PanicPreserves ==
  ASSUME IInv, NEW t \in Threads, Panic(t)
  PROVE  IInv'
<1>1. /\ closing' = TRUE /\ cut' = TRUE /\ Errs(t) /\ watching' = {}
      /\ done' = IF done = "no" THEN "broken" ELSE done
      /\ owner' = None /\ at' = "take"
      /\ UNCHANGED <<built, cancelled, progressed, pollStarted, released, coreVars, rpcVars>>
      /\ owner = t \/ (Takes(t) /\ owner = None)
  BY DEF Panic, SignalWake, Takes
<1>2. /\ pc[t] \in Requests \cup {"served"}
      /\ \A u \in Threads : u # t => pc[u] # "served"
      /\ None \notin Threads /\ Maker \in Threads /\ Stopper \in Threads
  BY <1>1, BridgeAssumption, OwnerFacts DEF Threads, Enders, IInv, CallInv, OwnerMatches
<1>3. /\ failed' \in BOOLEAN /\ pc' \in [Threads -> Places]
      /\ \A u \in Threads : u # t => pc'[u] = pc[u]
      /\ pc'[t] \in {"returned", "ending", "finishing"}
      /\ pc'[t] \in {"ending", "finishing"} => t \in Enders
  BY <1>1, ErrsEffect DEF IInv
<1>4. TypeOK' /\ WatchMatches'
  <2>1. TypeOK'
    BY <1>1, <1>3 DEF IInv, TypeOK, Places, coreVars, rpcVars
  <2> QED
    BY <1>1, <2>1 DEF WatchMatches
<1>5. OwnerMatches'
  BY <1>1, <1>2, <1>3 DEF OwnerMatches
<1>6. LifeMatches'
  BY <1>1, <1>2, <1>3 DEF IInv, CallInv, LifeMatches, Requests
<1>7. EndMatches'
  <2>1. Over => Over'
    BY <1>1, <1>2, <1>3 DEF Over, Requests
  <2>2. done' # "no" /\ (done' = "stopped" => done = "stopped")
    BY <1>1
  <2> QED
    BY <1>1, <1>2, <1>3, <2>1, <2>2 DEF IInv, CallInv, EndMatches
<1>8. done # "no" => done' # "no"
  BY <1>1
<1> QED
  BY <1>1, <1>4, <1>5, <1>6, <1>7, <1>8, CallerFrame DEF IInv, CallInv

LEMMA LeavePreserves == IInv /\ OwnerLeaves => IInv'
<1> SUFFICES ASSUME IInv, OwnerLeaves PROVE IInv'
  OBVIOUS
<1>1. /\ owner = None /\ owner' = "left"
      /\ UNCHANGED <<bridgeVars, callVars, at, progressed, pollStarted, released,
                     coreVars, rpcVars>>
      /\ done' = done /\ closing' = closing /\ built' = built /\ pc' = pc
      /\ watching' = watching /\ rpc' = rpc /\ responses' = responses
      /\ released' = released
  BY DEF OwnerLeaves, bridgeVars, callVars, rpcVars
<1>2. "left" \notin Threads /\ None \notin Threads
  BY BridgeAssumption
<1>3. TypeOK'
  BY <1>1 DEF IInv, TypeOK, bridgeVars, callVars, coreVars, rpcVars
<1>4. CallInv'
  BY <1>1, <1>2 DEF IInv, CallInv, OwnerMatches, LifeMatches, EndMatches, Over
<1>5. WatchMatches'
  <2>1. \A u \in watching : u \in Threads
    BY DEF IInv, TypeOK
  <2> QED
    BY <1>1, <1>2, <2>1 DEF IInv, WatchMatches, OperationErr, Signalled
<1> QED
  BY <1>1, <1>3, <1>4, <1>5, CallerFrame DEF IInv
-----------------------------------------------------------------------------
(***************************************************************************)
(* Steps of an RPC's goroutine.                                            *)
(***************************************************************************)
LEMMA RPCStepsPreserve ==
  ASSUME IInv, NEW r \in RPCs, Deliver(r) \/ SignalResponse(r) \/ Drop(r)
  PROVE  IInv'
<1>1. /\ UNCHANGED <<bridgeVars, ownerVars, coreVars, inFlight>>
      /\ done' = done /\ closing' = closing /\ owner' = owner /\ at' = at
      /\ released' = released /\ caller' = caller /\ op' = op
      /\ pollStarted' = pollStarted /\ inFlight' = inFlight
      /\ built' = built /\ pc' = pc /\ failed' = failed
      /\ watching' \in {watching, {}}
  BY DEF Deliver, SignalResponse, SignalWake, Drop, bridgeVars, ownerVars, coreVars, callVars
<1>2. PICK to \in {"signalling", "gone"} :
        /\ rpc' = [rpc EXCEPT ![r] = to]
        /\ rpc[r] \in {"flying", "signalling"}
        /\ Deliver(r) => rpc[r] = "flying" /\ to = "signalling"
        /\ SignalResponse(r) => rpc[r] = "signalling" /\ to = "gone" /\ watching' = {}
        /\ Drop(r) => rpc[r] = "flying" /\ done # "no"
  BY DEF Deliver, SignalResponse, SignalWake, Drop, MayBeDropped
<1>3. /\ rpc' \in [RPCs -> {"none", "queued", "flying", "signalling", "gone"}]
      /\ rpc'[r] = to /\ \A x \in RPCs : x # r => rpc'[x] = rpc[x]
  BY <1>2 DEF IInv, TypeOK
<1>4. /\ responses \in Seq(RPCs) /\ Len(responses) \in Nat
      /\ responses' = responses \/ (Deliver(r) /\ responses' = Append(responses, r))
      /\ \A i \in 1 .. Len(responses) :
           responses[i] \in RPCs /\ rpc[responses[i]] \in {"signalling", "gone"}
  BY DEF IInv, TypeOK, RPCsMatch, Deliver, SignalResponse, Drop
<1>5. /\ responses' \in Seq(RPCs) /\ Len(responses') <= ResponseCap
      /\ \A i \in 1 .. Len(responses') : rpc'[responses'[i]] \in {"signalling", "gone"}
      /\ NoneSignalled => NoneSignalled' \/ watching' = {}
  <2>1. CASE responses' = responses
    <3>1. \A i \in 1 .. Len(responses) : rpc'[responses[i]] \in {"signalling", "gone"}
      BY <1>2, <1>3, <1>4
    <3>2. CASE SignalResponse(r)
      BY <1>2, <1>4, <2>1, <3>1, <3>2 DEF IInv, TypeOK
    <3>3. CASE ~SignalResponse(r)
      <4>1. rpc[r] = "flying"
        BY <1>2, <3>3
      <4>2. \A i \in 1 .. Len(responses) : rpc'[responses[i]] = rpc[responses[i]]
        BY <1>3, <1>4, <4>1
      <4> QED
        BY <1>4, <2>1, <3>1, <4>2 DEF IInv, TypeOK, NoneSignalled, Signalled
    <3> QED
      BY <3>2, <3>3
  <2>2. CASE Deliver(r) /\ responses' = Append(responses, r)
    <3>1. /\ responses' \in Seq(RPCs) /\ Len(responses') = Len(responses) + 1
          /\ responses'[Len(responses) + 1] = r
          /\ \A i \in 1 .. Len(responses) : responses'[i] = responses[i]
      BY <1>4, <2>2
    <3>2. rpc'[r] = "signalling" /\ rpc[r] = "flying"
      BY <1>2, <1>3, <2>2
    <3>3. ASSUME NEW i \in 1 .. Len(responses')
          PROVE  \/ rpc'[responses'[i]] = "signalling"
                 \/ /\ i \in 1 .. Len(responses) /\ responses'[i] = responses[i]
                    /\ rpc'[responses'[i]] = rpc[responses[i]]
      <4>1. i = Len(responses) + 1 \/ i \in 1 .. Len(responses)
        BY <1>4, <3>1
      <4>2. CASE i = Len(responses) + 1
        BY <3>1, <3>2, <4>2
      <4>3. CASE i \in 1 .. Len(responses)
        BY <1>3, <1>4, <3>1, <3>2, <4>3
      <4> QED
        BY <4>1, <4>2, <4>3
    <3>4. Len(responses') <= ResponseCap
      <4>1. Len(responses) < ResponseCap /\ ResponseCap \in Nat
        BY <2>2, BridgeAssumption DEF Deliver
      <4> QED
        BY <1>4, <3>1, <4>1
    <3>5. \A i \in 1 .. Len(responses') : rpc'[responses'[i]] \in {"signalling", "gone"}
      BY <1>4, <3>3
    <3>6. NoneSignalled => NoneSignalled'
      BY <3>3 DEF NoneSignalled, Signalled
    <3> QED
      BY <3>1, <3>4, <3>5, <3>6
  <2> QED
    BY <1>4, <2>1, <2>2
<1>6. TypeOK'
  <2>1. UNCHANGED <<cut, cancelled, progressed, unanswered>>
    BY <1>1 DEF bridgeVars, ownerVars, coreVars
  <2> QED
    BY <1>1, <1>3, <1>5, <2>1 DEF IInv, TypeOK
<1>7. CallInv'
  BY <1>1 DEF IInv, CallInv, OwnerMatches, LifeMatches, EndMatches, Over
<1>8. WatchMatches'
  BY <1>1, <1>5 DEF IInv, WatchMatches, OperationErr, NoneSignalled
<1>9. RPCsMatch' /\ PollsMatch'
  <2>1. \A x \in RPCs : rpc'[x] = "none" <=> rpc[x] = "none"
    BY <1>2, <1>3
  <2> QED
    BY <1>1, <1>5, <2>1 DEF IInv, RPCsMatch, PollsMatch
<1>10. InFlightMatches'
  <2>1. CASE Deliver(r)
    <3>1. Running' = Running \ {r} /\ r \in Running
      BY <1>2, <1>3, <2>1 DEF Running
    <3>2. Cardinality(Running \ {r}) = Cardinality(Running) - 1
      BY <3>1, FiniteRunning, FS_RemoveElement
    <3>3. Len(responses') = Len(responses) + 1
      BY <1>4, <2>1 DEF Deliver
    <3> QED
      BY <1>1, <1>4, <3>1, <3>2, <3>3, FiniteRunning DEF IInv, InFlightMatches
  <2>2. CASE SignalResponse(r)
    <3>1. Running' = Running /\ responses' = responses
      BY <1>2, <1>3, <2>2 DEF Running, SignalResponse
    <3> QED
      BY <1>1, <3>1 DEF IInv, InFlightMatches
  <2>3. CASE Drop(r)
    BY <1>1, <1>2, <2>3 DEF InFlightMatches
  <2> QED
    BY <2>1, <2>2, <2>3
<1> QED
  BY <1>6, <1>7, <1>8, <1>9, <1>10 DEF IInv
-----------------------------------------------------------------------------
(***************************************************************************)
(* The theorems.                                                           *)
(***************************************************************************)
LEMMA StutterPreserves == IInv /\ UNCHANGED vars => IInv'
<1> SUFFICES ASSUME IInv, UNCHANGED vars PROVE IInv'
  OBVIOUS
<1>1. /\ UNCHANGED <<bridgeVars, callVars, ownerVars, coreVars, rpcVars>>
      /\ owner' = owner /\ at' = at /\ responses' = responses /\ rpc' = rpc
      /\ released' = released /\ pollStarted' = pollStarted /\ done' = done
      /\ progressed' = progressed
  BY DEF vars, ownerVars, rpcVars, bridgeVars
<1>2. NoneSignalled => NoneSignalled'
  BY <1>1 DEF NoneSignalled, Signalled
<1>3. CallInv' /\ WatchMatches'
  BY <1>1, <1>2, StepFrame
<1>4. TypeOK'
  BY <1>1 DEF IInv, TypeOK, bridgeVars, callVars, coreVars, rpcVars
<1> QED
  BY <1>1, <1>3, <1>4, CallerFrame DEF IInv

LEMMA StepInvariant == IInv /\ [Next]_vars => IInv'
<1> SUFFICES ASSUME IInv, [Next]_vars PROVE IInv'
  OBVIOUS
<1>1. ASSUME NEW t \in Threads, Call(t) \/ CallStep(t) PROVE IInv'
  BY <1>1, CallStepsPreserve, EndStepsPreserve DEF CallStep
<1>2. ASSUME NEW t \in Threads, Serve(t) PROVE IInv'
  BY <1>2, RefusalsPreserve, StartPreserves, BeginStepPreserves DEF Serve
<1>3. ASSUME NEW t \in Threads, CorePrepares(t) PROVE IInv'
  BY <1>3, TakesPreserve
<1>4. CASE CancelContext \/ BeginShutdown
  BY <1>4, EndStepsPreserve
<1>5. CASE OwnerStep
  BY <1>5, TakesPreserve, ReceivePreserves, SendPreserves, PumpEndsPreserves, PanicPreserves,
     LeavePreserves
  DEF OwnerStep
<1>6. ASSUME NEW r \in RPCs, RPCStep(r) PROVE IInv'
  BY <1>6, RPCStepsPreserve DEF RPCStep
<1>7. CASE UNCHANGED vars
  BY <1>7, StutterPreserves
<1> QED
  BY <1>1, <1>2, <1>3, <1>4, <1>5, <1>6, <1>7 DEF Next

\* The strengthened invariant: whose step the owner runs, how far newBridge and
\* Shutdown are, and who may still hold an open wake channel.
THEOREM Invariance == Spec => []IInv
BY InitInvariant, StepInvariant, PTL DEF Spec

\* Every variable keeps its type: grpcCallsInFlight stays between zero and
\* maxConcurrentGRPCCalls, the response channel within its capacity.
THEOREM TypeCorrect == Spec => []TypeOK
<1>1. IInv => TypeOK
  BY DEF IInv
<1> QED
  BY <1>1, Invariance, PTL

\* pumpGRPC counts a call from the moment it goes out until its response is
\* taken from the channel, whatever fails between the two.
THEOREM InFlightCounted == Spec => []InFlightMatches
<1>1. IInv => InFlightMatches
  BY DEF IInv
<1> QED
  BY <1>1, Invariance, PTL

\* currentWake is read before the step it belongs to, so that no response and
\* no shutdown is missed between a step that found nothing and the wait.
THEOREM NoneMissed == Spec => []NoWakeMissed
<1>1. IInv => NoWakeMissed
  BY DEF IInv, WatchMatches, NoWakeMissed, Signalled
<1> QED
  BY <1>1, Invariance, PTL

\* activityPollInProgress and workflowPollInProgress are set only while Core
\* has the poll they stand for.
THEOREM PollsAgree == Spec => []PollsMatch
<1>1. IInv => PollsMatch
  BY DEF IInv
<1> QED
  BY <1>1, Invariance, PTL

\* A poisoned bridge, or one whose scratch buffers are freed, does not call
\* into Core any more, though calls and Shutdown were on their way.
THEOREM CoreLeftAlone == Spec => NothingAfterTheEnd
<1>1. ASSUME IInv, [Next]_vars, done = "broken" \/ released
      PROVE  UNCHANGED <<coreVars, pollStarted>>
  <2>1. \A t \in Threads : owner # t /\ ~Runs(t, "starting")
    BY <1>1, OwnerFacts
  <2>2. ASSUME NEW t \in Threads, Call(t) \/ CallStep(t)
        PROVE  UNCHANGED <<coreVars, pollStarted>>
    BY <2>2 DEF Call, CallStep, Look, GiveUp, WaitEnds, Release, Finish, SignalClosing,
                ownerVars
  <2>3. ASSUME NEW t \in Threads, Serve(t)
        PROVE  UNCHANGED <<coreVars, pollStarted>>
    BY <2>1, <2>3 DEF Serve, Refuse, RunStart, StartFails, RunRelease, BeginStep
  <2>4. ASSUME NEW t \in Threads, CorePrepares(t) PROVE FALSE
    BY <2>1, <2>4 DEF CorePrepares
  <2>5. CASE CancelContext \/ BeginShutdown
    BY <2>5 DEF CancelContext, BeginShutdown, ownerVars
  <2>6. CASE OwnerStep
    <3>1. ASSUME NEW t \in Threads,
                 TakeResult(t) \/ TakeFails(t) \/ TakePending(t) \/ ReceiveResponse(t)
                   \/ ResponseFails(t) \/ SendRequest(t) \/ RequestFails(t) \/ PumpEnds(t)
          PROVE  FALSE
      BY <2>1, <3>1 DEF TakeResult, TakeFails, TakePending, ReceiveResponse, ResponseFails,
                        SendRequest, RequestFails, PumpEnds, Sending, Serving
    <3>2. ASSUME NEW t \in Threads, Panic(t) PROVE UNCHANGED <<coreVars, pollStarted>>
      BY <3>2 DEF Panic
    <3>3. CASE OwnerLeaves
      BY <3>3 DEF OwnerLeaves
    <3> QED
      BY <2>6, <3>1, <3>2, <3>3 DEF OwnerStep
  <2>7. ASSUME NEW r \in RPCs, RPCStep(r) PROVE UNCHANGED <<coreVars, pollStarted>>
    BY <2>7 DEF RPCStep, Deliver, SignalResponse, Drop, ownerVars
  <2>8. CASE UNCHANGED vars
    BY <2>8 DEF vars, ownerVars
  <2> QED
    BY <1>1, <2>2, <2>3, <2>4, <2>5, <2>6, <2>7, <2>8 DEF Next
<1>2. IInv /\ [Next]_vars =>
        [done = "broken" \/ released => UNCHANGED <<coreVars, pollStarted>>]_vars
  BY <1>1
<1> QED
  BY <1>2, Invariance, PTL DEF Spec, NothingAfterTheEnd
=============================================================================
