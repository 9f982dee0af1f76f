----------------------------- MODULE CoreBridge -----------------------------
(***************************************************************************)
(* internal/corebridge: calls from any goroutine reach Core through one    *)
(* owner goroutine, which steps Core's operations and pumps Core's gRPC    *)
(* requests and their responses; waiting calls are woken by closing a        *)
(* channel.                                                                *)
(*                                                                         *)
(* A call is a goroutine: one per kind of poll, one per completion or      *)
(* heartbeat, the one that calls newBridge and the one inside Shutdown.    *)
(* What a request of the owner does to Core is one action per export that  *)
(* matters; Core itself only appears as operations that need RPCs.         *)
(***************************************************************************)
EXTENDS Integers, Sequences, FiniteSets

CONSTANTS
  Pollers,      \* the kinds of poll, each called by one loop
  Completers,   \* calls of CompleteWorkflow and CompleteActivity
  Beaters,      \* calls of RecordActivityHeartbeat
  Maker,        \* the call of newBridge
  Stopper,      \* the call of Shutdown that runs under its Once
  MaxRPC,       \* bound: gRPC requests Core makes in one behaviour
  MaxInFlight,  \* maxConcurrentGRPCCalls
  ResponseCap,  \* capacity of grpcResponses
  Faults,       \* what may go wrong: a subset of FaultKinds
  None

\* A panic in the owner, a request that cannot be decoded, a response that
\* cannot be copied into Core, an error that Core reports for an operation, a
\* poll's context that is done.
FaultKinds == {"panic", "request", "response", "core", "context"}

Enders == {Maker, Stopper}

Threads == Pollers \cup Completers \cup Beaters \cup Enders

RPCs == 1 .. MaxRPC

ASSUME BridgeAssumption ==
  /\ MaxRPC \in Nat /\ MaxInFlight \in Nat \ {0} /\ ResponseCap \in Nat \ {0}
  /\ Faults \subseteq FaultKinds
  /\ None \notin Threads /\ "left" \notin Threads
  /\ Maker # Stopper /\ Enders \cap Pollers = {}

VARIABLES
  \* Bridge
  built,       \* newBridge: "no", "yes" or "failed"
  closing,     \* Bridge.closing
  done,        \* cause of doneCtx: "no", "stopped" (errBridgeShuttingDown), "broken"
  cut,         \* grpcCtx is cancelled or the host is closed
  responses,   \* grpcResponses
  cancelled,   \* the context of the polls is done
  \* calls
  pc,          \* where each is
  failed,      \* whether Shutdown has met an error
  watching,    \* the calls that hold the open wake channel
  \* the owner
  owner,       \* the call whose step it runs, None, or "left"
  at,          \* how far that is: "take", "receive" or "send"
  progressed,  \* pumpGRPC's progressed
  inFlight,    \* grpcCallsInFlight
  pollStarted, \* activityPollInProgress, workflowPollInProgress
  released,    \* the scratch buffers have been given back
  \* Core and the RPCs
  op,          \* Core's operation for each call
  caller,      \* the call each RPC is for
  rpc,         \* how far each RPC is, outside Core
  unanswered   \* the RPCs Core waits for

bridgeVars == <<closing, done, cut, cancelled>>
callVars   == <<built, pc, failed, watching>>
ownerVars  == <<owner, at, progressed, pollStarted, released>>
coreVars   == <<op, caller, unanswered>>
rpcVars    == <<rpc, inFlight, responses>>
vars == <<bridgeVars, callVars, ownerVars, coreVars, rpcVars>>

TypeOK ==
  /\ built \in {"no", "yes", "failed"}
  /\ closing \in BOOLEAN /\ cut \in BOOLEAN /\ cancelled \in BOOLEAN
  /\ done \in {"no", "stopped", "broken"}
  /\ responses \in Seq(RPCs) /\ Len(responses) <= ResponseCap
  /\ pc \in [Threads -> {"idle", "closing", "starting", "looking", "stepping", "served",
                         "waiting", "ending", "releasing", "finishing", "returned"}]
  /\ failed \in BOOLEAN
  /\ watching \subseteq Threads
  /\ owner \in Threads \cup {None, "left"}
  /\ at \in {"take", "receive", "send"}
  /\ progressed \in BOOLEAN /\ released \in BOOLEAN
  /\ inFlight \in 0 .. MaxInFlight
  /\ pollStarted \subseteq Pollers
  /\ op \in [Threads -> {"none", "active", "ready"}]
  /\ caller \in [RPCs -> Threads \cup {None}]
  /\ rpc \in [RPCs -> {"none", "queued", "flying", "signalling", "gone"}]
  /\ unanswered \subseteq RPCs

Init ==
  /\ built = "no" /\ closing = FALSE /\ done = "no" /\ cut = FALSE /\ cancelled = FALSE
  /\ pc = [t \in Threads |-> "idle"]
  /\ failed = FALSE
  /\ watching = {}
  /\ owner = None /\ at = "take" /\ progressed = FALSE
  /\ pollStarted = {} /\ released = FALSE
  /\ op = [t \in Threads |-> "none"]
  /\ caller = [r \in RPCs |-> None]
  /\ unanswered = {}
  /\ rpc = [r \in RPCs |-> "none"] /\ inFlight = 0 /\ responses = <<>>
-----------------------------------------------------------------------------
SignalOne == \E t \in Threads : watching' = watching \ {t}  \* mistake: one waiter is woken

\* signalWake closes the channel every waiting call holds.
SignalWake == watching' = {}

Requests == {"starting", "stepping", "releasing"}

\* Shutdown's own requests, and those that release, are served while closing.
AllowClosed(t, request) == t = Stopper \/ request = "releasing"

OperationErr == done # "no" \/ closing

\* The call has an error: the two that own the bridge's life clean up.
Errs(t) ==
  /\ failed' = (failed \/ t = Stopper)
  /\ pc' = [pc EXCEPT ![t] = IF t \notin Enders THEN "returned"
                             ELSE IF @ = "releasing" THEN "finishing" ELSE "ending"]

Fail(t) == Errs(t) /\ watching' = watching \ {t}

\* ownerCall up to its first select.
Enter(t, request) ==
  IF OperationErr /\ ~AllowClosed(t, request) THEN Fail(t)
  ELSE pc' = [pc EXCEPT ![t] = request] /\ UNCHANGED <<failed, watching>>
-----------------------------------------------------------------------------
(***************************************************************************)
(* Calls.                                                                  *)
(***************************************************************************)
Call(t) ==
  /\ pc[t] = "idle" /\ t # Stopper
  /\ built = (IF t = Maker THEN "no" ELSE "yes")
  /\ Enter(t, "starting")
  /\ UNCHANGED <<bridgeVars, built, ownerVars, coreVars, rpcVars>>

CancelContext ==
  /\ "context" \in Faults
  /\ built = "yes" /\ ~cancelled
  /\ cancelled' = TRUE
  /\ UNCHANGED <<closing, done, cut, callVars, ownerVars, coreVars, rpcVars>>

\* Shutdown refuses new operations, cancels the RPCs and then wakes everyone.
BeginShutdown ==
  /\ pc[Stopper] = "idle" /\ built = "yes"
  /\ closing' = TRUE /\ cut' = TRUE
  /\ pc' = [pc EXCEPT ![Stopper] = "closing"]
  /\ UNCHANGED <<built, done, cancelled, failed, watching, ownerVars, coreVars, rpcVars>>

SignalClosing ==
  /\ pc[Stopper] = "closing"
  /\ SignalWake
  /\ pc' = [pc EXCEPT ![Stopper] = "starting"]
  /\ UNCHANGED <<bridgeVars, built, failed, ownerVars, coreVars, rpcVars>>

ContextDone(t) == t \in Pollers /\ cancelled

\* A turn of a call's loop: currentWake comes first, so that what happens from
\* here on wakes it.
Look(t) ==
  /\ pc[t] = "looking"
  /\ IF ContextDone(t) \/ (OperationErr /\ ~AllowClosed(t, "stepping")) THEN Fail(t)
     ELSE /\ watching' = watching \cup {t}
          /\ pc' = [pc EXCEPT ![t] = "stepping"] /\ failed' = failed
  /\ UNCHANGED <<bridgeVars, built, ownerVars, coreVars, rpcVars>>

NeverGivesUp == FALSE  \* mistake: the send does not select on doneCtx

MayGiveUp == done # "no"

GiveUp(t) ==
  /\ pc[t] \in Requests /\ MayGiveUp
  /\ Fail(t)
  /\ UNCHANGED <<bridgeVars, built, ownerVars, coreVars, rpcVars>>

\* waitForWake ends on the wake, on its timer, on the context, or when the
\* bridge is done; after the wake and the timer it looks at the others again.
\* Only Shutdown, which may go on when closing, depends on what ended it.
WaitEnds(t) ==
  /\ pc[t] = "waiting"
  /\ \/ /\ ContextDone(t) \/ (t # Stopper /\ OperationErr) \/ done = "broken"
        /\ Fail(t)
     \/ /\ ~ContextDone(t) /\ (t = Stopper \/ ~OperationErr)
        /\ pc' = [pc EXCEPT ![t] = "looking"]
        /\ watching' = watching \ {t} /\ failed' = failed
  /\ UNCHANGED <<bridgeVars, built, ownerVars, coreVars, rpcVars>>

\* Shutdown, and a newBridge that fails, give the scratch buffers back unless
\* the bridge is done already.
Release(t) ==
  /\ pc[t] = "ending"
  /\ pc' = [pc EXCEPT ![t] = IF done = "no" THEN "releasing" ELSE "finishing"]
  /\ UNCHANGED <<bridgeVars, built, failed, watching, ownerVars, coreVars, rpcVars>>

\* They close the host and end the bridge, with the first cause given.
Finish(t) ==
  /\ pc[t] = "finishing"
  /\ cut' = TRUE
  /\ done' = IF done # "no" THEN done
             ELSE IF t = Stopper /\ ~failed THEN "stopped" ELSE "broken"
  /\ built' = IF t = Maker THEN "failed" ELSE built
  /\ SignalWake
  /\ pc' = [pc EXCEPT ![t] = "returned"]
  /\ UNCHANGED <<closing, cancelled, failed, ownerVars, coreVars, rpcVars>>
-----------------------------------------------------------------------------
(***************************************************************************)
(* Core: an operation becomes ready or asks for an RPC, when it begins and *)
(* each time an RPC of it is answered. A long poll stays out when its poll *)
(* got a task from elsewhere, and serves the next one.                     *)
(***************************************************************************)
Fresh == {r \in RPCs : caller[r] = None}

\* t's operation goes on while Core waits for the given RPCs.
CoreGoesOn(t, waiting) ==
  \/ /\ op' = [op EXCEPT ![t] = "ready"]
     /\ unanswered' = waiting
     /\ UNCHANGED <<caller, rpc>>
  \/ /\ t \in Pollers /\ \E r \in waiting : caller[r] = t
     /\ op' = [op EXCEPT ![t] = "active"]
     /\ unanswered' = waiting
     /\ UNCHANGED <<caller, rpc>>
  \/ /\ t \in Pollers => \A r \in waiting : caller[r] # t
     /\ \E r \in Fresh :
          /\ \A other \in Fresh : r <= other
          /\ caller' = [caller EXCEPT ![r] = t]
          /\ rpc' = [rpc EXCEPT ![r] = "queued"]
          /\ unanswered' = waiting \cup {r}
     /\ op' = [op EXCEPT ![t] = "active"]

\* Core has a task for a poll that does not come from the poll's own RPC.
CorePrepares(t) ==
  /\ owner \in Threads /\ at = "take"
  /\ t \in Pollers /\ op[t] = "active"
  /\ op' = [op EXCEPT ![t] = "ready"]
  /\ UNCHANGED <<bridgeVars, callVars, ownerVars, caller, unanswered, rpcVars>>

\* Core's shutdown is ready when nothing it sent is unanswered.
Ready(t) == op[t] = "ready" /\ (t = Stopper => unanswered = {})
-----------------------------------------------------------------------------
(***************************************************************************)
(* The owner goroutine.                                                    *)
(***************************************************************************)
\* The owner's reply, and what the call does with it.
Answer(t, answer) ==
  /\ owner' = None /\ at' = "take"
  /\ \/ answer = "error" /\ Fail(t)
     \/ /\ answer = "pending"
        /\ pc' = [pc EXCEPT ![t] = "waiting"] /\ UNCHANGED <<failed, watching>>
     \/ /\ answer = "started"
        /\ pc' = [pc EXCEPT ![t] = IF t \in Beaters THEN "returned" ELSE "looking"]
        /\ UNCHANGED <<failed, watching>>
     \/ /\ answer = "released"
        /\ pc' = [pc EXCEPT ![t] = "finishing"] /\ UNCHANGED <<failed, watching>>
     \/ /\ answer = "ready"
        /\ pc' = [pc EXCEPT ![t] = IF t \in Pollers THEN "idle"
                                   ELSE IF t = Stopper THEN "ending" ELSE "returned"]
        /\ watching' = watching \ {t} /\ failed' = failed
  /\ built' = IF t = Maker /\ answer = "ready" THEN "yes" ELSE built

\* mistake: a poisoned bridge still serves Shutdown
RefusedIfOpen(t) == ~AllowClosed(t, pc[t]) /\ OperationErr

\* What has happened since the call looked at the bridge.
Refused(t) == IF AllowClosed(t, pc[t]) THEN done = "broken" ELSE OperationErr

\* The owner receives t's request and looks at the bridge again.
Takes(t) == pc[t] \in Requests /\ owner = None

Runs(t, request) == Takes(t) /\ ~Refused(t) /\ pc[t] = request

Serving(t, where) == owner = t /\ at = where

Refuse(t) ==
  /\ Takes(t) /\ Refused(t)
  /\ Answer(t, "error")
  /\ UNCHANGED <<bridgeVars, progressed, pollStarted, released, coreVars, rpcVars>>

\* A start export; a poll that is in progress is not started again, and a
\* heartbeat is over at once.
RunStart(t) ==
  /\ Runs(t, "starting")
  /\ IF t \in pollStarted \cup Beaters THEN UNCHANGED <<pollStarted, coreVars, rpc>>
     ELSE /\ CoreGoesOn(t, unanswered)
          /\ pollStarted' = pollStarted \cup ({t} \cap Pollers)
  /\ Answer(t, "started")
  /\ UNCHANGED <<bridgeVars, progressed, released, inFlight, responses>>

StartFails(t) ==
  /\ "core" \in Faults
  /\ Runs(t, "starting") /\ t \notin pollStarted
  /\ Answer(t, "error")
  /\ UNCHANGED <<bridgeVars, progressed, pollStarted, released, coreVars, rpcVars>>

RunRelease(t) ==
  /\ Runs(t, "releasing")
  /\ released' = TRUE
  /\ Answer(t, "released")
  /\ UNCHANGED <<bridgeVars, progressed, pollStarted, coreVars, rpcVars>>

\* The first take of an operation. A poll's step finds its poll in progress: each
\* poll has one caller, which has started it, and only its own steps end it. So the
\* error "poll is not in progress" does not occur.
BeginStep(t) ==
  /\ Runs(t, "stepping")
  /\ owner' = t /\ at' = "take"
  /\ pc' = [pc EXCEPT ![t] = "served"]
  /\ UNCHANGED <<bridgeVars, built, failed, watching, progressed, pollStarted, released,
                 coreVars, rpcVars>>

KeepsPoll(t) == pollStarted  \* mistake: a finished poll is still in progress

\* A step that brought a result or an error ends the poll it was for.
EndsPoll(t) == pollStarted \ {t}

StepFails(t) ==
  /\ Answer(t, "error")
  /\ pollStarted' = EndsPoll(t)
  /\ UNCHANGED <<bridgeVars, progressed, released>>

\* A take export, after Core's ready tasks have run.
TakeResult(t) ==
  /\ Serving(t, "take") /\ Ready(t)
  /\ op' = [op EXCEPT ![t] = "none"]
  /\ pollStarted' = EndsPoll(t)
  /\ Answer(t, "ready")
  /\ UNCHANGED <<bridgeVars, progressed, released, caller, unanswered, rpcVars>>

TakeFails(t) ==
  /\ "core" \in Faults
  /\ Serving(t, "take")
  /\ op' = [op EXCEPT ![t] = "none"]
  /\ StepFails(t)
  /\ UNCHANGED <<caller, unanswered, rpcVars>>

TakePending(t) ==
  /\ Serving(t, "take") /\ ~Ready(t)
  /\ at' = "receive" /\ progressed' = FALSE
  /\ UNCHANGED <<bridgeVars, callVars, owner, pollStarted, released, coreVars, rpcVars>>

StillCounted == inFlight  \* mistake: an answered call stays in the count

OneLess == inFlight - 1

\* pumpGRPC, first loop: the responses in the channel go into Core.
ReceiveResponse(t) ==
  /\ Serving(t, "receive") /\ responses # <<>>
  /\ LET r == Head(responses)
     IN  IF op[caller[r]] = "active" THEN CoreGoesOn(caller[r], unanswered \ {r})
         ELSE unanswered' = unanswered \ {r} /\ UNCHANGED <<op, caller, rpc>>
  /\ responses' = Tail(responses) /\ inFlight' = OneLess
  /\ progressed' = TRUE
  /\ UNCHANGED <<bridgeVars, callVars, owner, at, pollStarted, released>>

ResponseFails(t) ==
  /\ "response" \in Faults
  /\ Serving(t, "receive") /\ responses # <<>>
  /\ responses' = Tail(responses) /\ inFlight' = OneLess
  /\ StepFails(t)
  /\ UNCHANGED <<coreVars, rpc>>

\* The first loop is over for this pump once the channel has been found empty.
Sending(t) == Serving(t, "send") \/ (Serving(t, "receive") /\ responses = <<>>)

MayStartEarly == inFlight + 1 < MaxInFlight  \* mistake: one place is never used

MayStartLate == inFlight <= MaxInFlight  \* mistake: one call too many

MayStart == inFlight < MaxInFlight

Queued == {r \in RPCs : rpc[r] = "queued"}

\* pumpGRPC, second loop: Core's requests go out.
SendRequest(t) ==
  /\ Sending(t) /\ MayStart
  /\ \E r \in Queued : rpc' = [rpc EXCEPT ![r] = "flying"]
  /\ inFlight' = inFlight + 1
  /\ at' = "send"
  /\ UNCHANGED <<bridgeVars, callVars, owner, progressed, pollStarted, released,
                 coreVars, responses>>

RequestFails(t) ==
  /\ "request" \in Faults
  /\ Sending(t) /\ MayStart
  /\ \E r \in Queued : rpc' = [rpc EXCEPT ![r] = "gone"]
  /\ StepFails(t)
  /\ UNCHANGED <<coreVars, inFlight, responses>>

\* driveOperationStep takes again after progress, and else reports pending.
PumpEnds(t) ==
  /\ Sending(t) /\ (~MayStart \/ Queued = {})
  /\ IF progressed THEN at' = "take" /\ UNCHANGED <<callVars, owner>>
     ELSE Answer(t, "pending")
  /\ UNCHANGED <<bridgeVars, progressed, pollStarted, released, coreVars, rpcVars>>

\* A panic in Core or in what the owner runs poisons the bridge.
Panic(t) ==
  /\ "panic" \in Faults
  /\ owner = t \/ (Takes(t) /\ ~Refused(t))
  /\ closing' = TRUE /\ cut' = TRUE
  /\ done' = IF done = "no" THEN "broken" ELSE done
  /\ Errs(t) /\ SignalWake
  /\ owner' = None /\ at' = "take"
  /\ UNCHANGED <<built, cancelled, progressed, pollStarted, released, coreVars, rpcVars>>

\* The loop's end; a request it still takes after done is answered as Refuse
\* answers it.
OwnerLeaves ==
  /\ owner = None /\ done # "no"
  /\ owner' = "left"
  /\ UNCHANGED <<bridgeVars, callVars, at, progressed, pollStarted, released,
                 coreVars, rpcVars>>
-----------------------------------------------------------------------------
(***************************************************************************)
(* The goroutine of an RPC.                                                *)
(***************************************************************************)
\* The RPC returns, or has returned and waited for room.
Deliver(r) ==
  /\ rpc[r] = "flying" /\ Len(responses) < ResponseCap
  /\ responses' = Append(responses, r)
  /\ rpc' = [rpc EXCEPT ![r] = "signalling"]
  /\ UNCHANGED <<bridgeVars, callVars, ownerVars, coreVars, inFlight>>

SignalResponse(r) ==
  /\ rpc[r] = "signalling"
  /\ SignalWake
  /\ rpc' = [rpc EXCEPT ![r] = "gone"]
  /\ UNCHANGED <<bridgeVars, built, pc, failed, ownerVars, coreVars, inFlight, responses>>

NeverDropped == FALSE  \* mistake: the delivery does not select on doneCtx

MayBeDropped == done # "no"

Drop(r) ==
  /\ rpc[r] = "flying" /\ MayBeDropped
  /\ rpc' = [rpc EXCEPT ![r] = "gone"]
  /\ UNCHANGED <<bridgeVars, callVars, ownerVars, coreVars, inFlight, responses>>
-----------------------------------------------------------------------------
CallStep(t) ==
  \/ Look(t) \/ GiveUp(t) \/ WaitEnds(t) \/ Release(t) \/ Finish(t)
  \/ t = Stopper /\ SignalClosing

Serve(t) == Refuse(t) \/ RunStart(t) \/ StartFails(t) \/ RunRelease(t) \/ BeginStep(t)

OwnerStep ==
  \/ \E t \in Threads :
       \/ TakeResult(t) \/ TakeFails(t) \/ TakePending(t)
       \/ ReceiveResponse(t) \/ ResponseFails(t)
       \/ SendRequest(t) \/ RequestFails(t) \/ PumpEnds(t) \/ Panic(t)
  \/ OwnerLeaves

RPCStep(r) == Deliver(r) \/ SignalResponse(r) \/ Drop(r)

\* An RPC that is cancelled or has a deadline returns; a long poll may stay out.
MustStep(r) == (rpc[r] = "flying" => cut \/ caller[r] \notin Pollers) /\ RPCStep(r)

Next ==
  \/ \E t \in Threads : Call(t) \/ CallStep(t) \/ Serve(t) \/ CorePrepares(t)
  \/ CancelContext \/ BeginShutdown
  \/ OwnerStep
  \/ \E r \in RPCs : RPCStep(r)

Spec == Init /\ [][Next]_vars

\* Goroutines run; a request that is sent again and again is taken, since the
\* owner's channel is first come, first served.
FairSpec ==
  /\ Spec
  /\ \A t \in Threads : SF_vars(CallStep(t) \/ Serve(t))
  /\ WF_vars(OwnerStep)
  /\ \A r \in RPCs : WF_vars(MustStep(r))
-----------------------------------------------------------------------------
Running == {r \in RPCs : rpc[r] = "flying"}

\* The owner's count is that of the calls that have not come back to it, also
\* when a step ends early, so that the limit of concurrent calls neither leaks
\* away nor is exceeded.
InFlightMatches == done = "no" => inFlight = Cardinality(Running) + Len(responses)

\* No call waits on a wake channel that is still open while a response is
\* there that has been signalled, or after the bridge has begun to close.
NoWakeMissed ==
  \A t \in Threads :
    pc[t] = "waiting" /\ t \in watching =>
      /\ \A i \in 1 .. Len(responses) : rpc[responses[i]] = "signalling"
      /\ t # Stopper /\ OperationErr => pc[Stopper] = "closing"

\* A poll the owner believes in progress is one Core knows: its next step asks
\* Core for a poll that was started.
PollsMatch == \A t \in pollStarted : op[t] # "none"

\* Core is not touched once the owner has panicked in it or the scratch buffers
\* are gone, whatever calls were on their way.
NothingAfterTheEnd == [][done = "broken" \/ released => UNCHANGED <<coreVars, pollStarted>>]_vars

\* Once the bridge closes, every call on its way returns, Shutdown too, and its
\* goroutines leave: the owner and those of the RPCs, however far they are. This is
\* claimed with a panic as the only fault: an RPC whose request cannot be decoded, or
\* whose response cannot be copied, stays unanswered in Core, and Core's shutdown may
\* then never be ready.
ClosingEndsAll ==
  closing ~> /\ \A t \in Threads : pc[t] \in {"idle", "returned"}
             /\ owner = "left" /\ Running = {}

\* A completion handed to Core returns, beside one long poll of each poller that may
\* stay out, when there is a place in flight beside those; with a panic as the only
\* fault, as above.
CompletionEnds == \A t \in Completers : pc[t] = "starting" ~> pc[t] = "returned"
=============================================================================
