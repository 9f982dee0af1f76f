------------------------- MODULE MCWorkflowRunLoop -------------------------
(***************************************************************************)
(* Instances of WorkflowRunLoop for TLC.                                   *)
(***************************************************************************)
EXTENDS WorkflowRunLoop

\* One run goes through its life, or the first activation is not of a run.
MCOfferList ==
  << {<<"r1", "initialize">>, <<"r1", "initializeUnknown">>, <<None, "update">>},
     {"r1"} \X {"evict", "update", "undecodable"},
     {<<"r1", "initialize">>} >>

\* The second completion is larger than the 64 MiB the pipeline retains.
MCWeightList == <<1, 67108865, 0>>

MCOffers == [a \in Activations |-> MCOfferList[a]]
MCWeight == [a \in Activations |-> MCWeightList[a]]

\* A Core that keeps its limit, and five runs that start: the smallest number
\* that fills a pipeline of 2 * MaxTasks and asks for one more.
StartOffers == [a \in 1 .. 5 |-> {<<a + 10, "initialize">>}]
StartRuns == 11 .. 15
StartWeight == [a \in 1 .. 5 |-> 1]

\* Those starts in a worker nobody cancels or shuts down: neither has a part in
\* filling the pipeline.
UndisturbedSpec == Init /\ [][Next /\ ~shutdown' /\ ~ctxCancelled']_vars
=============================================================================
