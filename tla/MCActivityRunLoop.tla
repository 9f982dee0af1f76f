------------------------- MODULE MCActivityRunLoop -------------------------
(***************************************************************************)
(* Instances of ActivityRunLoop for TLC: an activity starts, and then it is*)
(* cancelled, its token is reused, another one starts, or Core breaks its  *)
(* contract.                                                               *)
(***************************************************************************)
EXTENDS ActivityRunLoop

MCTokens == {"t1", "t2", "t3"}

MCOfferList ==
  << {<<"t1", "start">>},
     {<<"t1", "cancel">>, <<"t1", "start">>, <<"t2", "start">>, <<"t1", "undecodable">>},
     {<<"t1", "cancel">>, <<"t3", "start">>, <<"t2", "cancel">>, <<"t1", "neither">>} >>

MCOffers == [a \in Tasks |-> MCOfferList[a]]

\* Shutdown's completion of the second task is too large for the pipeline.
MCWeight == [c \in Completions |-> IF c = <<2, "drain">> THEN 67108865 ELSE 1]
=============================================================================
