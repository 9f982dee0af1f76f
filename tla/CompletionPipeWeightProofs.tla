--------------------- MODULE CompletionPipeWeightProofs ---------------------
(***************************************************************************)
(* Proof that CompletionPipe's totalWeight is the sum of the weights of    *)
(* its live tickets. The sum is a fold that takes the tickets in an order  *)
(* of CHOOSE's, so the proof first shows that the fold exists, and that it *)
(* does not matter which ticket is taken first. Inductions over finite     *)
(* sets are written as a smallest counterexample.                          *)
(***************************************************************************)
EXTENDS CompletionPipeProofs, WellFoundedInduction

LEMMA SmallestSubset ==
  ASSUME NEW S, IsFiniteSet(S), NEW X \in SUBSET (SUBSET S), X # {}
  PROVE  \E T \in X : \A U \in SUBSET T : U # T => U \notin X
<1>1. X \subseteq FiniteSubsetsOf(S)
  BY FS_FiniteSubsetsOfFinite
<1>2. IsWellFoundedOn(StrictSubsetOrdering(S), FiniteSubsetsOf(S))
  BY FS_StrictSubsetOrderingWellFounded
<1>3. PICK T \in X : \A U \in X : <<U, T>> \notin StrictSubsetOrdering(S)
  BY <1>1, <1>2, WFMin, Zenon
<1> QED
  BY <1>3 DEF StrictSubsetOrdering

(***************************************************************************)
(* The fold.                                                               *)
(***************************************************************************)
FirstOf(s) == CHOOSE x \in s : TRUE

IsFold(g, S) ==
  g = [s \in SUBSET S |->
         IF s = {} THEN 0 ELSE NormalizedWeight(FirstOf(s)) + g[s \ {FirstOf(s)}]]

Fold(S) == CHOOSE g : IsFold(g, S)

Total(S) == MapThenSumSet(NormalizedWeight, S)

LEMMA FirstIsIn == ASSUME NEW S, S # {} PROVE FirstOf(S) \in S
BY DEF FirstOf

LEMMA TotalIsFold == ASSUME NEW S PROVE Total(S) = Fold(S)[S]
BY DEF Total, MapThenSumSet, MapThenFoldSet, Fold, IsFold, FirstOf

\* Two folds agree wherever both are defined.
LEMMA FoldsAgree ==
  ASSUME NEW S, NEW T, NEW g, NEW h, IsFold(g, S), IsFold(h, T),
         NEW R \in SUBSET S, R \in SUBSET T, IsFiniteSet(R)
  PROVE  g[R] = h[R]
<1> SUFFICES ASSUME g[R] # h[R] PROVE FALSE
  OBVIOUS
<1> DEFINE X == {U \in SUBSET R : g[U] # h[U]}
<1>0. R \in X /\ X \in SUBSET (SUBSET R)
  OBVIOUS
<1> HIDE DEF X
<1>1. PICK U \in X : \A V \in SUBSET U : V # U => V \notin X
  BY <1>0, SmallestSubset
<1> USE DEF X
<1>2. U \in SUBSET S /\ U \in SUBSET T
  OBVIOUS
<1>3. U # {}
  BY <1>2 DEF IsFold
<1>4. g[U] = NormalizedWeight(FirstOf(U)) + g[U \ {FirstOf(U)}]
  BY <1>2, <1>3 DEF IsFold
<1>5. h[U] = NormalizedWeight(FirstOf(U)) + h[U \ {FirstOf(U)}]
  BY <1>2, <1>3 DEF IsFold
<1>6. g[U \ {FirstOf(U)}] = h[U \ {FirstOf(U)}]
  BY <1>1, <1>3, FirstIsIn
<1> QED
  BY <1>4, <1>5, <1>6

LEMMA FoldExists ==
  ASSUME NEW S, IsFiniteSet(S)
  PROVE  IsFold(Fold(S), S)
<1> SUFFICES ASSUME ~IsFold(Fold(S), S) PROVE FALSE
  OBVIOUS
<1> DEFINE X == {U \in SUBSET S : ~IsFold(Fold(U), U)}
<1>1. PICK T \in X : \A U \in SUBSET T : U # T => U \notin X
  BY SmallestSubset
<1>2. \A U \in SUBSET T : U # T => IsFold(Fold(U), U)
  BY <1>1
<1>3. \A U \in SUBSET T : IsFiniteSet(U)
  BY FS_Subset
<1> DEFINE Rest(s) == s \ {FirstOf(s)}
           g == [s \in SUBSET T |->
                   IF s = {} THEN 0
                   ELSE NormalizedWeight(FirstOf(s)) + Fold(Rest(s))[Rest(s)]]
<1>4. ASSUME NEW s \in SUBSET T, s # {} PROVE Fold(Rest(s))[Rest(s)] = g[Rest(s)]
  <2>1. Rest(s) \in SUBSET T /\ Rest(s) # T
    BY <1>4, FirstIsIn
  <2> DEFINE r == Rest(s)
  <2>2. IsFold(Fold(r), r)
    BY <1>2, <2>1
  <2>3. CASE r = {}
    BY <2>1, <2>2, <2>3 DEF IsFold
  <2>4. CASE r # {}
    <3>1. FirstOf(r) \in r /\ Rest(r) \in SUBSET r /\ Rest(r) \in SUBSET T /\ Rest(r) # T
      BY <2>1, <2>4, FirstIsIn
    <3>2. IsFold(Fold(Rest(r)), Rest(r))
      BY <1>2, <3>1
    <3>3. Fold(r)[Rest(r)] = Fold(Rest(r))[Rest(r)]
      BY <1>3, <2>2, <3>1, <3>2, FoldsAgree
    <3>4. Fold(r)[r] = NormalizedWeight(FirstOf(r)) + Fold(r)[Rest(r)]
      BY <2>2, <2>4 DEF IsFold
    <3> QED
      BY <2>1, <2>4, <3>3, <3>4
  <2> QED
    BY <2>3, <2>4
<1>5. IsFold(g, T)
  BY <1>4 DEF IsFold
<1>6. IsFold(Fold(T), T)
  BY <1>5 DEF Fold
<1> QED
  BY <1>1, <1>6

LEMMA TotalUnfolds ==
  ASSUME NEW S, IsFiniteSet(S)
  PROVE  /\ S = {} => Total(S) = 0
         /\ S # {} => Total(S) = NormalizedWeight(FirstOf(S)) + Total(S \ {FirstOf(S)})
<1>1. IsFold(Fold(S), S)
  BY FoldExists
<1>2. CASE S = {}
  BY <1>1, <1>2, TotalIsFold DEF IsFold
<1>3. CASE S # {}
  <2> DEFINE R == S \ {FirstOf(S)}
  <2>1. IsFiniteSet(R) /\ R \in SUBSET S
    BY FS_Subset
  <2>2. IsFold(Fold(R), R)
    BY <2>1, FoldExists
  <2>3. Fold(S)[R] = Fold(R)[R]
    BY <1>1, <2>1, <2>2, FoldsAgree
  <2>4. Fold(S)[S] = NormalizedWeight(FirstOf(S)) + Fold(S)[R]
    BY <1>1, <1>3 DEF IsFold
  <2> QED
    BY <1>3, <2>3, <2>4, TotalIsFold
<1> QED
  BY <1>2, <1>3

(***************************************************************************)
(* The sum.                                                                *)
(***************************************************************************)
LEMMA TotalType ==
  ASSUME NEW S \in SUBSET Tickets, IsFiniteSet(S)
  PROVE  Total(S) \in Int
<1> SUFFICES ASSUME Total(S) \notin Int PROVE FALSE
  OBVIOUS
<1> DEFINE X == {U \in SUBSET S : Total(U) \notin Int}
<1>0. S \in X /\ X \in SUBSET (SUBSET S)
  OBVIOUS
<1> HIDE DEF X
<1>1. PICK U \in X : \A V \in SUBSET U : V # U => V \notin X
  BY <1>0, SmallestSubset
<1> USE DEF X
<1>2. IsFiniteSet(U)
  BY FS_Subset
<1>3. U # {}
  BY <1>2, TotalUnfolds
<1>4. FirstOf(U) \in U /\ Total(U \ {FirstOf(U)}) \in Int
  BY <1>1, <1>3, FirstIsIn
<1>5. Total(U) = NormalizedWeight(FirstOf(U)) + Total(U \ {FirstOf(U)})
  BY <1>2, <1>3, TotalUnfolds
<1>6. NormalizedWeight(FirstOf(U)) \in Int
  BY <1>4, NormalizedWeightType
<1> QED
  BY <1>4, <1>5, <1>6

\* Any ticket may be taken first.
LEMMA TotalOfAny ==
  ASSUME NEW S \in SUBSET Tickets, IsFiniteSet(S), NEW x \in S
  PROVE  Total(S) = NormalizedWeight(x) + Total(S \ {x})
<1> SUFFICES ASSUME Total(S) # NormalizedWeight(x) + Total(S \ {x}) PROVE FALSE
  OBVIOUS
<1> DEFINE Fails(U) == \E y \in U : Total(U) # NormalizedWeight(y) + Total(U \ {y})
           X == {U \in SUBSET S : Fails(U)}
<1>0. S \in X /\ X \in SUBSET (SUBSET S)
  OBVIOUS
<1> HIDE DEF X
<1>1. PICK U \in X : \A V \in SUBSET U : V # U => V \notin X
  BY <1>0, SmallestSubset
<1> USE DEF X
<1>2. PICK y \in U : Total(U) # NormalizedWeight(y) + Total(U \ {y})
  OBVIOUS
<1> DEFINE z == FirstOf(U)
<1>3. \A V \in SUBSET U : IsFiniteSet(V) /\ Total(V) \in Int
  BY FS_Subset, TotalType
<1>4. z \in U /\ Total(U) = NormalizedWeight(z) + Total(U \ {z})
  BY <1>3, FirstIsIn, TotalUnfolds
<1>5. z # y
  BY <1>2, <1>4
<1>6. Total(U \ {z}) = NormalizedWeight(y) + Total((U \ {z}) \ {y})
  BY <1>1, <1>4, <1>5
<1>7. Total(U \ {y}) = NormalizedWeight(z) + Total((U \ {y}) \ {z})
  BY <1>1, <1>4, <1>5
<1>8. Total((U \ {y}) \ {z}) = Total((U \ {z}) \ {y})
  <2>1. (U \ {y}) \ {z} = (U \ {z}) \ {y}
    OBVIOUS
  <2> QED
    BY <2>1
<1>9. NormalizedWeight(y) \in Int /\ NormalizedWeight(z) \in Int
  BY <1>4, NormalizedWeightType
<1>10. Total((U \ {z}) \ {y}) \in Int
  BY <1>3
<1> QED
  BY <1>2, <1>4, <1>6, <1>7, <1>8, <1>9, <1>10
-----------------------------------------------------------------------------
(***************************************************************************)
(* The invariant. Finalize keeps the bound because a ticket whose weight   *)
(* is negative is never accepted, so that every live ticket weighs at      *)
(* least 1.                                                                *)
(***************************************************************************)
WeightInv ==
  /\ IInv
  /\ totalWeight = Total(Live)
  /\ totalWeight <= MaxWeight
  /\ \A t \in Accepted : Weight[t] >= 0

LEMMA LiveTickets ==
  ASSUME IInv
  PROVE  Live \in SUBSET Tickets /\ Live \subseteq Accepted /\ IsFiniteSet(Live)
BY CountedSetsFinite DEF IInv, Live, Accepted

LEMMA WeightInit == Init => WeightInv
<1> SUFFICES ASSUME Init PROVE WeightInv
  OBVIOUS
<1>1. Live = {} /\ Accepted = {}
  BY DEF Init, Accepted, Live
<1>2. Total({}) = 0
  BY FS_EmptySet, TotalUnfolds
<1> QED
  BY <1>1, <1>2, InitInvariant, LimitsType DEF WeightInv, Init

LEMMA WeightAccepted ==
  ASSUME WeightInv, NEW t \in Tickets, EnqueueAccepted(t)
  PROVE  WeightInv'
<1>1. IInv' /\ Accepted' = Accepted \cup {t} /\ Live' = Live \cup {t}
  BY AcceptedPreserves DEF WeightInv
<1>2. t \notin Live
  BY DEF EnqueueAccepted, Live, Accepted
<1>3. Live' \in SUBSET Tickets /\ IsFiniteSet(Live') /\ Live' \ {t} = Live
  BY <1>1, <1>2, LiveTickets, FS_AddElement DEF WeightInv
<1>4. Total(Live') = NormalizedWeight(t) + Total(Live)
  BY <1>1, <1>3, TotalOfAny
<1>5. totalWeight' = totalWeight + NormalizedWeight(t) /\ Weight[t] >= 0
  BY DEF EnqueueAccepted
<1>6. totalWeight <= MaxWeight - NormalizedWeight(t)
  BY LimitsType, NormalizedWeightType DEF EnqueueAccepted, AtCapacity, OverWeight, WeightInv,
                                          IInv, TypeOK
<1>7. totalWeight' = Total(Live') /\ totalWeight' <= MaxWeight
  BY <1>4, <1>5, <1>6, LimitsType, NormalizedWeightType DEF WeightInv, IInv, TypeOK
<1>8. \A x \in Accepted' : Weight[x] >= 0
  BY <1>1, <1>5 DEF WeightInv
<1> QED
  BY <1>1, <1>7, <1>8 DEF WeightInv

\* What gives one live ticket's room back keeps the account.
LEMMA WeightReleased ==
  ASSUME WeightInv, NEW t \in Live,
         IInv', Accepted' = Accepted, Live' = Live \ {t},
         totalWeight' = totalWeight - NormalizedWeight(t)
  PROVE  WeightInv'
<1>1. Live \in SUBSET Tickets /\ IsFiniteSet(Live) /\ t \in Accepted /\ t \in Tickets
  BY LiveTickets DEF WeightInv
<1>2. Total(Live) = NormalizedWeight(t) + Total(Live')
  BY <1>1, TotalOfAny
<1>3. Total(Live') \in Int
  BY <1>1, FS_Subset, TotalType
<1>4. NormalizedWeight(t) >= 1 /\ NormalizedWeight(t) \in Int
  BY <1>1, TicketsAssumption DEF NormalizedWeight, WeightInv
<1>5. totalWeight = Total(Live) /\ totalWeight <= MaxWeight
  BY DEF WeightInv
<1>6. totalWeight' = Total(Live')
  BY <1>2, <1>3, <1>4, <1>5
<1>7. totalWeight' <= MaxWeight
  BY <1>2, <1>3, <1>4, <1>5, <1>6, LimitsType
<1>8. \A x \in Accepted' : Weight[x] >= 0
  BY DEF WeightInv
<1> QED
  BY <1>6, <1>7, <1>8 DEF WeightInv

LEMMA WeightFinalized ==
  ASSUME WeightInv, NEW t \in Tickets, Finalize(t)
  PROVE  WeightInv'
<1>1. IInv' /\ Accepted' = Accepted /\ Live' = Live \ {t}
  BY FinalizePreserves DEF WeightInv
<1>2. t \in Live
  BY DEF Finalize, MayFinalize, WeightInv, IInv, ChannelsConsistent, Live, Accepted
<1> QED
  BY <1>1, <1>2, WeightReleased DEF Finalize

LEMMA WeightConsumed ==
  ASSUME WeightInv, NEW t \in Tickets, ReceiveAndFinalize(t)
  PROVE  WeightInv'
<1>1. IInv' /\ report[t] = "sent" /\ stage[t] \in {"leaving", "done"}
  BY ConsumePreserves DEF WeightInv
<1>2. t \in Live
  BY <1>1 DEF Live, Accepted
<1>3. Accepted' = Accepted /\ Live' = Live \ {t}
  BY DEF ReceiveAndFinalize, WeightInv, IInv, TypeOK, Live, Accepted
<1> QED
  BY <1>1, <1>2, <1>3, WeightReleased DEF ReceiveAndFinalize

LEMMA WeightKept ==
  ASSUME WeightInv, IInv', UNCHANGED totalWeight, Live' = Live, Accepted' = Accepted
  PROVE  WeightInv'
BY DEF WeightInv

LEMMA WeightTurnedAway ==
  ASSUME WeightInv, NEW t \in Tickets, EnqueueRefused(t) \/ EnqueueRejected(t)
  PROVE  WeightInv'
<1>1. IInv'
  BY TurnedAwayPreserves DEF WeightInv
<1>2. Live' = Live /\ Accepted' = Accepted /\ totalWeight' = totalWeight
  BY DEF EnqueueRefused, EnqueueRejected, WeightInv, IInv, TypeOK, Live, Accepted
<1> QED
  BY <1>1, <1>2, WeightKept

LEMMA WeightRun ==
  ASSUME WeightInv, NEW t \in Tickets, Run(t)
  PROVE  WeightInv'
<1>1. IInv' /\ Live' = Live /\ Accepted' = Accepted
  BY SubmitPreserves, SendPreserves, FinishPreserves DEF Run, WeightInv
<1>2. totalWeight' = totalWeight
  BY DEF Run, Submit, AfterSubmit, SendResult, FinishAndTakeNext
<1> QED
  BY <1>1, <1>2, WeightKept

LEMMA WeightStutter == ASSUME WeightInv, UNCHANGED vars PROVE WeightInv'
<1>1. IInv'
  BY StutterPreserves DEF WeightInv
<1> QED
  BY <1>1, WeightKept DEF vars, Live, Accepted

LEMMA WeightStep == WeightInv /\ [Next]_vars => WeightInv'
<1> SUFFICES ASSUME WeightInv, [Next]_vars PROVE WeightInv'
  OBVIOUS
<1>1. ASSUME NEW t \in Tickets, Enqueue(t) PROVE WeightInv'
  BY <1>1, WeightTurnedAway, WeightAccepted DEF Enqueue
<1>2. ASSUME NEW t \in Tickets, Consume(t) PROVE WeightInv'
  <2>1. ASSUME Receive(t) PROVE WeightInv'
    <3>1. IInv' /\ Live' = Live /\ Accepted' = Accepted
      BY <2>1, ReceivePreserves DEF WeightInv
    <3> QED
      BY <2>1, <3>1, WeightKept DEF Receive
  <2> QED
    BY <1>2, <2>1, WeightFinalized DEF Consume
<1> QED
  BY <1>1, <1>2, WeightRun, WeightStutter DEF Next

\* pipeline.totalWeight is exactly the weight of the completions retained, and
\* they never weigh more than maxWeight together, for every set of tickets,
\* every weight and every option.
THEOREM WeightCorrect == Spec => []WeightMatches
<1>1. WeightInv => WeightMatches
  BY DEF WeightInv, WeightMatches, Total
<1> QED
  BY WeightInit, WeightStep, <1>1, PTL DEF Spec
=============================================================================
