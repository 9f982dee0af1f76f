------------------------ MODULE CompletionPipeProofs ------------------------
(***************************************************************************)
(* Proofs about CompletionPipe, for every set of tickets, every weight and *)
(* every limit. CountersMatch is inductive only together with the type     *)
(* invariant, ChannelsConsistent (a queued ticket is not running and a new *)
(* ticket has no result) and the finiteness of the accepted tickets.       *)
(***************************************************************************)
EXTENDS CompletionPipe, FiniteSetTheorems, TLAPS

USE DEF SlotFree, ResultsFull, NothingQueued, MayFinalize

IInv ==
  /\ TypeOK
  /\ IsFiniteSet(Accepted)
  /\ CountersMatch
  /\ WorkConserving
  /\ ChannelsConsistent

\* Whatever New is given, the pipeline has at least one slot, admits at least
\* as many tickets as it has slots, and a positive weight bound.
LEMMA LimitsType ==
  /\ Limit \in Nat \ {0}
  /\ MaxItems \in Nat
  /\ MaxItems >= Limit
  /\ MaxWeight \in Nat \ {0}
<1>1. \A n \in Int : AtLeastOne(n) \in Nat \ {0}
  BY DEF AtLeastOne
<1>2. Limit \in Nat \ {0}
  BY <1>1, OptionsAssumption DEF Limit
<1>3. MaxItems \in Nat /\ MaxItems >= Limit
  BY <1>1, <1>2, OptionsAssumption DEF MaxItems
<1>4. MaxWeight \in Nat \ {0}
  BY <1>1, OptionsAssumption DEF MaxWeight, DefaultMaxOutstandingWeight
<1> QED
  BY <1>2, <1>3, <1>4

LEMMA NormalizedWeightType ==
  \A t \in Tickets : NormalizedWeight(t) \in Int
BY TicketsAssumption DEF NormalizedWeight

\* Running and Live are finite whenever the accepted tickets are.
LEMMA CountedSetsFinite ==
  ASSUME IsFiniteSet(Accepted)
  PROVE  /\ IsFiniteSet(Running)
         /\ IsFiniteSet(Live)
<1>1. Running \subseteq Accepted /\ Live \subseteq Accepted
  BY DEF Running, Accepted, Live, RunStages
<1> QED
  BY <1>1, FS_Subset
-----------------------------------------------------------------------------
(***************************************************************************)
(* Sequences: membership after Append and Tail, kept duplicate-free.       *)
(***************************************************************************)
Holds(s, t) == \E i \in DOMAIN s : s[i] = t

NoRepeats(s) == \A i, j \in DOMAIN s : s[i] = s[j] => i = j

LEMMA AppendFacts ==
  ASSUME NEW S, NEW s \in Seq(S), NEW e \in S
  PROVE  /\ Append(s, e) \in Seq(S)
         /\ Append(s, e) # <<>>
         /\ Len(Append(s, e)) = Len(s) + 1
         /\ \A x : Holds(Append(s, e), x) <=> Holds(s, x) \/ x = e
         /\ NoRepeats(s) /\ ~Holds(s, e) => NoRepeats(Append(s, e))
<1>1. /\ Append(s, e) \in Seq(S)
      /\ Append(s, e) # <<>>
      /\ Len(Append(s, e)) = Len(s) + 1
      /\ DOMAIN s = 1 .. Len(s)
      /\ DOMAIN Append(s, e) = 1 .. (Len(s) + 1)
      /\ Len(s) \in Nat
  OBVIOUS
<1>2. /\ \A i \in 1 .. Len(s) : Append(s, e)[i] = s[i]
      /\ Append(s, e)[Len(s) + 1] = e
  OBVIOUS
<1>3. \A x : Holds(Append(s, e), x) <=> Holds(s, x) \/ x = e
  BY <1>1, <1>2 DEF Holds
<1>4. ASSUME NoRepeats(s), ~Holds(s, e)
      PROVE  NoRepeats(Append(s, e))
  BY <1>1, <1>2, <1>4 DEF Holds, NoRepeats
<1> QED
  BY <1>1, <1>3, <1>4

LEMMA TailFacts ==
  ASSUME NEW S, NEW s \in Seq(S), s # <<>>
  PROVE  /\ Head(s) \in S
         /\ Tail(s) \in Seq(S)
         /\ Len(Tail(s)) = Len(s) - 1
         /\ Holds(s, Head(s))
         /\ NoRepeats(s) => NoRepeats(Tail(s))
         /\ NoRepeats(s) =>
              \A x : Holds(Tail(s), x) <=> Holds(s, x) /\ x # Head(s)
<1>1. /\ Head(s) \in S
      /\ Head(s) = s[1]
      /\ Tail(s) \in Seq(S)
      /\ Len(s) \in Nat \ {0}
      /\ Len(Tail(s)) = Len(s) - 1
      /\ DOMAIN s = 1 .. Len(s)
      /\ DOMAIN Tail(s) = 1 .. (Len(s) - 1)
  OBVIOUS
<1>2. \A i \in 1 .. (Len(s) - 1) : Tail(s)[i] = s[i + 1]
  OBVIOUS
<1>3. Holds(s, Head(s))
  BY <1>1 DEF Holds
<1>4. ASSUME NoRepeats(s)
      PROVE  NoRepeats(Tail(s))
  BY <1>1, <1>2, <1>4 DEF NoRepeats
<1>5. ASSUME NoRepeats(s), NEW x
      PROVE  Holds(Tail(s), x) <=> Holds(s, x) /\ x # Head(s)
  <2>1. ASSUME Holds(Tail(s), x)
        PROVE  Holds(s, x) /\ x # Head(s)
    <3>1. PICK i \in 1 .. (Len(s) - 1) : Tail(s)[i] = x
      BY <1>1, <2>1 DEF Holds
    <3>2. i + 1 \in DOMAIN s /\ s[i + 1] = x /\ 1 \in DOMAIN s /\ i + 1 # 1
      BY <1>1, <1>2, <3>1
    <3> QED
      BY <1>1, <1>5, <3>2 DEF Holds, NoRepeats
  <2>2. ASSUME Holds(s, x), x # Head(s)
        PROVE  Holds(Tail(s), x)
    <3>1. PICK i \in 1 .. Len(s) : s[i] = x
      BY <1>1, <2>2 DEF Holds
    <3>2. i - 1 \in 1 .. (Len(s) - 1)
      BY <1>1, <2>2, <3>1
    <3>3. Tail(s)[i - 1] = x
      BY <1>1, <1>2, <3>1, <3>2
    <3> QED
      BY <1>1, <3>2, <3>3 DEF Holds
  <2> QED
    BY <2>1, <2>2
<1> QED
  BY <1>1, <1>3, <1>4, <1>5

\* ChannelsConsistent in terms of Holds and NoRepeats.
LEMMA ChannelsRestated ==
  ChannelsConsistent <=>
    /\ \A t \in Tickets :
         /\ stage[t] = "queued" <=> Holds(queue, t)
         /\ report[t] = "sent" <=> Holds(results, t)
         /\ report[t] # "none" <=> stage[t] \in {"leaving", "done"}
    /\ NoRepeats(queue)
    /\ NoRepeats(results)
    /\ Len(results) <= Limit
BY DEF ChannelsConsistent, Holds, NoRepeats
-----------------------------------------------------------------------------
(***************************************************************************)
(* The inductive invariant: initially, and one lemma per kind of step.     *)
(***************************************************************************)
LEMMA InitInvariant == Init => IInv
<1> SUFFICES ASSUME Init PROVE IInv
  OBVIOUS
<1>1. TypeOK
  BY LimitsType DEF Init, TypeOK, Stages, Reports, RunStages
<1>2. Accepted = {} /\ Running = {} /\ Live = {}
  BY DEF Init, Accepted, Running, Live, RunStages
<1>3. IsFiniteSet(Accepted) /\ CountersMatch
  BY <1>2, FS_EmptySet DEF CountersMatch, Init
<1>4. WorkConserving
  BY DEF WorkConserving, Init
<1>5. ChannelsConsistent
  BY LimitsType DEF ChannelsConsistent, Init
<1> QED
  BY <1>1, <1>3, <1>4, <1>5 DEF IInv

\* A ticket turned away changes nothing but its own stage.
LEMMA TurnedAwayPreserves ==
  ASSUME IInv, NEW t \in Tickets, EnqueueRefused(t) \/ EnqueueRejected(t)
  PROVE  IInv'
<1> USE DEF IInv, EnqueueRefused, EnqueueRejected
<1>1. TypeOK'
  BY DEF TypeOK, Stages
<1>2. Accepted' = Accepted /\ Running' = Running /\ Live' = Live
  BY DEF TypeOK, Accepted, Running, Live, RunStages
<1>3. IsFiniteSet(Accepted') /\ CountersMatch'
  BY <1>2 DEF CountersMatch
<1>4. WorkConserving'
  BY DEF WorkConserving
<1>5. ChannelsConsistent'
  BY DEF TypeOK, ChannelsConsistent
<1> QED
  BY <1>1, <1>3, <1>4, <1>5

LEMMA AcceptedPreserves ==
  ASSUME IInv, NEW t \in Tickets, EnqueueAccepted(t)
  PROVE  /\ IInv'
         /\ Accepted' = Accepted \cup {t}
         /\ Live' = Live \cup {t}
         /\ Running' = IF active < Limit THEN Running \cup {t} ELSE Running
<1> USE DEF IInv, EnqueueAccepted
<1>1. /\ t \notin Accepted
      /\ report[t] = "none"
  BY DEF Accepted, ChannelsConsistent
<1>2. /\ Accepted' = Accepted \cup {t}
      /\ Live' = Live \cup {t}
  BY <1>1 DEF TypeOK, Accepted, Live
<1>3. Running' = IF active < Limit THEN Running \cup {t} ELSE Running
  BY DEF TypeOK, Running, RunStages
<1>4. t \notin Live /\ t \notin Running
  BY <1>1 DEF Live, Running, RunStages
<1>5. outstanding < MaxItems
  BY LimitsType DEF AtCapacity, TypeOK
<1>6. TypeOK'
  <2>1. queue' \in Seq(Tickets)
    <3>1. queue \in Seq(Tickets) /\ Append(queue, t) \in Seq(Tickets)
      BY AppendFacts DEF TypeOK
    <3> QED
      BY <3>1
  <2>2. active' \in 0 .. Limit /\ outstanding' \in 0 .. MaxItems
    BY <1>5, LimitsType DEF TypeOK
  <2>3. totalWeight' \in Int
    BY NormalizedWeightType DEF TypeOK
  <2>4. stage' \in [Tickets -> Stages]
    BY DEF TypeOK, Stages, RunStages
  <2> QED
    BY <2>1, <2>2, <2>3, <2>4 DEF TypeOK
<1>7. IsFiniteSet(Accepted')
  BY <1>2, FS_AddElement
<1>8. Cardinality(Live') = Cardinality(Live) + 1
  BY <1>2, <1>4, CountedSetsFinite, FS_AddElement
<1>9. active < Limit => Cardinality(Running') = Cardinality(Running) + 1
  BY <1>3, <1>4, CountedSetsFinite, FS_AddElement
<1>10. CountersMatch'
  BY <1>3, <1>8, <1>9 DEF CountersMatch
<1>11. WorkConserving'
  BY LimitsType DEF WorkConserving, TypeOK
<1>12. ChannelsConsistent'
  <2>1. ~Holds(queue, t)
    BY ChannelsRestated
  <2>2. CASE active < Limit
    BY <2>2 DEF ChannelsConsistent, TypeOK
  <2>3. CASE ~(active < Limit)
    <3>1. queue' = Append(queue, t) /\ queue \in Seq(Tickets)
      BY <2>3 DEF TypeOK
    <3>2. /\ \A x : Holds(queue', x) <=> Holds(queue, x) \/ x = t
          /\ NoRepeats(queue')
      BY <2>1, <3>1, AppendFacts, ChannelsRestated
    <3>3. /\ stage' = [stage EXCEPT ![t] = "queued"]
          /\ report' = report
          /\ results' = results
      BY <2>3
    <3>4. /\ \A x \in Tickets :
               /\ stage'[x] = "queued" <=> Holds(queue', x)
               /\ report'[x] = "sent" <=> Holds(results', x)
               /\ report'[x] # "none" <=> stage'[x] \in {"leaving", "done"}
          /\ NoRepeats(results')
          /\ Len(results') <= Limit
      BY <3>2, <3>3, ChannelsRestated DEF TypeOK
    <3> QED
      BY <3>2, <3>4 DEF ChannelsConsistent, Holds, NoRepeats
  <2> QED
    BY <2>2, <2>3
<1> QED
  BY <1>2, <1>3, <1>6, <1>7, <1>10, <1>11, <1>12

\* Submit and AfterSubmit move the goroutine along inside its slot.
LEMMA SubmitPreserves ==
  ASSUME IInv, NEW t \in Tickets, Submit(t) \/ AfterSubmit(t)
  PROVE  /\ IInv'
         /\ Accepted' = Accepted /\ Running' = Running /\ Live' = Live
<1> USE DEF IInv, Submit, AfterSubmit
<1>1. TypeOK'
  BY DEF TypeOK, Stages, RunStages
<1>2. Accepted' = Accepted /\ Running' = Running /\ Live' = Live
  BY DEF TypeOK, Accepted, Running, Live, RunStages
<1>3. IsFiniteSet(Accepted') /\ CountersMatch'
  BY <1>2 DEF CountersMatch
<1>4. WorkConserving'
  BY DEF WorkConserving
<1>5. ChannelsConsistent'
  BY DEF TypeOK, ChannelsConsistent
<1> QED
  BY <1>1, <1>2, <1>3, <1>4, <1>5

LEMMA SendPreserves ==
  ASSUME IInv, NEW t \in Tickets, SendResult(t)
  PROVE  /\ IInv'
         /\ Accepted' = Accepted /\ Running' = Running /\ Live' = Live
<1> USE DEF IInv, SendResult
<1>1. TypeOK'
  BY AppendFacts DEF TypeOK, Stages, Reports, RunStages
<1>2. report[t] = "none"
  BY DEF ChannelsConsistent
<1>3. Accepted' = Accepted /\ Running' = Running /\ Live' = Live
  BY <1>2 DEF TypeOK, Accepted, Running, Live, RunStages
<1>4. IsFiniteSet(Accepted') /\ CountersMatch'
  BY <1>3 DEF CountersMatch
<1>5. WorkConserving'
  BY DEF WorkConserving
<1>6. ChannelsConsistent'
  <2>1. ~Holds(results, t)
    BY <1>2, ChannelsRestated
  <2>2. results' = Append(results, t) /\ results \in Seq(Tickets)
    BY DEF TypeOK
  <2>3. /\ \A x : Holds(results', x) <=> Holds(results, x) \/ x = t
        /\ NoRepeats(results')
        /\ Len(results') = Len(results) + 1
    BY <2>1, <2>2, AppendFacts, ChannelsRestated
  <2>4. \A x \in Tickets :
          /\ stage'[x] = "queued" <=> Holds(queue', x)
          /\ report'[x] = "sent" <=> Holds(results', x)
          /\ report'[x] # "none" <=> stage'[x] \in {"leaving", "done"}
    BY <2>3, ChannelsRestated DEF TypeOK
  <2>5. NoRepeats(queue') /\ Len(results') <= Limit
    BY <2>2, <2>3, LimitsType, ChannelsRestated
  <2> QED
    BY <2>3, <2>4, <2>5 DEF ChannelsConsistent, Holds, NoRepeats
<1> QED
  BY <1>1, <1>3, <1>4, <1>5, <1>6

LEMMA FinishPreserves ==
  ASSUME IInv, NEW t \in Tickets, FinishAndTakeNext(t)
  PROVE  /\ IInv'
         /\ Accepted' = Accepted /\ Live' = Live
         /\ Running' = IF queue = <<>> THEN Running \ {t}
                       ELSE (Running \ {t}) \cup {Head(queue)}
<1> USE DEF IInv, FinishAndTakeNext
<1>1. t \in Running /\ IsFiniteSet(Running) /\ Cardinality(Running) \in Nat
  BY CountedSetsFinite, FS_CardinalityType DEF Running, RunStages
<1>2. /\ IsFiniteSet(Running \ {t})
      /\ Cardinality(Running \ {t}) = active - 1
      /\ active >= 1
  BY <1>1, FS_RemoveElement, FS_EmptySet DEF CountersMatch
<1>3. CASE queue = <<>>
  <2>1. TypeOK'
    BY <1>2, <1>3, LimitsType DEF TypeOK, Stages
  <2>2. Accepted' = Accepted /\ Live' = Live /\ Running' = Running \ {t}
    BY <1>3 DEF TypeOK, Accepted, Running, Live, RunStages
  <2>3. IsFiniteSet(Accepted') /\ CountersMatch'
    BY <1>2, <1>3, <2>2 DEF CountersMatch
  <2>4. WorkConserving'
    BY <1>3 DEF WorkConserving
  <2>5. ChannelsConsistent'
    BY <1>3 DEF TypeOK, ChannelsConsistent
  <2> QED
    BY <1>3, <2>1, <2>2, <2>3, <2>4, <2>5
<1>4. CASE queue # <<>>
  <2> DEFINE h == Head(queue)
  <2>1. /\ h \in Tickets
        /\ Tail(queue) \in Seq(Tickets)
        /\ Holds(queue, h)
        /\ NoRepeats(Tail(queue))
        /\ \A x : Holds(Tail(queue), x) <=> Holds(queue, x) /\ x # h
    BY <1>4, TailFacts, ChannelsRestated DEF TypeOK
  <2>2. stage[h] = "queued" /\ report[h] = "none" /\ h # t /\ h \notin Running
    BY <2>1, ChannelsRestated DEF Running, RunStages
  <2>3. /\ stage' = [stage EXCEPT ![t] = "done", ![h] = "submitting"]
        /\ queue' = Tail(queue)
        /\ active' = active
    BY <1>4 DEF TypeOK
  <2> HIDE DEF h
  <2>4. TypeOK'
    BY <2>1, <2>3 DEF TypeOK, Stages, RunStages
  <2>5. /\ Accepted' = Accepted /\ Live' = Live
        /\ Running' = (Running \ {t}) \cup {h}
    BY <2>1, <2>2, <2>3 DEF TypeOK, Accepted, Running, Live, RunStages
  <2>6. Cardinality(Running') = active
    <3>1. Cardinality((Running \ {t}) \cup {h}) = Cardinality(Running \ {t}) + 1
      BY <1>2, <2>2, FS_AddElement
    <3>2. active \in Int
      BY LimitsType DEF TypeOK
    <3> QED
      BY <1>2, <2>5, <3>1, <3>2
  <2>7. IsFiniteSet(Accepted') /\ CountersMatch'
    BY <2>3, <2>5, <2>6 DEF CountersMatch
  <2>8. WorkConserving'
    BY <1>4, <2>3 DEF WorkConserving
  <2>9. \A x \in Tickets :
          /\ stage'[x] = "queued" <=> Holds(queue', x)
          /\ report'[x] = "sent" <=> Holds(results', x)
          /\ report'[x] # "none" <=> stage'[x] \in {"leaving", "done"}
    BY <2>1, <2>2, <2>3, ChannelsRestated DEF TypeOK
  <2>10. NoRepeats(queue') /\ NoRepeats(results') /\ Len(results') <= Limit
    BY <2>1, <2>3, ChannelsRestated
  <2>11. ChannelsConsistent'
    BY <2>9, <2>10 DEF ChannelsConsistent, Holds, NoRepeats
  <2> QED
    BY <1>4, <2>4, <2>5, <2>7, <2>8, <2>11 DEF h
<1> QED
  BY <1>3, <1>4

LEMMA ReceivePreserves ==
  ASSUME IInv, NEW t \in Tickets, Receive(t)
  PROVE  /\ IInv'
         /\ report[t] = "sent"
         /\ Accepted' = Accepted /\ Running' = Running /\ Live' = Live
<1> USE DEF IInv, Receive
<1>1. /\ results' = Tail(results)
      /\ Tail(results) \in Seq(Tickets)
      /\ Len(Tail(results)) = Len(results) - 1
      /\ Holds(results, t)
      /\ NoRepeats(Tail(results))
      /\ \A x : Holds(Tail(results), x) <=> Holds(results, x) /\ x # t
  BY TailFacts, ChannelsRestated DEF TypeOK
<1>2. report[t] = "sent"
  BY <1>1, ChannelsRestated
<1>3. TypeOK'
  BY <1>1 DEF TypeOK, Reports
<1>4. Accepted' = Accepted /\ Running' = Running /\ Live' = Live
  BY <1>2 DEF TypeOK, Accepted, Running, Live
<1>5. IsFiniteSet(Accepted') /\ CountersMatch'
  BY <1>4 DEF CountersMatch
<1>6. WorkConserving'
  BY DEF WorkConserving
<1>7. ChannelsConsistent'
  <2>1. \A x \in Tickets :
          /\ stage'[x] = "queued" <=> Holds(queue', x)
          /\ report'[x] = "sent" <=> Holds(results', x)
          /\ report'[x] # "none" <=> stage'[x] \in {"leaving", "done"}
    BY <1>1, <1>2, ChannelsRestated DEF TypeOK
  <2>2. NoRepeats(queue') /\ NoRepeats(results') /\ Len(results') <= Limit
    BY <1>1, LimitsType, ChannelsRestated DEF TypeOK
  <2> QED
    BY <2>1, <2>2 DEF ChannelsConsistent, Holds, NoRepeats
<1> QED
  BY <1>2, <1>3, <1>4, <1>5, <1>6, <1>7

LEMMA FinalizePreserves ==
  ASSUME IInv, NEW t \in Tickets, Finalize(t)
  PROVE  /\ IInv'
         /\ Accepted' = Accepted /\ Running' = Running
         /\ Live' = Live \ {t}
<1> USE DEF IInv, Finalize
<1>1. stage[t] \in {"leaving", "done"}
  BY DEF ChannelsConsistent
<1>2. t \in Live
  BY <1>1 DEF Live, Accepted
<1>3. /\ Accepted' = Accepted /\ Running' = Running
      /\ Live' = Live \ {t}
  BY DEF TypeOK, Accepted, Running, Live
<1>4. /\ Cardinality(Live) \in Nat
      /\ Cardinality(Live) # 0
      /\ Cardinality(Live') = Cardinality(Live) - 1
  BY <1>2, <1>3, CountedSetsFinite, FS_RemoveElement, FS_CardinalityType, FS_EmptySet
<1>5. TypeOK'
  BY <1>4, LimitsType, NormalizedWeightType DEF TypeOK, CountersMatch, Reports
<1>6. IsFiniteSet(Accepted') /\ CountersMatch'
  BY <1>3, <1>4 DEF CountersMatch
<1>7. WorkConserving'
  BY DEF WorkConserving
<1>8. ChannelsConsistent'
  BY DEF TypeOK, ChannelsConsistent
<1> QED
  BY <1>3, <1>5, <1>6, <1>7, <1>8

\* A consumer that receives a result and finalizes it before anything else.
ReceiveAndFinalize(t) ==
  /\ results # <<>>
  /\ t = Head(results)
  /\ results' = Tail(results)
  /\ report' = [report EXCEPT ![t] = "finalized"]
  /\ outstanding' = outstanding - 1
  /\ totalWeight' = totalWeight - NormalizedWeight(t)
  /\ UNCHANGED <<stage, outcome, queue, active>>

LEMMA ConsumePreserves ==
  ASSUME IInv, NEW t \in Tickets, ReceiveAndFinalize(t)
  PROVE  /\ IInv'
         /\ report[t] = "sent"
         /\ stage[t] \in {"leaving", "done"}
<1> USE DEF IInv, ReceiveAndFinalize
<1>1. /\ results' = Tail(results)
      /\ Tail(results) \in Seq(Tickets)
      /\ Len(Tail(results)) = Len(results) - 1
      /\ Holds(results, t)
      /\ NoRepeats(Tail(results))
      /\ \A x : Holds(Tail(results), x) <=> Holds(results, x) /\ x # t
  BY TailFacts, ChannelsRestated DEF TypeOK
<1>2. report[t] = "sent" /\ stage[t] \in {"leaving", "done"}
  BY <1>1, ChannelsRestated
<1>3. t \in Live
  BY <1>2 DEF Live, Accepted
<1>4. /\ Accepted' = Accepted /\ Running' = Running
      /\ Live' = Live \ {t}
  BY DEF TypeOK, Accepted, Running, Live
<1>5. /\ Cardinality(Live) \in Nat
      /\ Cardinality(Live) # 0
      /\ Cardinality(Live') = Cardinality(Live) - 1
  BY <1>3, <1>4, CountedSetsFinite, FS_RemoveElement, FS_CardinalityType, FS_EmptySet
<1>6. TypeOK'
  BY <1>1, <1>5, LimitsType, NormalizedWeightType DEF TypeOK, CountersMatch, Reports
<1>7. IsFiniteSet(Accepted') /\ CountersMatch'
  BY <1>4, <1>5 DEF CountersMatch
<1>8. WorkConserving'
  BY DEF WorkConserving
<1>9. ChannelsConsistent'
  <2>1. \A x \in Tickets :
          /\ stage'[x] = "queued" <=> Holds(queue', x)
          /\ report'[x] = "sent" <=> Holds(results', x)
          /\ report'[x] # "none" <=> stage'[x] \in {"leaving", "done"}
    BY <1>1, <1>2, ChannelsRestated DEF TypeOK
  <2>2. NoRepeats(queue') /\ NoRepeats(results') /\ Len(results') <= Limit
    BY <1>1, LimitsType, ChannelsRestated DEF TypeOK
  <2> QED
    BY <2>1, <2>2 DEF ChannelsConsistent, Holds, NoRepeats
<1> QED
  BY <1>2, <1>6, <1>7, <1>8, <1>9

LEMMA StutterPreserves == IInv /\ UNCHANGED vars => IInv'
BY DEF IInv, vars, TypeOK, CountersMatch, WorkConserving, ChannelsConsistent,
       Accepted, Running, Live

LEMMA StepInvariant == IInv /\ [Next]_vars => IInv'
<1> SUFFICES ASSUME IInv, [Next]_vars PROVE IInv'
  OBVIOUS
<1>1. ASSUME NEW t \in Tickets, Enqueue(t) PROVE IInv'
  BY <1>1, TurnedAwayPreserves, AcceptedPreserves DEF Enqueue
<1>2. ASSUME NEW t \in Tickets, Run(t) PROVE IInv'
  BY <1>2, SubmitPreserves, SendPreserves, FinishPreserves DEF Run
<1>3. ASSUME NEW t \in Tickets, Consume(t) PROVE IInv'
  BY <1>3, ReceivePreserves, FinalizePreserves DEF Consume
<1>4. CASE UNCHANGED vars
  BY <1>4, StutterPreserves
<1> QED
  BY <1>1, <1>2, <1>3, <1>4 DEF Next

\* The strengthened invariant holds in every reachable state.
THEOREM Invariance == Spec => []IInv
BY InitInvariant, StepInvariant, PTL DEF Spec
-----------------------------------------------------------------------------
(***************************************************************************)
(* What the users of a pipeline rely on: which tickets it has, whose       *)
(* results are finalized, and that a reported ticket has an outcome.       *)
(***************************************************************************)
Outside == {"new", "refused", "rejected"}

OutcomesKnown == \A t \in Tickets : t \in Returned => outcome[t] # "none"

LEMMA EnqueueKeepsOutcomes ==
  ASSUME IInv, OutcomesKnown, NEW t \in Tickets, EnqueueAccepted(t) \/ EnqueueRejected(t)
  PROVE  /\ OutcomesKnown'
         /\ report[t] = "none"
         /\ \A x \in Tickets : x # t => stage'[x] = stage[x]
         /\ EnqueueAccepted(t) => stage'[t] \in {"submitting", "queued"}
         /\ EnqueueRejected(t) => stage'[t] = "rejected"
BY DEF IInv, TypeOK, ChannelsConsistent, OutcomesKnown, Returned,
       EnqueueAccepted, EnqueueRejected

LEMMA RunFrame ==
  ASSUME IInv, OutcomesKnown, NEW t \in Tickets, Run(t)
  PROVE  /\ OutcomesKnown'
         /\ outstanding' = outstanding
         /\ \A x \in Tickets :
              /\ stage[x] \in Outside \/ stage'[x] \in Outside => stage'[x] = stage[x]
              /\ report'[x] = "finalized" <=> report[x] = "finalized"
              /\ report[x] # "none" => outcome'[x] = outcome[x]
<1> USE DEF IInv, TypeOK, OutcomesKnown, Returned, Outside
<1>1. CASE Submit(t)
  BY <1>1 DEF Submit, ChannelsConsistent
<1>2. CASE AfterSubmit(t)
  BY <1>2 DEF AfterSubmit
<1>3. CASE SendResult(t)
  BY <1>3 DEF SendResult, ChannelsConsistent
<1>4. CASE FinishAndTakeNext(t)
  <2>1. queue # <<>> => Head(queue) \in Tickets /\ stage[Head(queue)] = "queued"
    BY TailFacts, ChannelsRestated
  <2> QED
    BY <1>4, <2>1 DEF FinishAndTakeNext
<1> QED
  BY <1>1, <1>2, <1>3, <1>4 DEF Run

\* An empty pipeline has nothing to report.
LEMMA NoneOutstanding ==
  ASSUME IInv, outstanding = 0
  PROVE  /\ \A t \in Tickets : stage[t] \in Outside \/ report[t] = "finalized"
         /\ results = <<>>
<1>1. Live = {}
  BY CountedSetsFinite, FS_EmptySet DEF IInv, CountersMatch
<1>2. results # <<>> => Head(results) \in Tickets /\ report[Head(results)] = "sent"
  BY TailFacts, ChannelsRestated DEF IInv, TypeOK
<1>3. \A t \in Tickets : report[t] = "sent" => stage[t] \in {"leaving", "done"}
  BY DEF IInv, ChannelsConsistent
<1> QED
  BY <1>1, <1>2, <1>3 DEF Live, Accepted, Outside
-----------------------------------------------------------------------------
(***************************************************************************)
(* What the runs check, for every instance.                                *)
(***************************************************************************)
\* Every counter of the pipeline stays in its range: at most limit active
\* submissions and at most maxItems outstanding tickets, and neither is ever
\* decremented below zero by finishAndTakeNext or Finalize.
THEOREM TypeCorrect == Spec => []TypeOK
<1>1. IInv => TypeOK
  BY DEF IInv
<1> QED
  BY <1>1, Invariance, PTL

\* active and outstanding count exactly the goroutines and the unreleased
\* tickets, whatever the interleaving of Enqueue, run and Finalize.
THEOREM CountersCorrect == Spec => []CountersMatch
<1>1. IInv => CountersMatch
  BY DEF IInv
<1> QED
  BY <1>1, Invariance, PTL

\* finishAndTakeNext and Enqueue never leave a ticket queued beside a free slot.
THEOREM NoneStranded == Spec => []WorkConserving
<1>1. IInv => WorkConserving
  BY DEF IInv
<1> QED
  BY <1>1, Invariance, PTL

\* The queue and the results channel hold each ticket at most once and agree
\* with what its goroutine has done.
THEOREM ChannelsCorrect == Spec => []ChannelsConsistent
<1>1. IInv => ChannelsConsistent
  BY DEF IInv
<1> QED
  BY <1>1, Invariance, PTL
-----------------------------------------------------------------------------
(***************************************************************************)
(* The refinement: each step of the pipeline is a step of the promise or   *)
(* leaves the promise unchanged. CountersMatch turns the code's tests on   *)
(* active and outstanding into the promise's tests on sets.                *)
(***************************************************************************)
WellFormedTickets == {t \in Tickets \ NilSubmit : Weight[t] >= 0}

TurnedAway == {t \in Tickets : stage[t] \in {"refused", "rejected"}}

Delivered == {t \in Tickets : report[t] \in {"received", "finalized"}}

\* The instance brings its own copy of Cardinality: the two are one operator.
LEMMA SameCardinality ==
  ASSUME NEW S
  PROVE  Promise!Cardinality(S) = Cardinality(S)
BY DEF Promise!Cardinality, Cardinality

LEMMA FitsExactly ==
  ASSUME IInv, NEW t \in Tickets
  PROVE  /\ Promise!Fits(t) <=> t \notin NilSubmit /\ Weight[t] >= 0 /\ ~AtCapacity(t)
         /\ Promise!Fresh(t) <=> stage[t] = "new"
<1>1. /\ totalWeight \in Int /\ NormalizedWeight(t) \in Int
      /\ Weight[t] \in Int
      /\ MaxWeight \in Int /\ MaxItems \in Int /\ outstanding \in Int
      /\ Cardinality(Live) = outstanding
  BY LimitsType, NormalizedWeightType, TicketsAssumption
  DEF IInv, TypeOK, CountersMatch
<1>2. Promise!Fits(t) <=> t \notin NilSubmit /\ Weight[t] >= 0 /\ ~AtCapacity(t)
  <2> DEFINE w == NormalizedWeight(t)
  <2>1. Promise!Fits(t) <=>
          /\ t \notin NilSubmit
          /\ Weight[t] >= 0
          /\ outstanding < MaxItems
          /\ w <= MaxWeight
          /\ totalWeight <= MaxWeight - w
    BY <1>1, SameCardinality DEF Promise!Fits
  <2>2. AtCapacity(t) <=>
          \/ outstanding >= MaxItems
          \/ w > MaxWeight
          \/ totalWeight > MaxWeight - w
    BY DEF AtCapacity, OverWeight
  <2>3. w \in Int
    BY <1>1
  <2> HIDE DEF w
  <2> QED
    BY <1>1, <2>1, <2>2, <2>3
<1>3. Promise!Fresh(t) <=> stage[t] = "new"
  BY DEF IInv, TypeOK, Stages, Promise!Fresh, Accepted
<1> QED
  BY <1>2, <1>3

LEMMA InitRefines == Init => Promise!Init
BY DEF Init, Promise!Init, Accepted, Running, Live, Returned, RunStages

LEMMA EnqueueRefines ==
  ASSUME IInv, NEW t \in Tickets, Enqueue(t)
  PROVE  Promise!TurnAway(t) \/ Promise!Accept(t)
<1>1. Returned' = Returned /\ Delivered' = Delivered
  BY DEF IInv, TypeOK, Enqueue, EnqueueRefused, EnqueueRejected, EnqueueAccepted,
         Returned, Delivered
<1>2. CASE EnqueueRefused(t) \/ EnqueueRejected(t)
  <2>1. Accepted' = Accepted /\ Running' = Running /\ Live' = Live
    BY <1>2 DEF IInv, TypeOK, Accepted, Running, Live, RunStages,
                EnqueueRefused, EnqueueRejected
  <2>2. TurnedAway' = TurnedAway \cup {t}
    BY <1>2 DEF IInv, TypeOK, TurnedAway, EnqueueRefused, EnqueueRejected
  <2>3. queue' = queue /\ totalWeight' = totalWeight
    BY <1>2 DEF EnqueueRefused, EnqueueRejected
  <2>4. Promise!Fresh(t) /\ ~Promise!Fits(t)
    BY <1>2, FitsExactly, TicketsAssumption DEF EnqueueRefused, EnqueueRejected
  <2> QED
    BY <1>1, <2>1, <2>2, <2>3, <2>4
    DEF Promise!TurnAway, TurnedAway, Delivered
<1>3. CASE EnqueueAccepted(t)
  <2>1. TurnedAway' = TurnedAway
    BY <1>3 DEF IInv, TypeOK, TurnedAway, EnqueueAccepted
  <2>2. Promise!Fresh(t) /\ Promise!Fits(t)
    BY <1>3, FitsExactly DEF EnqueueAccepted
  <2>3. /\ Accepted' = Accepted \cup {t}
        /\ Live' = Live \cup {t}
        /\ Running' = IF active < Limit THEN Running \cup {t} ELSE Running
    BY <1>3, AcceptedPreserves
  <2>4. /\ totalWeight' = totalWeight + NormalizedWeight(t)
        /\ queue' = IF active < Limit THEN queue ELSE Append(queue, t)
    BY <1>3 DEF EnqueueAccepted
  <2>5. Cardinality(Running) = active
    BY DEF IInv, CountersMatch
  <2> QED
    BY <1>1, <2>1, <2>2, <2>3, <2>4, <2>5, SameCardinality
    DEF Promise!Accept, TurnedAway, Delivered
<1> QED
  BY <1>2, <1>3 DEF Enqueue

LEMMA RunRefines ==
  ASSUME IInv, NEW t \in Tickets, Run(t)
  PROVE  Promise!Answer(t) \/ Promise!Leave(t) \/ UNCHANGED Promise!vars
<1>1. CASE Submit(t)
  <2>1. /\ TurnedAway' = TurnedAway /\ Delivered' = Delivered
        /\ Returned' = Returned \cup {t}
        /\ t \in Running \ Returned
        /\ queue' = queue /\ totalWeight' = totalWeight
    BY <1>1 DEF IInv, TypeOK, Submit, TurnedAway, Delivered, Returned, Running, RunStages
  <2> QED
    BY <1>1, <2>1, SubmitPreserves DEF Promise!Answer, TurnedAway, Delivered
<1>2. CASE AfterSubmit(t)
  <2>1. /\ TurnedAway' = TurnedAway /\ Delivered' = Delivered
        /\ Returned' = Returned
        /\ queue' = queue /\ totalWeight' = totalWeight
    BY <1>2 DEF IInv, TypeOK, AfterSubmit, TurnedAway, Delivered, Returned
  <2> QED
    BY <1>2, <2>1, SubmitPreserves DEF Promise!vars, TurnedAway, Delivered
<1>3. CASE SendResult(t)
  <2>1. /\ TurnedAway' = TurnedAway
        /\ Returned' = Returned
        /\ queue' = queue /\ totalWeight' = totalWeight
    BY <1>3 DEF IInv, TypeOK, SendResult, TurnedAway, Returned
  <2>2. Delivered' = Delivered
    BY <1>3 DEF IInv, TypeOK, ChannelsConsistent, SendResult, Delivered
  <2> QED
    BY <1>3, <2>1, <2>2, SendPreserves DEF Promise!vars, TurnedAway, Delivered
<1>4. CASE FinishAndTakeNext(t)
  <2>1. queue # <<>> => Head(queue) \in Tickets /\ stage[Head(queue)] = "queued"
    BY TailFacts, ChannelsRestated DEF IInv, TypeOK
  <2>2. /\ TurnedAway' = TurnedAway /\ Delivered' = Delivered
        /\ Returned' = Returned
    BY <1>4, <2>1 DEF IInv, TypeOK, FinishAndTakeNext, TurnedAway, Delivered, Returned
  <2>3. /\ t \in Running \cap Returned
        /\ totalWeight' = totalWeight
        /\ queue' = IF queue = <<>> THEN queue ELSE Tail(queue)
    BY <1>4 DEF FinishAndTakeNext, Running, Returned, RunStages
  <2> QED
    BY <1>4, <2>2, <2>3, FinishPreserves DEF Promise!Leave, TurnedAway, Delivered
<1> QED
  BY <1>1, <1>2, <1>3, <1>4 DEF Run

LEMMA ConsumeRefines ==
  ASSUME IInv, NEW t \in Tickets, Consume(t)
  PROVE  Promise!Deliver(t) \/ Promise!Release(t)
<1>1. CASE Receive(t)
  <2>1. /\ TurnedAway' = TurnedAway /\ Returned' = Returned
        /\ queue' = queue /\ totalWeight' = totalWeight
    BY <1>1 DEF Receive, TurnedAway, Returned
  <2>2. /\ Delivered' = Delivered \cup {t}
        /\ t \in Returned \ Delivered
    BY <1>1, ReceivePreserves
    DEF IInv, TypeOK, ChannelsConsistent, Receive, Delivered, Returned
  <2> QED
    BY <1>1, <2>1, <2>2, ReceivePreserves DEF Promise!Deliver, TurnedAway, Delivered
<1>2. CASE Finalize(t)
  <2>1. /\ TurnedAway' = TurnedAway /\ Returned' = Returned
        /\ queue' = queue
        /\ totalWeight' = totalWeight - NormalizedWeight(t)
    BY <1>2 DEF Finalize, TurnedAway, Returned
  <2>2. Delivered' = Delivered /\ t \in Delivered \cap Live
    BY <1>2 DEF IInv, TypeOK, ChannelsConsistent, Finalize, Delivered, Live, Accepted
  <2> QED
    BY <1>2, <2>1, <2>2, FinalizePreserves DEF Promise!Release, TurnedAway, Delivered
<1> QED
  BY <1>1, <1>2 DEF Consume

LEMMA StutterRefines == UNCHANGED vars => UNCHANGED Promise!vars
BY DEF vars, Promise!vars, Accepted, Running, Live, Returned

LEMMA StepRefines == IInv /\ [Next]_vars => [Promise!Next]_(Promise!vars)
<1> SUFFICES ASSUME IInv, [Next]_vars
             PROVE  Promise!Next \/ UNCHANGED Promise!vars
  OBVIOUS
<1>1. ASSUME NEW t \in Tickets, Enqueue(t) \/ Run(t) \/ Consume(t)
      PROVE  Promise!Next \/ UNCHANGED Promise!vars
  BY <1>1, EnqueueRefines, RunRefines, ConsumeRefines DEF Promise!Next
<1> QED
  BY <1>1, StutterRefines DEF Next

\* The pipeline implements CompletionPromise: its counters, goroutines and
\* channels are an implementation of "accept while there is room, submit in
\* order, at most limit at a time, answer once, deliver once".
THEOREM Refinement == Spec => KeepsPromise
<1>1. Spec => Promise!Init /\ [][Promise!Next]_(Promise!vars)
  BY InitRefines, StepRefines, Invariance, PTL DEF Spec
<1> QED
  BY <1>1 DEF KeepsPromise, Promise!Spec
=============================================================================
