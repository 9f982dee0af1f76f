------------------------ MODULE WorkflowFutureProofs ------------------------
(***************************************************************************)
(* Proofs about the futures of WorkflowExecution: the table of operations, *)
(* the signal channel and the types, for every number of futures and every *)
(* way workflow code chains them. futureImpl.set walks a chain; its order  *)
(* is a recursive function, so the proof first shows that the function     *)
(* exists and that everything it reaches but the first future was made by  *)
(* NewFuture.                                                              *)
(***************************************************************************)
EXTENDS WorkflowExecutionProofs

ManualFutures == {"manual"} \X (1 .. MaxManual)

LEMMA InductionOverNat ==
  ASSUME NEW S, 0 \in S, \A n \in Nat : n \in S => n + 1 \in S
  PROVE  Nat \subseteq S
<1> SUFFICES ASSUME Nat \ S # {} PROVE FALSE
  OBVIOUS
<1> DEFINE n == Min(Nat \ S)
<1>1. n \in Nat \ S /\ \A y \in Nat \ S : n <= y
  BY LeastVisited
<1> HIDE DEF n
<1>2. n # 0 /\ n - 1 \in Nat
  BY <1>1
<1>3. n - 1 \in S
  BY <1>1, <1>2
<1>4. (n - 1) + 1 \in S
  BY <1>2, <1>3
<1> QED
  BY <1>1, <1>2, <1>4

Iterates(g, base, step, n) ==
  g[0] = base /\ \A i \in 1 .. n : g[i] = step[i][g[i - 1]]

CanIterate(V, base, step, n) == \E g \in [0 .. n -> V] : Iterates(g, base, step, n)

\* Primitive recursion up to n, with a step that is itself a function.
LEMMA Recursion ==
  ASSUME NEW V, NEW base \in V, NEW step \in [Nat -> [V -> V]], NEW n \in Nat
  PROVE  CanIterate(V, base, step, n)
<1> USE DEF Iterates, CanIterate
<1> DEFINE Good(m, g) == g[0] = base /\ \A i \in 1 .. m : g[i] = step[i][g[i - 1]]
           S == {m \in Nat : \E g \in [0 .. m -> V] : Good(m, g)}
<1>1. 0 \in S
  <2> DEFINE g == [i \in 0 .. 0 |-> base]
  <2>1. g \in [0 .. 0 -> V] /\ Good(0, g)
    OBVIOUS
  <2> QED
    BY <2>1
<1>2. ASSUME NEW m \in Nat, m \in S PROVE m + 1 \in S
  <2>1. PICK h \in [0 .. m -> V] : Good(m, h)
    BY <1>2
  <2> DEFINE g == [i \in 0 .. (m + 1) |-> IF i <= m THEN h[i] ELSE step[m + 1][h[m]]]
  <2>2. step[m + 1][h[m]] \in V
    OBVIOUS
  <2>3. g \in [0 .. (m + 1) -> V]
    BY <2>2
  <2>4. ASSUME NEW i \in 1 .. (m + 1) PROVE g[i] = step[i][g[i - 1]]
    <3>1. CASE i <= m
      BY <2>1, <3>1
    <3>2. CASE i = m + 1
      BY <3>2
    <3> QED
      BY <3>1, <3>2
  <2>5. g[0] = base
    BY <2>1
  <2>6. Good(m + 1, g)
    BY <2>4, <2>5
  <2> HIDE DEF g
  <2> QED
    BY <2>3, <2>6
<1> HIDE DEF S
<1>3. n \in S
  BY <1>1, <1>2, InductionOverNat
<1> USE DEF S
<1> QED
  BY <1>3

(***************************************************************************)
(* FlattenSeq.                                                             *)
(***************************************************************************)
IsFlattening(g, ss) ==
  g = [i \in 1 .. Len(ss) |-> IF i = 1 THEN ss[i] ELSE g[i - 1] \o ss[i]]

Flattening(ss) == CHOOSE g : IsFlattening(g, ss)

LEMMA FlattenUnfolds ==
  ASSUME NEW ss, Len(ss) # 0
  PROVE  FlattenSeq(ss) = Flattening(ss)[Len(ss)]
BY DEF FlattenSeq, Flattening, IsFlattening

LEMMA FlattenType ==
  ASSUME NEW S, NEW ss \in Seq(Seq(S))
  PROVE  FlattenSeq(ss) \in Seq(S)
<1>1. CASE Len(ss) = 0
  <2>1. ss = <<>> /\ FlattenSeq(ss) = ss
    BY <1>1 DEF FlattenSeq
  <2>2. <<>> \in Seq(S)
    OBVIOUS
  <2> QED
    BY <2>1, <2>2, Zenon
<1>2. CASE Len(ss) # 0
  <2> DEFINE n == Len(ss)
             V == Seq(S)
             step == [i \in Nat |-> [v \in V |->
                        IF i \in 2 .. n THEN v \o ss[i] ELSE IF i = 1 THEN ss[1] ELSE <<>>]]
  <2>1. n \in Nat /\ n >= 1 /\ \A i \in 1 .. n : ss[i] \in V
    BY <1>2
  <2>2. step \in [Nat -> [V -> V]]
    <3> SUFFICES ASSUME NEW i \in Nat, NEW v \in V
                 PROVE  (IF i \in 2 .. n THEN v \o ss[i] ELSE IF i = 1 THEN ss[1] ELSE <<>>) \in V
      OBVIOUS
    <3>1. CASE i \in 2 .. n
      BY <2>1, <3>1
    <3>2. CASE i \notin 2 .. n
      BY <2>1, <3>2
    <3> QED
      BY <3>1, <3>2
  <2> HIDE DEF V
  <2>3. <<>> \in V
    BY DEF V
  <2> HIDE DEF step, n
  <2>31. n \in Nat
    BY <2>1
  <2>32. CanIterate(V, <<>>, step, n)
    BY <2>2, <2>3, <2>31, Recursion
  <2>4. PICK g \in [0 .. n -> V] : g[0] = <<>> /\ \A i \in 1 .. n : g[i] = step[i][g[i - 1]]
    BY <2>32 DEF CanIterate, Iterates
  <2>5. \A i \in 1 .. n : g[i] = IF i = 1 THEN ss[i] ELSE g[i - 1] \o ss[i]
    <3> SUFFICES ASSUME NEW i \in 1 .. n
                 PROVE  g[i] = IF i = 1 THEN ss[i] ELSE g[i - 1] \o ss[i]
      OBVIOUS
    <3>1. i \in Nat /\ g[i - 1] \in V /\ g[i] = step[i][g[i - 1]] /\ (i # 1 => i \in 2 .. n)
      BY <2>1, <2>4
    <3> QED
      BY <3>1 DEF step
  <2> DEFINE f == [i \in 1 .. n |-> g[i]]
  <2>6. IsFlattening(f, ss)
    <3>1. \A i \in 1 .. n : i # 1 => f[i - 1] = g[i - 1]
      BY <2>1
    <3> QED
      BY <2>5, <3>1 DEF IsFlattening, n
  <2>7. IsFlattening(Flattening(ss), ss)
    BY <2>6 DEF Flattening
  <2> DEFINE h == Flattening(ss)
  <2>8. \A i \in 1 .. n : h[i] = IF i = 1 THEN ss[i] ELSE h[i - 1] \o ss[i]
    BY <2>7 DEF IsFlattening, n
  <2> HIDE DEF h
  <2> DEFINE Typed == {i \in Nat : i + 1 \in 1 .. n => h[i + 1] \in V}
  <2>9. 0 \in Typed
    BY <2>1, <2>8
  <2>10. ASSUME NEW i \in Nat, i \in Typed PROVE i + 1 \in Typed
    <3> SUFFICES ASSUME (i + 1) + 1 \in 1 .. n PROVE h[(i + 1) + 1] \in V
      OBVIOUS
    <3>1. h[i + 1] \in V /\ ss[(i + 1) + 1] \in V
      BY <2>1, <2>10
    <3>2. h[(i + 1) + 1] = h[i + 1] \o ss[(i + 1) + 1]
      <4>1. (i + 1) + 1 # 1 /\ ((i + 1) + 1) - 1 = i + 1
        OBVIOUS
      <4> QED
        BY <2>8, <4>1
    <3> QED
      BY <3>1, <3>2 DEF V
  <2> HIDE DEF Typed
  <2>11. Nat \subseteq Typed
    BY <2>9, <2>10, InductionOverNat
  <2>12. h[n] \in V
    <3>1. n - 1 \in Nat /\ (n - 1) + 1 = n /\ n \in 1 .. n
      BY <2>1
    <3> QED
      BY <2>11, <3>1 DEF Typed
  <2> QED
    BY <1>2, <2>12, FlattenUnfolds DEF V, h, n
<1> QED
  BY <1>1, <1>2

(***************************************************************************)
(* futureImpl.set: the order in which a chain is set.                      *)
(***************************************************************************)
ChainedToManual == chained \in [Futures -> Seq(ManualFutures)]

\* What a set of f may set: f first, and after it only futures of NewFuture.
OrdersFrom(f) == {<<f>> \o w : w \in Seq(ManualFutures)}

SetOrders == {v \in [Futures -> Seq(Futures)] : \A f \in Futures : v[f] \in OrdersFrom(f)}

NextOrder(v, f) == <<f>> \o FlattenSeq([i \in DOMAIN chained[f] |-> v[chained[f][i]]])

IsSetOrder(g) ==
  g = [depth \in 0 .. (MaxManual + 1) |->
         [f \in Futures |-> IF depth = 0 THEN <<f>> ELSE NextOrder(g[depth - 1], f)]]

LEMMA SetOrderIsChosen == SetOrder = CHOOSE g : IsSetOrder(g)
BY DEF SetOrder, IsSetOrder, NextOrder

LEMMA ManualAreFutures == ManualFutures \subseteq Futures
BY DEF ManualFutures, Futures

LEMMA OrdersAreSequences ==
  ASSUME NEW f \in Futures, NEW order \in OrdersFrom(f)
  PROVE  /\ order \in Seq(Futures)
         /\ f \in ManualFutures => order \in Seq(ManualFutures)
         /\ Len(order) >= 1 /\ order[1] = f
         /\ \A i \in DOMAIN order : order[i] = f \/ order[i] \in ManualFutures
<1>1. PICK w \in Seq(ManualFutures) : order = <<f>> \o w
  BY DEF OrdersFrom
<1>2. w \in Seq(Futures) /\ <<f>> \in Seq(Futures)
  BY ManualAreFutures
<1>3. order \in Seq(Futures)
  BY <1>1, <1>2
<1>4. f \in ManualFutures => order \in Seq(ManualFutures)
  BY <1>1
<1>5. Len(order) = 1 + Len(w) /\ order[1] = f
  BY <1>1
<1>6. \A i \in DOMAIN order : order[i] = f \/ order[i] \in ManualFutures
  BY <1>1
<1> QED
  BY <1>3, <1>4, <1>5, <1>6

LEMMA NextOrderType ==
  ASSUME ChainedToManual, NEW v \in SetOrders, NEW f \in Futures
  PROVE  NextOrder(v, f) \in OrdersFrom(f)
<1> DEFINE ss == [i \in DOMAIN chained[f] |-> v[chained[f][i]]]
<1>1. chained[f] \in Seq(ManualFutures)
  BY DEF ChainedToManual
<1>2. ASSUME NEW i \in DOMAIN chained[f] PROVE v[chained[f][i]] \in Seq(ManualFutures)
  <2>1. chained[f][i] \in ManualFutures
    BY <1>1
  <2>2. chained[f][i] \in Futures
    BY <2>1, ManualAreFutures
  <2>3. v[chained[f][i]] \in OrdersFrom(chained[f][i])
    BY <2>2 DEF SetOrders
  <2> QED
    BY <2>1, <2>2, <2>3, OrdersAreSequences
<1>3. ss \in Seq(Seq(ManualFutures))
  BY <1>1, <1>2
<1>4. FlattenSeq(ss) \in Seq(ManualFutures)
  BY <1>3, FlattenType
<1> QED
  BY <1>4 DEF NextOrder, OrdersFrom

LEMMA SetOrderType ==
  ASSUME ChainedToManual
  PROVE  \A f \in Futures : Setting(f) \in OrdersFrom(f)
<1> DEFINE n == MaxManual + 1
           base == [f \in Futures |-> <<f>>]
           step == [i \in Nat |-> [v \in SetOrders |-> [f \in Futures |-> NextOrder(v, f)]]]
<1>1. n \in Nat
  BY ExecutionAssumption
<1>2. ASSUME NEW v, DOMAIN v = Futures, v = [f \in Futures |-> v[f]],
             \A f \in Futures : v[f] \in OrdersFrom(f)
      PROVE  v \in SetOrders
  BY <1>2, OrdersAreSequences DEF SetOrders
<1>3. base \in SetOrders
  <2>1. ASSUME NEW f \in Futures PROVE <<f>> \in OrdersFrom(f)
    <3>1. <<>> \in Seq(ManualFutures) /\ <<f>> = <<f>> \o <<>>
      OBVIOUS
    <3> QED
      BY <3>1 DEF OrdersFrom
  <2> QED
    BY <1>2, <2>1
<1>4. step \in [Nat -> [SetOrders -> SetOrders]]
  <2>1. ASSUME NEW v \in SetOrders PROVE [f \in Futures |-> NextOrder(v, f)] \in SetOrders
    BY <1>2, NextOrderType
  <2> QED
    BY <2>1
<1> HIDE DEF n, base, step
<1>5. CanIterate(SetOrders, base, step, n)
  BY <1>1, <1>3, <1>4, Recursion
<1>6. PICK g \in [0 .. n -> SetOrders] : g[0] = base /\ \A i \in 1 .. n : g[i] = step[i][g[i - 1]]
  BY <1>5 DEF CanIterate, Iterates
<1>7. ASSUME NEW i \in 0 .. n
      PROVE  g[i] = [f \in Futures |-> IF i = 0 THEN <<f>> ELSE NextOrder(g[i - 1], f)]
  <2>1. CASE i = 0
    BY <1>6, <2>1 DEF base
  <2>2. CASE i # 0
    <3>1. i \in Nat /\ i \in 1 .. n /\ i - 1 \in 0 .. n
      BY <1>1, <2>2
    <3>2. g[i - 1] \in SetOrders
      BY <3>1
    <3> QED
      BY <1>6, <2>2, <3>1, <3>2 DEF step
  <2> QED
    BY <2>1, <2>2
<1>8. IsSetOrder(g)
  BY <1>7 DEF IsSetOrder, n
<1>9. IsSetOrder(SetOrder)
  BY <1>8, SetOrderIsChosen
<1>10. \A i \in 0 .. n : SetOrder[i] =
         [f \in Futures |-> IF i = 0 THEN <<f>> ELSE NextOrder(SetOrder[i - 1], f)]
  BY <1>9 DEF IsSetOrder, n
<1> DEFINE Typed == {i \in Nat : i \in 0 .. n => SetOrder[i] \in SetOrders}
<1>11. 0 \in Typed
  BY <1>1, <1>3, <1>10 DEF base
<1>12. ASSUME NEW i \in Nat, i \in Typed PROVE i + 1 \in Typed
  <2> SUFFICES ASSUME i + 1 \in 0 .. n PROVE SetOrder[i + 1] \in SetOrders
    OBVIOUS
  <2>1. i \in 0 .. n /\ i + 1 # 0 /\ (i + 1) - 1 = i
    BY <1>1
  <2>2. SetOrder[i] \in SetOrders
    BY <1>12, <2>1
  <2>3. SetOrder[i + 1] = [f \in Futures |-> NextOrder(SetOrder[i], f)]
    BY <1>10, <2>1
  <2>4. SetOrder[i + 1] = step[i][SetOrder[i]]
    BY <2>2, <2>3 DEF step
  <2> QED
    BY <1>4, <2>2, <2>4
<1> HIDE DEF Typed
<1>13. Nat \subseteq Typed
  BY <1>11, <1>12, InductionOverNat
<1>14. SetOrder[n] \in SetOrders
  BY <1>1, <1>13 DEF Typed
<1> QED
  BY <1>14 DEF Setting, SetOrders, n

Entries(order) == {order[i] : i \in DOMAIN order}

LEMMA ReadyAfterFacts ==
  ASSUME NEW order \in Seq(Futures)
  PROVE  /\ ready \subseteq ReadyAfter(order)
         /\ ReadyAfter(order) \subseteq ready \cup Entries(order)
         /\ ~SetPanics(order) => ReadyAfter(order) = ready \cup Entries(order)
<1> DEFINE n == Len(order)
<1>1. DOMAIN order = 1 .. n /\ n \in Nat
  OBVIOUS
<1>2. CASE ~SetPanics(order)
  BY <1>2 DEF ReadyAfter, Entries
<1>3. CASE SetPanics(order)
  <2>1. SetTwice(order) \in SUBSET Nat /\ SetTwice(order) \subseteq 1 .. n /\ SetTwice(order) # {}
    BY <1>1, <1>3 DEF SetTwice, SetPanics
  <2>2. Min(SetTwice(order)) \in 1 .. n
    BY <2>1, LeastVisited
  <2>3. 1 .. (Min(SetTwice(order)) - 1) \subseteq DOMAIN order
    BY <1>1, <2>2
  <2> QED
    BY <1>3, <2>3 DEF ReadyAfter, Entries
<1> QED
  BY <1>2, <1>3

LEMMA SettingFacts ==
  ASSUME ChainedToManual, NEW f \in Futures
  PROVE  /\ Setting(f) \in Seq(Futures)
         /\ f \in Entries(Setting(f))
         /\ Entries(Setting(f)) \subseteq {f} \cup ManualFutures
<1>1. Setting(f) \in OrdersFrom(f)
  BY SetOrderType
<1>2. /\ Setting(f) \in Seq(Futures) /\ Len(Setting(f)) >= 1 /\ Setting(f)[1] = f
      /\ \A i \in DOMAIN Setting(f) : Setting(f)[i] = f \/ Setting(f)[i] \in ManualFutures
  BY <1>1, OrdersAreSequences
<1>3. 1 \in DOMAIN Setting(f)
  BY <1>2
<1> QED
  BY <1>2, <1>3 DEF Entries

\* The futures of an operation that a job sets, beside those chained to them.
FuturesOf(job) ==
  CASE job[1] = "childStarted"     -> {<<"started", job[2]>>}
    [] job[1] = "childStartFailed" -> {<<"started", job[2]>>, <<"result", job[2]>>}
    [] OTHER                       -> {<<"result", job[2]>>}

LEMMA JobFutures ==
  ASSUME NEW job \in Jobs
  PROVE  /\ job[1] \in {"resolved", "childStarted", "childStartFailed", "childDone"}
         /\ job[2] \in Seqs
         /\ <<"started", job[2]>> \in Futures /\ <<"result", job[2]>> \in Futures
BY DEF Jobs, Futures

LEMMA SetsFacts ==
  ASSUME ChainedToManual, NEW job \in Jobs
  PROVE  /\ Sets(job) \in Seq(Futures)
         /\ FuturesOf(job) \subseteq Entries(Sets(job))
         /\ Entries(Sets(job)) \subseteq FuturesOf(job) \cup ManualFutures
<1> DEFINE started == <<"started", job[2]>>
           result == <<"result", job[2]>>
<1>1. started \in Futures /\ result \in Futures
  BY JobFutures
<1>2. CASE job[1] = "childStarted"
  <2>1. Sets(job) = Setting(started) /\ FuturesOf(job) = {started}
    BY <1>2 DEF Sets, FuturesOf
  <2> QED
    BY <1>1, <2>1, SettingFacts
<1>3. CASE job[1] = "childStartFailed"
  <2>1. Sets(job) = Setting(started) \o Setting(result) /\ FuturesOf(job) = {started, result}
    BY <1>3 DEF Sets, FuturesOf
  <2>2. /\ Setting(started) \in Seq(Futures) /\ Setting(result) \in Seq(Futures)
        /\ started \in Entries(Setting(started)) /\ result \in Entries(Setting(result))
        /\ Entries(Setting(started)) \subseteq {started} \cup ManualFutures
        /\ Entries(Setting(result)) \subseteq {result} \cup ManualFutures
    BY <1>1, SettingFacts
  <2>3. ASSUME NEW a \in Seq(Futures), NEW b \in Seq(Futures)
        PROVE  a \o b \in Seq(Futures) /\ Entries(a \o b) = Entries(a) \cup Entries(b)
    <3> DEFINE c == a \o b
    <3>1. /\ c \in Seq(Futures) /\ DOMAIN c = 1 .. (Len(a) + Len(b))
          /\ DOMAIN a = 1 .. Len(a) /\ DOMAIN b = 1 .. Len(b)
          /\ Len(a) \in Nat /\ Len(b) \in Nat
          /\ \A i \in 1 .. Len(a) : c[i] = a[i]
          /\ \A i \in 1 .. Len(b) : c[Len(a) + i] = b[i]
      OBVIOUS
    <3> HIDE DEF c
    <3>2. ASSUME NEW i \in DOMAIN c PROVE c[i] \in Entries(a) \cup Entries(b)
      <4>1. CASE i <= Len(a)
        BY <3>1, <4>1 DEF Entries
      <4>2. CASE i > Len(a)
        <5>1. i - Len(a) \in 1 .. Len(b) /\ Len(a) + (i - Len(a)) = i
          BY <3>1, <4>2
        <5> QED
          BY <3>1, <5>1 DEF Entries
      <4> QED
        BY <3>1, <4>1, <4>2
    <3>3. \A i \in 1 .. Len(a) : i \in DOMAIN c
      BY <3>1
    <3>4. \A i \in 1 .. Len(b) : Len(a) + i \in DOMAIN c
      BY <3>1
    <3>5. Entries(a) \subseteq Entries(c) /\ Entries(b) \subseteq Entries(c)
      BY <3>1, <3>3, <3>4 DEF Entries
    <3>6. Entries(c) \subseteq Entries(a) \cup Entries(b)
      BY <3>2 DEF Entries
    <3> QED
      BY <3>1, <3>5, <3>6 DEF c
  <2> HIDE DEF started, result
  <2> QED
    BY <2>1, <2>2, <2>3
<1>4. CASE job[1] \notin {"childStarted", "childStartFailed"}
  <2>1. Sets(job) = Setting(result) /\ FuturesOf(job) = {result}
    BY <1>4 DEF Sets, FuturesOf
  <2> QED
    BY <1>1, <2>1, SettingFacts
<1> QED
  BY <1>2, <1>3, <1>4
-----------------------------------------------------------------------------
(***************************************************************************)
(* The invariant, on top of the one of WorkflowExecutionProofs.            *)
(***************************************************************************)
RoundTypes ==
  /\ activations \in 0 .. MaxActivations
  /\ jobs.signals \in 0 .. MaxSignals
  /\ registered \in BOOLEAN
  /\ round \in [todo : Seq(Jobs), kept : Seq(Jobs), applied : BOOLEAN, before : Nat \X Nat]

FutureTypes ==
  /\ ready \subseteq Futures
  /\ ChainedToManual
  /\ manual \in 0 .. MaxManual
  /\ kindOf \in [Seqs -> {"plain", "child", None}]
  /\ operations \subseteq 1 .. nextSequence

\* No result is set before its operation is started.
OperationsMatch ==
  /\ OperationsTracked
  /\ \A s \in Seqs : s > nextSequence => <<"result", s>> \notin ready

SignalTypes ==
  /\ arrived \in Nat
  /\ got \in Seq(Nat)
  /\ buffer \in Seq(1 .. arrived)
  /\ waiters \in Seq(1 .. waits)

\* The signals received and those buffered are the ones that arrived, in order,
\* and each receiver waits for a future of its own.
SignalsMatch ==
  /\ Len(got) + Len(buffer) = arrived
  /\ \A i \in DOMAIN got : got[i] = i
  /\ \A i \in DOMAIN buffer : buffer[i] = Len(got) + i
  /\ buffer # <<>> => waiters = <<>>
  /\ \A i, j \in DOMAIN waiters : waiters[i] = waiters[j] => i = j

ReceiversMatch ==
  \A k \in 1 .. MaxWaits :
    <<"signal", k>> \in ready <=> k <= waits /\ \A i \in DOMAIN waiters : waiters[i] # k

FInv ==
  /\ RoundTypes /\ FutureTypes /\ OperationsMatch
  /\ SignalTypes /\ SignalsMatch /\ ReceiversMatch

LEMMA MoreBounds ==
  /\ MaxSeq \in Nat /\ MaxManual \in Nat /\ MaxWaits \in Nat
  /\ MaxActivations \in Nat /\ MaxSignals \in Nat
BY ExecutionAssumption

LEMMA FutureInit == Init => FInv
<1> SUFFICES ASSUME Init PROVE FInv
  OBVIOUS
<1>1. RoundTypes
  <2>1. <<>> \in Seq(Jobs) /\ <<0, 0>> \in Nat \X Nat
    OBVIOUS
  <2>2. round \in [todo : Seq(Jobs), kept : Seq(Jobs), applied : BOOLEAN, before : Nat \X Nat]
    BY <2>1 DEF Init, NoRound
  <2>3. activations \in 0 .. MaxActivations /\ jobs.signals \in 0 .. MaxSignals
    BY MoreBounds DEF Init, NoJobs
  <2>4. registered \in BOOLEAN
    BY Zenon DEF Init
  <2> QED
    BY <2>2, <2>3, <2>4 DEF RoundTypes
<1>2. FutureTypes
  BY MoreBounds DEF Init, FutureTypes, ChainedToManual
<1>3. OperationsMatch
  BY DEF Init, OperationsMatch, OperationsTracked, Seqs
<1>4. SignalTypes /\ SignalsMatch
  BY DEF Init, SignalTypes, SignalsMatch
<1>5. ReceiversMatch
  BY MoreBounds DEF Init, ReceiversMatch
<1> QED
  BY <1>1, <1>2, <1>3, <1>4, <1>5 DEF FInv

(***************************************************************************)
(* What a step does to the futures, the operations and the signals.        *)
(***************************************************************************)
KeepFutures == UNCHANGED <<ready, chained, manual, nextSequence, kindOf, operations>>

KeepSignals == UNCHANGED <<arrived, got, buffer, waiters, waits>>

CodeSets == \E m \in 1 .. MaxManual : SetFuture(m) \/ \E f \in Futures : ChainFuture(m, f)

LEMMA FutureSteps ==
  ASSUME Next
  PROVE  \/ KeepFutures
         \/ DeliverSignal \/ ApplyJob \/ StartOperation \/ NewFuture \/ CodeSets
<1> USE DEF KeepFutures, futureVars, operationVars
<1>1. Deliver \/ Evict => KeepFutures
  BY DEF Deliver, Evict
<1>2. SignalsDelivered \/ StartUpdate \/ UpdatesStarted \/ KeepJob \/ RoundOver => KeepFutures
  BY DEF SignalsDelivered, StartUpdate, UpdatesStarted, KeepJob, RoundOver
<1>3. Resume \/ NextLoop \/ DriveReturns \/ AnswerQueries => KeepFutures
  BY DEF Resume, NextLoop, DriveReturns, AnswerQueries
<1>4. Go \/ TakeSignal \/ WaitForSignal \/ SetUpdateHandler => KeepFutures
  BY DEF Go, TakeSignal, WaitForSignal, SetUpdateHandler
<1>5. CoroutineReturns \/ CoroutineFails \/ (\E f \in Futures : Get(f)) => KeepFutures
  BY DEF CoroutineReturns, CoroutineFails, Get
<1> QED
  BY <1>1, <1>2, <1>3, <1>4, <1>5 DEF Next, Activate, WorkflowCode, CodeSets

LEMMA SignalSteps ==
  ASSUME Next
  PROVE  KeepSignals \/ DeliverSignal \/ TakeSignal \/ WaitForSignal
<1> USE DEF KeepSignals, signalVars
<1>1. Deliver \/ Evict => KeepSignals
  BY DEF Deliver, Evict
<1>2. SignalsDelivered \/ StartUpdate \/ UpdatesStarted \/ KeepJob \/ ApplyJob \/ RoundOver
        => KeepSignals
  BY DEF SignalsDelivered, StartUpdate, UpdatesStarted, KeepJob, ApplyJob, RoundOver
<1>3. Resume \/ NextLoop \/ DriveReturns \/ AnswerQueries => KeepSignals
  BY DEF Resume, NextLoop, DriveReturns, AnswerQueries
<1>4. StartOperation \/ Go \/ NewFuture \/ SetUpdateHandler => KeepSignals
  BY DEF StartOperation, Go, NewFuture, SetUpdateHandler
<1>5. CoroutineReturns \/ CoroutineFails \/ CodeSets \/ (\E f \in Futures : Get(f)) => KeepSignals
  BY DEF CoroutineReturns, CoroutineFails, Get, CodeSets, SetFuture, ChainFuture
<1> QED
  BY <1>1, <1>2, <1>3, <1>4, <1>5 DEF Next, Activate, WorkflowCode, CodeSets

\* Settable.Set and Settable.Chain set futures of NewFuture only, and chain
\* nothing else.
LEMMA CodeSetsFacts ==
  ASSUME FutureTypes, CodeSets
  PROVE  /\ ready \subseteq ready' /\ ready' \subseteq ready \cup ManualFutures
         /\ ready' \subseteq Futures
         /\ ChainedToManual'
         /\ UNCHANGED <<manual, nextSequence, kindOf, operations, phase>>
<1>1. PICK m \in 1 .. MaxManual : SetFuture(m) \/ \E f \in Futures : ChainFuture(m, f)
  BY DEF CodeSets
<1>2. <<"manual", m>> \in ManualFutures /\ <<"manual", m>> \in Futures
  BY ManualAreFutures DEF ManualFutures
<1>3. /\ ready \subseteq ReadyAfter(Setting(<<"manual", m>>))
      /\ ReadyAfter(Setting(<<"manual", m>>)) \subseteq ready \cup ManualFutures
  <2>1. Setting(<<"manual", m>>) \in Seq(Futures)
    BY <1>2, SettingFacts DEF FutureTypes
  <2>2. Entries(Setting(<<"manual", m>>)) \subseteq ManualFutures
    BY <1>2, SettingFacts DEF FutureTypes
  <2> QED
    BY <2>1, <2>2, ReadyAfterFacts
<1>4. CASE SetFuture(m)
  <2>1. ready' = ReadyAfter(Setting(<<"manual", m>>)) /\ chained' = chained
    BY <1>4 DEF SetFuture
  <2>2. UNCHANGED <<manual, nextSequence, kindOf, operations, phase>>
    BY <1>4 DEF SetFuture, operationVars, activationVars
  <2> QED
    BY <1>3, <2>1, <2>2, ManualAreFutures DEF FutureTypes, ChainedToManual
<1>5. ASSUME NEW f \in Futures, ChainFuture(m, f)
      PROVE  /\ ready \subseteq ready' /\ ready' \subseteq ready \cup ManualFutures
             /\ ChainedToManual'
             /\ UNCHANGED <<manual, nextSequence, kindOf, operations, phase>>
  <2>1. UNCHANGED <<manual, nextSequence, kindOf, operations, phase>>
    BY <1>5 DEF ChainFuture, operationVars, activationVars
  <2>2. CASE f \in ready
    <3>1. ready' = ReadyAfter(Setting(<<"manual", m>>)) /\ chained' = chained
      BY <1>5, <2>2 DEF ChainFuture
    <3> QED
      BY <1>3, <2>1, <3>1 DEF FutureTypes, ChainedToManual
  <2>3. CASE f \notin ready
    <3>1. ready' = ready /\ chained' = [chained EXCEPT ![f] = Append(@, <<"manual", m>>)]
      BY <1>5, <2>3 DEF ChainFuture
    <3>2. Append(chained[f], <<"manual", m>>) \in Seq(ManualFutures)
      BY <1>2 DEF FutureTypes, ChainedToManual
    <3> QED
      BY <2>1, <3>1, <3>2 DEF FutureTypes, ChainedToManual
  <2> QED
    BY <2>1, <2>2, <2>3
<1> QED
  BY <1>1, <1>4, <1>5, ManualAreFutures DEF FutureTypes

\* tryApply for an outstanding operation: the panic leaves everything but some
\* futures alone, otherwise exactly the operation's futures are set.
LEMMA ApplyFacts ==
  ASSUME RoundTypes, FutureTypes, ApplyJob
  PROVE  \E job \in Jobs :
           /\ job = Head(round.todo) /\ job[2] \in operations
           /\ ready \subseteq ready' /\ ready' \subseteq Futures
           /\ ready' \subseteq ready \cup FuturesOf(job) \cup ManualFutures
           /\ \/ phase' \in {"stopped", "panicked"} /\ operations' = operations
              \/ /\ phase' = "applying" /\ ~Mismatched(job)
                 /\ FuturesOf(job) \subseteq ready'
                 /\ operations' = IF job[1] = "childStarted" THEN operations
                                                             ELSE operations \ {job[2]}
           /\ UNCHANGED <<chained, manual, nextSequence, kindOf>>
<1> DEFINE job == Head(round.todo)
<1>1. job \in Jobs
  BY DEF ApplyJob, RoundTypes
<1>2. /\ ready \subseteq ReadyAfter(Sets(job))
      /\ ReadyAfter(Sets(job)) \subseteq ready \cup FuturesOf(job) \cup ManualFutures
      /\ ~SetPanics(Sets(job)) => FuturesOf(job) \subseteq ReadyAfter(Sets(job))
  BY <1>1, SetsFacts, ReadyAfterFacts DEF FutureTypes
<1>3. FuturesOf(job) \subseteq Futures
  BY <1>1, JobFutures DEF FuturesOf
<1>4. UNCHANGED <<chained, manual, nextSequence, kindOf>>
  BY DEF ApplyJob
<1>5. job[2] \in operations /\ phase = "applying"
  BY DEF ApplyJob
<1>6. CASE Mismatched(job) /\ Fail /\ UNCHANGED <<ready, operations>>
  BY <1>1, <1>3, <1>4, <1>5, <1>6 DEF Fail, FutureTypes
<1>7. CASE ~Mismatched(job) /\ ready' = ReadyAfter(Sets(job))
           /\ phase' = "panicked" /\ UNCHANGED operations
  BY <1>1, <1>2, <1>3, <1>4, <1>5, <1>7, ManualAreFutures DEF FutureTypes
<1>8. CASE /\ ~Mismatched(job) /\ ready' = ReadyAfter(Sets(job)) /\ ~SetPanics(Sets(job))
           /\ operations' = IF job[1] = "childStarted" THEN operations
                                                       ELSE RemoveOperation(job[2])
           /\ phase' = phase
  BY <1>1, <1>2, <1>3, <1>4, <1>5, <1>8, ManualAreFutures DEF FutureTypes, RemoveOperation
<1> QED
  BY <1>6, <1>7, <1>8 DEF ApplyJob
-----------------------------------------------------------------------------
(***************************************************************************)
(* The steps preserve the invariant.                                       *)
(***************************************************************************)
LEMMA PendingJobs ==
  ASSUME NEW n, NEW pending \in SeqOf(Jobs \ resolved, n)
  PROVE  pending \in Seq(Jobs)
BY DEF SeqOf

LEMMA RoundTypesKept ==
  ASSUME Types, FInv, Next
  PROVE  RoundTypes'
<1>0. /\ RoundTypes /\ FutureTypes /\ arrived \in Nat
      /\ jobs \in [signals : Int, updates : Seq(UpdateIDs), query : BOOLEAN]
  BY DEF FInv, SignalTypes, Types, ActivationTypes
<1> DEFINE Same == UNCHANGED <<activations, jobs, round, registered>>
<1>1. Same => RoundTypes'
  BY <1>0 DEF RoundTypes
<1> HIDE DEF Same
<1>2. CASE Deliver
  <2>1. PICK signals \in 0 .. (MaxSignals - arrived), updates \in 0 .. (MaxUpdates - sentUpdates),
             query \in Queries,
             pending \in SeqOf(Jobs \ resolved, MaxJobs - Cardinality(resolved)) :
          /\ jobs' = [signals |-> signals, query |-> query,
                      updates |-> [i \in 1 .. updates |-> sentUpdates + i]]
          /\ round' = [NoRound EXCEPT !.todo = pending]
    BY <1>2 DEF Deliver
  <2>2. pending \in Seq(Jobs)
    BY PendingJobs
  <2>3. <<>> \in Seq(Jobs) /\ <<0, 0>> \in Nat \X Nat
    OBVIOUS
  <2>4. round' \in [todo : Seq(Jobs), kept : Seq(Jobs), applied : BOOLEAN, before : Nat \X Nat]
    BY <2>1, <2>2, <2>3 DEF NoRound
  <2>5. jobs'.signals \in 0 .. MaxSignals
    BY <1>0, <2>1, MoreBounds
  <2>6. activations' \in 0 .. MaxActivations /\ registered' = registered
    BY <1>0, <1>2, MoreBounds DEF Deliver, RoundTypes
  <2> QED
    BY <1>0, <2>4, <2>5, <2>6 DEF RoundTypes
<1>3. Evict \/ SignalsDelivered \/ UpdatesStarted \/ Resume \/ NextLoop => RoundTypes'
  BY <1>1 DEF Same, Evict, SignalsDelivered, UpdatesStarted, Resume, NextLoop, updateVars
<1>4. CASE DeliverSignal
  <2>1. /\ jobs.signals > 0 /\ jobs' = [jobs EXCEPT !.signals = @ - 1]
        /\ UNCHANGED <<activations, round, registered>>
    BY <1>4 DEF DeliverSignal, updateVars
  <2>2. jobs'.signals = jobs.signals - 1
    BY <1>0, <2>1
  <2> QED
    BY <1>0, <2>1, <2>2, MoreBounds DEF RoundTypes
<1>5. CASE StartUpdate
  <2>1. /\ jobs' = [jobs EXCEPT !.updates = Tail(@)]
        /\ UNCHANGED <<activations, round, registered>>
    BY <1>5 DEF StartUpdate
  <2>2. jobs'.signals = jobs.signals
    BY <1>0, <2>1
  <2> QED
    BY <1>0, <2>1, <2>2 DEF RoundTypes
<1>6. CASE KeepJob
  <2>1. /\ round.todo # <<>>
        /\ round' = [round EXCEPT !.todo = Tail(@), !.kept = Append(@, Head(round.todo))]
        /\ UNCHANGED <<activations, jobs, registered>>
    BY <1>6 DEF KeepJob, updateVars
  <2>2. Tail(round.todo) \in Seq(Jobs) /\ Append(round.kept, Head(round.todo)) \in Seq(Jobs)
    BY <1>0, <2>1 DEF RoundTypes
  <2> QED
    BY <1>0, <2>1, <2>2 DEF RoundTypes
<1>7. CASE ApplyJob
  <2>1. /\ round.todo # <<>>
        /\ \/ round' = round
           \/ round' = [round EXCEPT !.todo = Tail(@), !.applied = TRUE]
        /\ UNCHANGED <<activations, jobs, registered>>
    BY <1>7 DEF ApplyJob, updateVars
  <2>2. Tail(round.todo) \in Seq(Jobs)
    BY <1>0, <2>1 DEF RoundTypes
  <2> QED
    BY <1>0, <2>1, <2>2 DEF RoundTypes
<1>8. CASE RoundOver
  <2>1. /\ round' = [round EXCEPT !.before = <<nextSequence, Cardinality(operations)>>]
        /\ UNCHANGED <<activations, jobs, registered>>
    BY <1>8 DEF RoundOver, updateVars
  <2>2. nextSequence \in Nat /\ operations \subseteq 1 .. nextSequence
    BY <1>0, MoreBounds DEF FutureTypes, Types, CounterTypes
  <2>3. Cardinality(operations) \in Nat
    <3>1. IsFiniteSet(1 .. nextSequence)
      BY <2>2, FS_Interval
    <3> QED
      BY <2>2, <3>1, FS_Subset, FS_CardinalityType
  <2> QED
    BY <1>0, <2>1, <2>2, <2>3 DEF RoundTypes
<1>9. CASE DriveReturns
  <2>1. /\ \/ round' = round
           \/ round' = [round EXCEPT !.todo = round.kept, !.kept = <<>>, !.applied = FALSE]
        /\ UNCHANGED <<activations, jobs, registered>>
    BY <1>9 DEF DriveReturns, updateVars
  <2>2. <<>> \in Seq(Jobs)
    OBVIOUS
  <2> QED
    BY <1>0, <2>1, <2>2 DEF RoundTypes
<1>10. CASE AnswerQueries
  <2>1. <<>> \in Seq(Jobs) /\ <<0, 0>> \in Nat \X Nat
    OBVIOUS
  <2>2. jobs' = NoJobs /\ round' = NoRound /\ UNCHANGED <<activations, registered>>
    BY <1>10 DEF AnswerQueries, updateVars
  <2> QED
    BY <1>0, <2>1, <2>2, MoreBounds DEF RoundTypes, NoJobs, NoRound
<1>11. CASE SetUpdateHandler
  <2>1. UNCHANGED <<activations, jobs, round>> /\ registered' = TRUE
    BY <1>11 DEF SetUpdateHandler, activationVars
  <2>2. registered' \in BOOLEAN
    BY <2>1, Zenon
  <2> QED
    BY <1>0, <2>1, <2>2 DEF RoundTypes
<1>12. StartOperation \/ Go \/ NewFuture \/ TakeSignal \/ WaitForSignal => RoundTypes'
  BY <1>1 DEF Same, StartOperation, Go, NewFuture, TakeSignal, WaitForSignal, activationVars,
              updateVars
<1>13. CoroutineReturns \/ CoroutineFails => RoundTypes'
  BY <1>1 DEF Same, CoroutineReturns, CoroutineFails, activationVars, updateVars
<1>14. CodeSets \/ (\E f \in Futures : Get(f)) => RoundTypes'
  BY <1>1 DEF Same, CodeSets, SetFuture, ChainFuture, Get, activationVars, updateVars
<1> QED
  BY <1>2, <1>3, <1>4, <1>5, <1>6, <1>7, <1>8, <1>9, <1>10, <1>11, <1>12, <1>13, <1>14
  DEF Next, Activate, WorkflowCode, CodeSets

\* What a delivered signal sets: the future of the oldest waiting receiver.
LEMMA DeliverSignalReady ==
  ASSUME FInv, waits \in 0 .. MaxWaits, DeliverSignal
  PROVE  /\ UNCHANGED <<chained, manual, nextSequence, kindOf, operations, phase>>
         /\ ready \subseteq ready' /\ ready' \subseteq Futures
         /\ ready' \subseteq ready \cup ({"signal"} \X (1 .. MaxWaits))
<1>1. UNCHANGED <<chained, manual, nextSequence, kindOf, operations, phase>>
  BY DEF DeliverSignal, operationVars
<1>2. CASE waiters = <<>>
  BY <1>1, <1>2 DEF DeliverSignal, FInv, FutureTypes
<1>3. CASE waiters # <<>>
  <2>1. Head(waiters) \in 1 .. waits
    BY <1>3 DEF FInv, SignalTypes
  <2>2. ready' = ready \cup {<<"signal", Head(waiters)>>}
    BY <1>3 DEF DeliverSignal
  <2>3. <<"signal", Head(waiters)>> \in {"signal"} \X (1 .. MaxWaits)
    BY <2>1, MoreBounds
  <2>4. {"signal"} \X (1 .. MaxWaits) \subseteq Futures
    BY DEF Futures
  <2> QED
    BY <1>1, <2>2, <2>3, <2>4 DEF FInv, FutureTypes
<1> QED
  BY <1>2, <1>3

LEMMA FutureTypesKept ==
  ASSUME Types, FInv, Next
  PROVE  FutureTypes'
<1>0. FutureTypes /\ RoundTypes /\ nextSequence \in 0 .. MaxSeq /\ waits \in 0 .. MaxWaits
  BY DEF FInv, Types, CounterTypes
<1>1. CASE KeepFutures
  BY <1>0, <1>1 DEF KeepFutures, FutureTypes, ChainedToManual
<1>2. CASE DeliverSignal
  BY <1>0, <1>2, DeliverSignalReady DEF FutureTypes, ChainedToManual
<1>3. CASE ApplyJob
  <2>1. PICK job \in Jobs :
          /\ ready' \subseteq Futures
          /\ operations' \subseteq operations
          /\ UNCHANGED <<chained, manual, nextSequence, kindOf>>
    BY <1>0, <1>3, ApplyFacts
  <2> QED
    BY <1>0, <2>1 DEF FutureTypes, ChainedToManual
<1>4. CASE StartOperation
  <2>1. /\ nextSequence < MaxSeq /\ nextSequence' = nextSequence + 1
        /\ operations' = operations \cup {nextSequence + 1}
        /\ UNCHANGED <<ready, chained, manual>>
    BY <1>4 DEF StartOperation, futureVars, NextSeq
  <2>2. PICK kind \in {"plain", "child"} : kindOf' = [kindOf EXCEPT ![nextSequence + 1] = kind]
    BY <1>4 DEF StartOperation, NextSeq
  <2>3. kindOf' \in [Seqs -> {"plain", "child", None}]
    BY <1>0, <2>2 DEF FutureTypes
  <2>4. operations' \subseteq 1 .. nextSequence'
    BY <1>0, <2>1, MoreBounds DEF FutureTypes
  <2> QED
    BY <1>0, <2>1, <2>3, <2>4 DEF FutureTypes, ChainedToManual
<1>5. CASE NewFuture
  <2>1. manual < MaxManual /\ manual' = manual + 1
        /\ UNCHANGED <<ready, chained, nextSequence, kindOf, operations>>
    BY <1>5 DEF NewFuture, operationVars
  <2>2. manual' \in 0 .. MaxManual
    BY <1>0, <2>1, MoreBounds DEF FutureTypes
  <2> QED
    BY <1>0, <2>1, <2>2 DEF FutureTypes, ChainedToManual
<1>6. CASE CodeSets
  BY <1>0, <1>6, CodeSetsFacts DEF FutureTypes
<1> QED
  BY <1>1, <1>2, <1>3, <1>4, <1>5, <1>6, FutureSteps

\* After a failure nothing but an eviction happens.
LEMMA FailureLasts ==
  ASSUME CurrentMatches, Next, phase \in {"panicked", "stopped"}
  PROVE  phase' \in {"panicked", "stopped"}
<1>1. current = None
  BY DEF CurrentMatches
<1>2. ~Deliver /\ (Evict => phase' = "stopped")
  BY DEF Deliver, Evict, Fail
<1>3. ~Activate
  BY DEF Activate, DeliverSignal, SignalsDelivered, StartUpdate, UpdatesStarted, KeepJob, ApplyJob,
         RoundOver, Resume, NextLoop, DriveReturns, AnswerQueries, Driving
<1>4. ~WorkflowCode
  BY <1>1 DEF WorkflowCode, StartOperation, Go, NewFuture, TakeSignal, WaitForSignal,
              SetUpdateHandler, CoroutineReturns, CoroutineFails, SetFuture, ChainFuture, Get
<1> QED
  BY <1>2, <1>3, <1>4 DEF Next

\* Setting futures of NewFuture or of receivers says nothing about operations.
LEMMA OtherFutures ==
  ASSUME OperationsMatch, NEW S,
         ready \subseteq ready', ready' \subseteq ready \cup S,
         \A s \in Seqs : <<"result", s>> \notin S,
         UNCHANGED <<nextSequence, kindOf, operations>>,
         phase' \notin {"panicked", "stopped"} => phase \notin {"panicked", "stopped"}
  PROVE  OperationsMatch'
<1>1. \A s \in Seqs : <<"result", s>> \in ready' <=> <<"result", s>> \in ready
  OBVIOUS
<1>2. \A s \in Seqs : <<"started", s>> \in ready => <<"started", s>> \in ready'
  OBVIOUS
<1> QED
  BY <1>1, <1>2 DEF OperationsMatch, OperationsTracked

LEMMA OperationsMatchKept ==
  ASSUME IInv, FInv, Next
  PROVE  OperationsMatch'
<1>0. /\ OperationsMatch /\ FutureTypes /\ RoundTypes /\ CurrentMatches
      /\ nextSequence \in 0 .. MaxSeq /\ waits \in 0 .. MaxWaits
  BY DEF FInv, IInv, Types, CounterTypes
<1>1. phase' \notin {"panicked", "stopped"} => phase \notin {"panicked", "stopped"}
  BY <1>0, FailureLasts
<1>2. CASE KeepFutures
  BY <1>0, <1>1, <1>2 DEF KeepFutures, OperationsMatch, OperationsTracked
<1>3. CASE DeliverSignal
  <2>1. \A s \in Seqs : <<"result", s>> \notin {"signal"} \X (1 .. MaxWaits)
    OBVIOUS
  <2> QED
    BY <1>0, <1>1, <1>3, <2>1, DeliverSignalReady, OtherFutures
<1>4. CASE CodeSets
  <2>1. \A s \in Seqs : <<"result", s>> \notin ManualFutures
    BY DEF ManualFutures
  <2> QED
    BY <1>0, <1>1, <1>4, <2>1, CodeSetsFacts, OtherFutures
<1>5. CASE NewFuture
  <2>1. UNCHANGED <<ready, nextSequence, kindOf, operations>>
    BY <1>5 DEF NewFuture, operationVars
  <2> QED
    BY <1>0, <1>1, <2>1 DEF OperationsMatch, OperationsTracked
<1>6. CASE StartOperation
  <2> DEFINE n == nextSequence + 1
  <2>1. /\ nextSequence' = n /\ n \in Seqs /\ operations' = operations \cup {n} /\ ready' = ready
        /\ phase = "driving" /\ phase' = "driving"
    BY <1>0, <1>6, MoreBounds
    DEF StartOperation, NextSeq, futureVars, activationVars, Seqs, CurrentMatches
  <2>2. PICK kind \in {"plain", "child"} : kindOf' = [kindOf EXCEPT ![n] = kind]
    BY <1>6 DEF StartOperation, NextSeq
  <2>3. n > nextSequence /\ <<"result", n>> \notin ready
    BY <1>0, <2>1 DEF OperationsMatch
  <2>4. \A s \in Seqs : s # n => kindOf'[s] = kindOf[s] /\ (s <= n <=> s <= nextSequence)
    BY <1>0, <2>1, <2>2 DEF FutureTypes, Seqs
  <2>5. ASSUME NEW s \in Seqs
        PROVE  /\ s \in operations' <=> s <= nextSequence' /\ <<"result", s>> \notin ready'
               /\ kindOf'[s] = "child" /\ <<"result", s>> \in ready' => <<"started", s>> \in ready'
    <3>1. CASE s = n
      BY <2>1, <2>3, <3>1
    <3>2. CASE s # n
      BY <1>0, <2>1, <2>4, <3>2 DEF OperationsMatch, OperationsTracked
    <3> QED
      BY <3>1, <3>2
  <2>6. \A s \in Seqs : s > nextSequence' => <<"result", s>> \notin ready'
    BY <1>0, <2>1 DEF OperationsMatch, Seqs
  <2> QED
    BY <2>5, <2>6 DEF OperationsMatch, OperationsTracked
<1>7. CASE ApplyJob
  <2>1. PICK job \in Jobs :
          /\ job[2] \in operations
          /\ ready \subseteq ready'
          /\ ready' \subseteq ready \cup FuturesOf(job) \cup ManualFutures
          /\ \/ phase' \in {"stopped", "panicked"} /\ operations' = operations
             \/ /\ phase' = "applying" /\ ~Mismatched(job)
                /\ FuturesOf(job) \subseteq ready'
                /\ operations' = IF job[1] = "childStarted" THEN operations
                                                            ELSE operations \ {job[2]}
          /\ UNCHANGED <<nextSequence, kindOf>>
    BY <1>0, <1>7, ApplyFacts
  <2>2. phase = "applying" /\ job[2] \in Seqs /\ job[2] <= nextSequence
    <3>1. phase = "applying"
      BY <1>7 DEF ApplyJob
    <3>2. job[2] \in Seqs
      BY JobFutures
    <3>3. job[2] \in 1 .. nextSequence
      BY <1>0, <2>1 DEF FutureTypes
    <3>4. job[2] <= nextSequence
      BY <3>3
    <3> QED
      BY <3>1, <3>2, <3>4
  <2>3. \A s \in Seqs : s # job[2] => (<<"result", s>> \in ready' <=> <<"result", s>> \in ready)
    <3>1. \A s \in Seqs : s # job[2] => <<"result", s>> \notin FuturesOf(job) \cup ManualFutures
      BY DEF FuturesOf, ManualFutures
    <3> QED
      BY <2>1, <3>1
  <2>4. \A s \in Seqs : s > nextSequence' => <<"result", s>> \notin ready'
    BY <1>0, <2>1, <2>2, <2>3 DEF OperationsMatch, Seqs
  <2>5. CASE phase' \in {"stopped", "panicked"}
    BY <2>4, <2>5 DEF OperationsMatch, OperationsTracked
  <2>6. CASE /\ phase' = "applying" /\ ~Mismatched(job)
             /\ FuturesOf(job) \subseteq ready'
             /\ operations' = IF job[1] = "childStarted" THEN operations
                                                         ELSE operations \ {job[2]}
    <3>1. ASSUME NEW s \in Seqs, s # job[2]
          PROVE  /\ s \in operations' <=> s <= nextSequence' /\ <<"result", s>> \notin ready'
                 /\ kindOf'[s] = "child" /\ <<"result", s>> \in ready' => <<"started", s>> \in ready'
      BY <1>0, <2>1, <2>2, <2>3, <2>6, <3>1 DEF OperationsMatch, OperationsTracked
    <3>2. CASE job[1] = "childStarted"
      <4>1. <<"result", job[2]>> \notin ready /\ <<"started", job[2]>> \in ready'
        BY <1>0, <2>1, <2>2, <2>6, <3>2 DEF OperationsMatch, OperationsTracked, FuturesOf
      <4>2. <<"result", job[2]>> \notin ready'
        BY <2>1, <3>2, <4>1 DEF FuturesOf, ManualFutures
      <4> QED
        BY <2>1, <2>2, <2>4, <2>6, <3>1, <3>2, <4>1, <4>2 DEF OperationsMatch, OperationsTracked
    <3>3. CASE job[1] # "childStarted"
      <4>1. <<"result", job[2]>> \in ready' /\ job[2] \notin operations'
        BY <2>6, <3>3 DEF FuturesOf
      <4>2. CASE job[1] = "childStartFailed"
        <5>1. <<"started", job[2]>> \in ready'
          BY <2>6, <4>2 DEF FuturesOf
        <5> QED
          BY <2>4, <3>1, <4>1, <5>1 DEF OperationsMatch, OperationsTracked
      <4>3. CASE job[1] = "childDone"
        <5>1. <<"started", job[2]>> \in ready'
          BY <2>1, <2>6, <4>3 DEF Mismatched
        <5> QED
          BY <2>4, <3>1, <4>1, <5>1 DEF OperationsMatch, OperationsTracked
      <4>4. CASE job[1] = "resolved"
        <5>1. kindOf'[job[2]] = "plain"
          BY <2>1, <2>6, <4>4 DEF Mismatched
        <5> QED
          BY <2>4, <3>1, <4>1, <5>1 DEF OperationsMatch, OperationsTracked
      <4> QED
        BY <3>3, <4>2, <4>3, <4>4, JobFutures
    <3> QED
      BY <3>2, <3>3
  <2> QED
    BY <2>1, <2>5, <2>6
<1> QED
  BY <1>2, <1>3, <1>4, <1>5, <1>6, <1>7, FutureSteps

\* Only a delivered signal sets the future of a receiver.
LEMMA OtherReceivers ==
  ASSUME ReceiversMatch, NEW S,
         ready \subseteq ready', ready' \subseteq ready \cup S,
         \A k \in 1 .. MaxWaits : <<"signal", k>> \notin S,
         UNCHANGED <<waits, waiters>>
  PROVE  ReceiversMatch'
<1>1. \A k \in 1 .. MaxWaits : <<"signal", k>> \in ready' <=> <<"signal", k>> \in ready
  OBVIOUS
<1> QED
  BY <1>1 DEF ReceiversMatch

LEMMA DeliverSignalKeeps ==
  ASSUME FInv, waits \in 0 .. MaxWaits, DeliverSignal
  PROVE  SignalTypes' /\ SignalsMatch' /\ ReceiversMatch'
<1>0. SignalTypes /\ SignalsMatch /\ ReceiversMatch
  BY DEF FInv
<1>1. arrived' = arrived + 1 /\ arrived' \in Nat /\ waits' = waits /\ waits \in Nat
  BY <1>0, MoreBounds DEF DeliverSignal, SignalTypes
<1>2. CASE waiters = <<>>
  <2>1. buffer' = Append(buffer, arrived + 1) /\ UNCHANGED <<waiters, got, ready>>
    BY <1>1, <1>2 DEF DeliverSignal
  <2>2. buffer \in Seq(Nat) /\ Len(buffer) \in Nat /\ Len(got) \in Nat
    BY <1>0 DEF SignalTypes
  <2>3. buffer' \in Seq(1 .. arrived')
    <3>1. buffer \in Seq(1 .. arrived') /\ arrived + 1 \in 1 .. arrived'
      BY <1>0, <1>1 DEF SignalTypes
    <3> QED
      BY <2>1, <3>1
  <2>4. SignalTypes'
    BY <1>0, <1>1, <2>1, <2>3 DEF SignalTypes
  <2>5. Len(buffer') = Len(buffer) + 1 /\ DOMAIN buffer' = 1 .. (Len(buffer) + 1)
    BY <2>1, <2>2
  <2>6. ASSUME NEW i \in DOMAIN buffer' PROVE buffer'[i] = Len(got) + i
    <3>1. CASE i \in DOMAIN buffer
      <4>1. buffer'[i] = buffer[i]
        BY <1>1, <2>1, <2>2, <3>1
      <4> QED
        BY <1>0, <3>1, <4>1 DEF SignalsMatch
    <3>2. CASE i = Len(buffer) + 1
      <4>1. buffer'[i] = arrived + 1
        BY <1>1, <2>1, <2>2, <3>2
      <4>2. Len(got) + Len(buffer) = arrived
        BY <1>0 DEF SignalsMatch
      <4>3. arrived + 1 = Len(got) + i
        BY <2>2, <3>2, <4>2
      <4> QED
        BY <4>1, <4>3
    <3>3. i \in DOMAIN buffer \/ i = Len(buffer) + 1
      BY <2>2, <2>5
    <3> QED
      BY <3>1, <3>2, <3>3
  <2>7. SignalsMatch'
    BY <1>0, <1>1, <1>2, <2>1, <2>2, <2>5, <2>6 DEF SignalsMatch
  <2>8. ReceiversMatch'
    BY <1>0, <1>1, <2>1 DEF ReceiversMatch
  <2> QED
    BY <2>4, <2>7, <2>8
<1>3. CASE waiters # <<>>
  <2> DEFINE first == Head(waiters)
  <2>1. /\ ready' = ready \cup {<<"signal", first>>} /\ waiters' = Tail(waiters)
        /\ got' = Append(got, arrived + 1) /\ buffer' = buffer
    BY <1>1, <1>3 DEF DeliverSignal
  <2>2. buffer = <<>>
    BY <1>0, <1>3 DEF SignalsMatch
  <2>3. /\ waiters \in Seq(Nat) /\ Len(waiters) \in Nat /\ Len(waiters) >= 1
        /\ waiters \in Seq(1 .. waits)
    BY <1>0, <1>3 DEF SignalTypes
  <2>4. waiters' \in Seq(1 .. waits)
    BY <1>3, <2>1, <2>3
  <2>5. /\ got' \in Seq(Nat) /\ Len(got') = Len(got) + 1 /\ DOMAIN got' = 1 .. (Len(got) + 1)
        /\ \A i \in 1 .. Len(got) : got'[i] = got[i]
        /\ got'[Len(got) + 1] = arrived + 1 /\ Len(got) \in Nat /\ DOMAIN got = 1 .. Len(got)
    BY <1>0, <1>1, <2>1 DEF SignalTypes
  <2>6. Len(got) = arrived /\ buffer' = <<>>
    BY <1>0, <1>1, <2>1, <2>2, <2>5 DEF SignalsMatch, SignalTypes
  <2>7. SignalTypes'
    BY <1>1, <2>4, <2>5, <2>6 DEF SignalTypes
  <2>8. ASSUME NEW i \in DOMAIN got' PROVE got'[i] = i
    <3>1. CASE i \in DOMAIN got
      BY <1>0, <2>5, <3>1 DEF SignalsMatch
    <3>2. CASE i = Len(got) + 1
      <4>1. got'[i] = arrived + 1
        BY <2>5, <3>2
      <4> QED
        BY <2>6, <3>2, <4>1
    <3>3. i \in DOMAIN got \/ i = Len(got) + 1
      BY <2>5
    <3> QED
      BY <3>1, <3>2, <3>3
  <2>9. /\ DOMAIN waiters = 1 .. Len(waiters) /\ DOMAIN waiters' = 1 .. (Len(waiters) - 1)
        /\ \A i \in 1 .. (Len(waiters) - 1) : waiters'[i] = waiters[i + 1]
        /\ first = waiters[1]
    BY <1>3, <2>1, <2>3
  <2>10. SignalsMatch'
    <3>1. ASSUME NEW i \in DOMAIN waiters', NEW j \in DOMAIN waiters', waiters'[i] = waiters'[j]
          PROVE  i = j
      <4>1. i + 1 \in DOMAIN waiters /\ j + 1 \in DOMAIN waiters
        BY <2>3, <2>9
      <4>2. waiters[i + 1] = waiters[j + 1]
        BY <2>9, <3>1
      <4>3. i + 1 = j + 1
        BY <1>0, <4>1, <4>2 DEF SignalsMatch
      <4>4. i \in Int /\ j \in Int
        BY <2>9
      <4> QED
        BY <4>3, <4>4
    <3> QED
      BY <1>1, <2>5, <2>6, <2>8, <3>1 DEF SignalsMatch
  <2>11. ASSUME NEW k \in 1 .. MaxWaits
         PROVE  <<"signal", k>> \in ready' <=>
                  k <= waits' /\ \A i \in DOMAIN waiters' : waiters'[i] # k
    <3>1. CASE k = first
      <4>1. k <= waits'
        BY <1>1, <2>3, <2>9, <3>1
      <4>2. ASSUME NEW i \in DOMAIN waiters' PROVE waiters'[i] # k
        <5>1. i + 1 \in DOMAIN waiters /\ 1 \in DOMAIN waiters /\ i + 1 # 1
          BY <2>3, <2>9
        <5>2. waiters[i + 1] # waiters[1]
          BY <1>0, <5>1 DEF SignalsMatch
        <5> QED
          BY <2>9, <3>1, <5>2
      <4> QED
        BY <2>1, <3>1, <4>1, <4>2
    <3>2. CASE k # first
      <4>1. <<"signal", k>> \in ready' <=> <<"signal", k>> \in ready
        BY <2>1, <3>2
      <4>2. (\A i \in DOMAIN waiters' : waiters'[i] # k) <=> (\A i \in DOMAIN waiters : waiters[i] # k)
        <5>1. ASSUME \A i \in DOMAIN waiters' : waiters'[i] # k, NEW i \in DOMAIN waiters
              PROVE  waiters[i] # k
          <6>1. CASE i = 1
            BY <2>9, <3>2, <6>1
          <6>2. CASE i # 1
            <7>1. i - 1 \in DOMAIN waiters' /\ (i - 1) + 1 = i
              BY <2>3, <2>9, <6>2
            <7> QED
              BY <2>9, <5>1, <7>1
          <6> QED
            BY <6>1, <6>2
        <5>2. ASSUME \A i \in DOMAIN waiters : waiters[i] # k, NEW i \in DOMAIN waiters'
              PROVE  waiters'[i] # k
          <6>1. i + 1 \in DOMAIN waiters
            BY <2>3, <2>9
          <6> QED
            BY <2>9, <5>2, <6>1
        <5> QED
          BY <5>1, <5>2
      <4> QED
        BY <1>0, <1>1, <4>1, <4>2 DEF ReceiversMatch
    <3> QED
      BY <3>1, <3>2
  <2>12. ReceiversMatch'
    BY <2>11 DEF ReceiversMatch
  <2> QED
    BY <2>7, <2>10, <2>12
<1> QED
  BY <1>2, <1>3

LEMMA TakeSignalKeeps ==
  ASSUME SignalTypes, SignalsMatch, TakeSignal
  PROVE  SignalTypes' /\ SignalsMatch'
<1>1. /\ buffer # <<>> /\ got' = Append(got, Head(buffer)) /\ buffer' = Tail(buffer)
      /\ UNCHANGED <<arrived, waiters, waits>>
  BY DEF TakeSignal, NothingBuffered
<1>2. /\ got \in Seq(Nat) /\ Len(got) \in Nat /\ arrived \in Nat
      /\ buffer \in Seq(1 .. arrived) /\ buffer \in Seq(Nat)
  BY DEF SignalTypes
<1>3. /\ Len(buffer) \in Nat /\ Len(buffer) >= 1
      /\ DOMAIN buffer = 1 .. Len(buffer) /\ DOMAIN got = 1 .. Len(got)
      /\ Head(buffer) = buffer[1] /\ Head(buffer) \in Nat
  BY <1>1, <1>2
<1>4. Head(buffer) = Len(got) + 1
  BY <1>3 DEF SignalsMatch
<1>5. /\ got' \in Seq(Nat) /\ Len(got') = Len(got) + 1 /\ DOMAIN got' = 1 .. (Len(got) + 1)
      /\ \A i \in 1 .. Len(got) : got'[i] = got[i]
      /\ got'[Len(got) + 1] = Len(got) + 1
  BY <1>1, <1>2, <1>3, <1>4
<1>6. /\ buffer' \in Seq(1 .. arrived) /\ Len(buffer') = Len(buffer) - 1
      /\ DOMAIN buffer' = 1 .. (Len(buffer) - 1)
      /\ \A i \in 1 .. (Len(buffer) - 1) : buffer'[i] = buffer[i + 1]
  BY <1>1, <1>2
<1>7. SignalTypes'
  BY <1>1, <1>2, <1>5, <1>6 DEF SignalTypes
<1>8. ASSUME NEW i \in DOMAIN got' PROVE got'[i] = i
  <2>1. CASE i \in DOMAIN got
    BY <1>3, <1>5, <2>1 DEF SignalsMatch
  <2>2. i \in DOMAIN got \/ i = Len(got) + 1
    BY <1>2, <1>3, <1>5
  <2> QED
    BY <1>5, <2>1, <2>2
<1>9. \A i \in DOMAIN buffer' : buffer'[i] = Len(got') + i
  <2> SUFFICES ASSUME NEW i \in 1 .. (Len(buffer) - 1) PROVE buffer[i + 1] = Len(got) + 1 + i
    BY <1>5, <1>6
  <2>1. i + 1 \in DOMAIN buffer
    BY <1>3
  <2> QED
    BY <1>2, <2>1 DEF SignalsMatch
<1>10. Len(got') + Len(buffer') = arrived'
  BY <1>1, <1>2, <1>3, <1>5, <1>6 DEF SignalsMatch
<1>11. waiters' = <<>>
  BY <1>1 DEF SignalsMatch
<1> QED
  BY <1>1, <1>7, <1>8, <1>9, <1>10, <1>11 DEF SignalsMatch

LEMMA WaitForSignalKeeps ==
  ASSUME FInv, waits \in 0 .. MaxWaits, WaitForSignal
  PROVE  SignalTypes' /\ SignalsMatch' /\ ReceiversMatch'
<1>0. SignalTypes /\ SignalsMatch /\ ReceiversMatch
  BY DEF FInv
<1>1. /\ buffer = <<>> /\ waits < MaxWaits /\ waits' = waits + 1
      /\ waiters' = Append(waiters, waits + 1)
      /\ UNCHANGED <<arrived, buffer, got, ready>>
  BY DEF WaitForSignal, NothingBuffered, futureVars
<1>2. waits \in Nat /\ waiters \in Seq(1 .. waits) /\ waiters \in Seq(Nat)
  BY <1>0, MoreBounds DEF SignalTypes
<1>3. /\ Len(waiters) \in Nat /\ DOMAIN waiters = 1 .. Len(waiters)
      /\ Len(waiters') = Len(waiters) + 1 /\ DOMAIN waiters' = 1 .. (Len(waiters) + 1)
      /\ \A i \in 1 .. Len(waiters) : waiters'[i] = waiters[i] /\ waiters[i] \in 1 .. waits
      /\ waiters'[Len(waiters) + 1] = waits + 1
  BY <1>1, <1>2
<1>4. waiters' \in Seq(1 .. waits')
  <2>1. waiters \in Seq(1 .. waits') /\ waits + 1 \in 1 .. waits'
    BY <1>1, <1>2
  <2> QED
    BY <1>1, <2>1
<1>5. SignalTypes'
  BY <1>0, <1>1, <1>4 DEF SignalTypes
<1>6. ASSUME NEW i \in DOMAIN waiters', NEW j \in DOMAIN waiters', waiters'[i] = waiters'[j]
      PROVE  i = j
  <2>1. CASE i \in DOMAIN waiters /\ j \in DOMAIN waiters
    BY <1>0, <1>3, <1>6, <2>1 DEF SignalsMatch
  <2>2. \A k \in DOMAIN waiters' : k \in DOMAIN waiters \/ k = Len(waiters) + 1
    BY <1>3
  <2>3. \A k \in DOMAIN waiters : waiters'[k] # waits + 1
    BY <1>2, <1>3
  <2> QED
    BY <1>3, <1>6, <2>1, <2>2, <2>3
<1>7. SignalsMatch'
  BY <1>0, <1>1, <1>6 DEF SignalsMatch
<1>8. ASSUME NEW k \in 1 .. MaxWaits
      PROVE  <<"signal", k>> \in ready' <=>
               k <= waits' /\ \A i \in DOMAIN waiters' : waiters'[i] # k
  <2>1. CASE k = waits + 1
    <3>1. <<"signal", k>> \notin ready
      BY <1>0, <1>2, <2>1 DEF ReceiversMatch
    <3>2. Len(waiters) + 1 \in DOMAIN waiters' /\ waiters'[Len(waiters) + 1] = k
      BY <1>3, <2>1
    <3> QED
      BY <1>1, <3>1, <3>2
  <2>2. CASE k # waits + 1
    <3>1. k <= waits' <=> k <= waits
      BY <1>1, <1>2, <2>2
    <3>2. (\A i \in DOMAIN waiters' : waiters'[i] # k) <=> (\A i \in DOMAIN waiters : waiters[i] # k)
      BY <1>2, <1>3, <2>2
    <3> QED
      BY <1>0, <1>1, <3>1, <3>2 DEF ReceiversMatch
  <2> QED
    BY <2>1, <2>2
<1>9. ReceiversMatch'
  BY <1>8 DEF ReceiversMatch
<1> QED
  BY <1>5, <1>7, <1>9

LEMMA SignalsKept ==
  ASSUME Types, FInv, Next
  PROVE  SignalTypes' /\ SignalsMatch' /\ ReceiversMatch'
<1>0. /\ SignalTypes /\ SignalsMatch /\ ReceiversMatch /\ FutureTypes /\ RoundTypes
      /\ waits \in 0 .. MaxWaits
  BY DEF FInv, Types, CounterTypes
<1>1. CASE DeliverSignal
  BY <1>0, <1>1, DeliverSignalKeeps
<1>2. CASE WaitForSignal
  BY <1>0, <1>2, WaitForSignalKeeps
<1>3. CASE TakeSignal
  <2>1. UNCHANGED <<ready, waits, waiters>>
    BY <1>3 DEF TakeSignal, futureVars
  <2> QED
    BY <1>0, <1>3, <2>1, TakeSignalKeeps DEF ReceiversMatch
<1>4. ASSUME KeepSignals, ~DeliverSignal PROVE SignalTypes' /\ SignalsMatch' /\ ReceiversMatch'
  <2>1. SignalTypes' /\ SignalsMatch' /\ UNCHANGED <<waits, waiters>>
    BY <1>0, <1>4 DEF KeepSignals, SignalTypes, SignalsMatch
  <2>2. CASE UNCHANGED ready
    BY <1>0, <2>1, <2>2 DEF ReceiversMatch
  <2>3. CASE CodeSets
    <3>1. \A k \in 1 .. MaxWaits : <<"signal", k>> \notin ManualFutures
      BY DEF ManualFutures
    <3> QED
      BY <1>0, <2>1, <2>3, <3>1, CodeSetsFacts, OtherReceivers
  <2>4. CASE ApplyJob
    <3>1. PICK job \in Jobs :
            ready \subseteq ready' /\ ready' \subseteq ready \cup FuturesOf(job) \cup ManualFutures
      BY <1>0, <2>4, ApplyFacts
    <3>2. \A k \in 1 .. MaxWaits : <<"signal", k>> \notin FuturesOf(job) \cup ManualFutures
      BY DEF FuturesOf, ManualFutures
    <3>3. ready' \subseteq ready \cup (FuturesOf(job) \cup ManualFutures)
      BY <3>1
    <3> QED
      BY <1>0, <2>1, <3>1, <3>2, <3>3, OtherReceivers
  <2>5. StartOperation \/ NewFuture => UNCHANGED ready
    BY DEF StartOperation, NewFuture, futureVars
  <2>6. KeepFutures => UNCHANGED ready
    BY DEF KeepFutures
  <2> QED
    BY <1>4, <2>1, <2>2, <2>3, <2>4, <2>5, <2>6, FutureSteps
<1> QED
  BY <1>1, <1>2, <1>3, <1>4, SignalSteps

LEMMA FutureStutter == ASSUME FInv, UNCHANGED vars PROVE FInv'
<1> USE DEF vars, activationVars, coroutineVars, futureVars, operationVars, signalVars, updateVars
<1>1. RoundTypes' /\ FutureTypes'
  BY DEF FInv, RoundTypes, FutureTypes, ChainedToManual
<1>2. OperationsMatch'
  BY DEF FInv, OperationsMatch, OperationsTracked
<1>3. SignalTypes' /\ SignalsMatch' /\ ReceiversMatch'
  BY DEF FInv, SignalTypes, SignalsMatch, ReceiversMatch
<1> QED
  BY <1>1, <1>2, <1>3 DEF FInv
-----------------------------------------------------------------------------
\* The invariant behind the theorems below: the futures of operations, of child
\* starts and of blocked receivers are set by their jobs and signals alone,
\* whatever workflow code makes, sets and chains with NewFuture.
THEOREM FutureInvariance == Spec => [](IInv /\ FInv)
<1>1. ASSUME IInv, FInv, Next PROVE FInv'
  <2>1. Types
    BY <1>1 DEF IInv
  <2> QED
    BY <1>1, <2>1, RoundTypesKept, FutureTypesKept, OperationsMatchKept, SignalsKept DEF FInv
<1>2. IInv /\ FInv /\ [Next]_vars => FInv'
  BY <1>1, FutureStutter
<1> QED
  BY Invariance, FutureInit, <1>2, PTL DEF Spec

\* Every variable of an execution keeps its type: among others, no activation,
\* operation, future, receiver or signal is counted beyond what there is, and
\* what is chained to a future is a future of NewFuture.
THEOREM TypeCorrect == Spec => []TypeOK
<1>1. ASSUME IInv, FInv PROVE TypeOK
  <2>1. Types /\ RoundTypes /\ FutureTypes /\ SignalTypes
    BY <1>1 DEF IInv, FInv
  <2>2. /\ phase \in Phases /\ activations \in 0 .. MaxActivations
        /\ jobs.signals \in 0 .. MaxSignals /\ jobs.updates \in Seq(UpdateIDs)
        /\ jobs.query \in BOOLEAN
    BY <2>1 DEF Types, ActivationTypes, RoundTypes
  <2>3. round.todo \in Seq(Jobs) /\ round.kept \in Seq(Jobs) /\ round.applied \in BOOLEAN
    BY <2>1 DEF RoundTypes
  <2>4. count \in Coroutines /\ count \in Nat
    BY <2>1, Bounds DEF Types, CoroutineTypes, Coroutines
  <2>5. /\ drive.for \in {"bootstrap", "retry", "final"} /\ drive.high \in BOOLEAN
        /\ drive.next \in Nat /\ drive.upto \in 0 .. count /\ drive.progressed \in BOOLEAN
    BY <2>1, <2>4 DEF Types, ActivationTypes, CoroutineTypes
  <2>6. {bootstrapped, terminal, registered} \subseteq BOOLEAN
    BY <2>1 DEF Types, ActivationTypes, RoundTypes
  <2>7. /\ role \in [Coroutines -> {NoRole, Root, Spawned} \cup HandlerRoles]
        /\ highPriority \in [Coroutines -> BOOLEAN]
        /\ waiting \in [Coroutines -> Futures \cup {None}]
        /\ done \subseteq ran /\ ran \subseteq 1 .. count
        /\ current \in ran \cup {None}
    BY <2>1 DEF Types, CoroutineTypes
  <2>8. chained \in [Futures -> Seq(Futures)]
    <3>1. Seq(ManualFutures) \subseteq Seq(Futures)
      BY ManualAreFutures
    <3> QED
      BY <2>1, <3>1 DEF FutureTypes, ChainedToManual
  <2>9. /\ ready \subseteq Futures
        /\ nextSequence \in 0 .. MaxSeq /\ operations \subseteq 1 .. nextSequence
        /\ kindOf \in [Seqs -> {"plain", "child", None}]
        /\ buffer \in Seq(1 .. arrived) /\ waiters \in Seq(1 .. waits)
        /\ answer \in [UpdateIDs -> Answers]
    BY <2>1 DEF Types, ActivationTypes, CounterTypes, FutureTypes, SignalTypes
  <2> QED
    BY <2>2, <2>3, <2>4, <2>5, <2>6, <2>7, <2>8, <2>9 DEF TypeOK
<1> QED
  BY FutureInvariance, <1>1, PTL

\* An operation is in the table from the command that starts it until its result
\* is set, once, and a child's result is never set before its start: tryApply
\* deletes what it resolves and refuses a job of the wrong kind.
THEOREM OperationsCorrect == Spec => []OperationsTracked
<1>1. FInv => OperationsTracked
  BY DEF FInv, OperationsMatch
<1> QED
  BY FutureInvariance, <1>1, PTL

\* Signals are handed to receivers in order of arrival, each once, the buffer
\* holds exactly the rest, and no receiver waits while there is one.
THEOREM SignalsOnce == Spec => []SignalsDeliveredOnce
<1>1. ASSUME IInv, FInv PROVE SignalsDeliveredOnce
  <2>0. SignalTypes /\ SignalsMatch /\ ReceiversMatch /\ waits \in 0 .. MaxWaits
    BY <1>1 DEF IInv, FInv, Types, CounterTypes
  <2>1. /\ got \in Seq(Nat) /\ buffer \in Seq(Nat) /\ arrived \in Nat
        /\ Len(got) \in Nat /\ Len(buffer) \in Nat /\ Len(got) + Len(buffer) = arrived
        /\ DOMAIN got = 1 .. Len(got) /\ DOMAIN buffer = 1 .. Len(buffer)
    BY <2>0 DEF SignalTypes, SignalsMatch
  <2> DEFINE all == got \o buffer
  <2>2. all \in Seq(Nat) /\ DOMAIN all = 1 .. arrived
    BY <2>1
  <2>3. ASSUME NEW i \in 1 .. arrived PROVE all[i] = i
    <3>1. CASE i <= Len(got)
      <4>1. i \in DOMAIN got /\ all[i] = got[i]
        BY <2>1, <3>1
      <4> QED
        BY <2>0, <4>1 DEF SignalsMatch
    <3>2. CASE i > Len(got)
      <4>1. i - Len(got) \in DOMAIN buffer /\ all[i] = buffer[i - Len(got)]
        BY <2>1, <3>2
      <4>2. buffer[i - Len(got)] = Len(got) + (i - Len(got))
        BY <2>0, <4>1 DEF SignalsMatch
      <4> QED
        BY <2>1, <4>1, <4>2
    <3> QED
      BY <2>1, <3>1, <3>2
  <2> HIDE DEF all
  <2>4. all = [i \in 1 .. arrived |-> i]
    BY <2>2, <2>3
  <2>5. ASSUME NEW k \in 1 .. waits
        PROVE  <<"signal", k>> \in ready <=> \A i \in DOMAIN waiters : waiters[i] # k
    <3>1. k \in 1 .. MaxWaits /\ k <= waits
      BY <2>0, MoreBounds
    <3> QED
      BY <2>0, <3>1 DEF ReceiversMatch
  <2>6. buffer # <<>> => waiters = <<>>
    BY <2>0 DEF SignalsMatch
  <2> QED
    BY <2>4, <2>5, <2>6 DEF SignalsDeliveredOnce, all
<1> QED
  BY FutureInvariance, <1>1, PTL
=============================================================================
