------------------------- MODULE CompletionPromise -------------------------
(***************************************************************************)
(* What internal/completionpipe promises its callers, without goroutines,  *)
(* counters or channels:                                                   *)
(*   - a ticket is accepted exactly when fewer than MaxItems accepted      *)
(*     tickets are unreleased and its weight still fits under MaxWeight;   *)
(*   - at most Limit tickets occupy a submission slot, and a ticket waits  *)
(*     only when every slot is taken;                                      *)
(*   - waiting tickets take slots in the order they were accepted;         *)
(*   - an accepted ticket is answered once, its answer is delivered once,  *)
(*     and only a delivered ticket gives its room back.                    *)
(* CompletionPipe implements this module.                                  *)
(***************************************************************************)
EXTENDS Integers, Sequences, FiniteSets

CONSTANTS
  Tickets,    \* the completion tickets callers may hand over
  Limit,      \* submission slots
  MaxItems,   \* accepted tickets that may be unreleased
  MaxWeight,  \* total weight that may be unreleased
  Load(_),    \* the weight a ticket is charged for
  WellFormed  \* the tickets that can be submitted at all

VARIABLES
  turnedAway,  \* tickets refused
  accepted,    \* tickets accepted so far
  line,        \* accepted tickets waiting for a slot, oldest first
  busy,        \* tickets that occupy a slot
  answered,    \* tickets whose submission has returned
  delivered,   \* tickets whose answer the consumer has taken
  live,        \* accepted tickets that still take room
  load         \* weight of the live tickets

vars == <<turnedAway, accepted, line, busy, answered, delivered, live, load>>

Init ==
  /\ turnedAway = {}
  /\ accepted = {}
  /\ line = <<>>
  /\ busy = {}
  /\ answered = {}
  /\ delivered = {}
  /\ live = {}
  /\ load = 0

Fresh(t) == t \notin accepted \cup turnedAway

\* Room for one more ticket. MaxWeight - Load(t) is the code's own form: it
\* cannot overflow, whereas load + Load(t) could.
Fits(t) ==
  /\ t \in WellFormed
  /\ Cardinality(live) < MaxItems
  /\ Load(t) <= MaxWeight
  /\ load <= MaxWeight - Load(t)

TurnAway(t) ==
  /\ Fresh(t)
  /\ ~Fits(t)
  /\ turnedAway' = turnedAway \cup {t}
  /\ UNCHANGED <<accepted, line, busy, answered, delivered, live, load>>

Accept(t) ==
  /\ Fresh(t)
  /\ Fits(t)
  /\ accepted' = accepted \cup {t}
  /\ live' = live \cup {t}
  /\ load' = load + Load(t)
  /\ IF Cardinality(busy) < Limit
       THEN busy' = busy \cup {t} /\ line' = line
       ELSE line' = Append(line, t) /\ busy' = busy
  /\ UNCHANGED <<turnedAway, answered, delivered>>

Answer(t) ==
  /\ t \in busy \ answered
  /\ answered' = answered \cup {t}
  /\ UNCHANGED <<turnedAway, accepted, line, busy, delivered, live, load>>

Deliver(t) ==
  /\ t \in answered \ delivered
  /\ delivered' = delivered \cup {t}
  /\ UNCHANGED <<turnedAway, accepted, line, busy, answered, live, load>>

\* An answered ticket leaves its slot, and the oldest waiting ticket takes it.
Leave(t) ==
  /\ t \in busy \cap answered
  /\ IF line = <<>>
       THEN busy' = busy \ {t} /\ line' = line
       ELSE busy' = (busy \ {t}) \cup {Head(line)} /\ line' = Tail(line)
  /\ UNCHANGED <<turnedAway, accepted, answered, delivered, live, load>>

Release(t) ==
  /\ t \in delivered \cap live
  /\ live' = live \ {t}
  /\ load' = load - Load(t)
  /\ UNCHANGED <<turnedAway, accepted, line, busy, answered, delivered>>

Next ==
  \E t \in Tickets :
    TurnAway(t) \/ Accept(t) \/ Answer(t) \/ Deliver(t) \/ Leave(t) \/ Release(t)

Spec == Init /\ [][Next]_vars
=============================================================================
