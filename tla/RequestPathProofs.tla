------------------------- MODULE RequestPathProofs -------------------------
(***************************************************************************)
(* Proofs about RequestPath, for any number of requests, workers, places   *)
(* in the queue, judges and events: the types, the conservation of the     *)
(* permits, the bound on the overrun of a judge budget and the truth of    *)
(* the telemetry.                                                          *)
(***************************************************************************)
EXTENDS RequestPath, TLAPS, FiniteSetTheorems

(***************************************************************************)
(* The inductive invariant.  A work item is in the queue once, and has an  *)
(* admitted caller.                                                        *)
(***************************************************************************)
Held == {r \in Texts : work[r] \in {"queued", "running"}}
Lost == {r \in Texts : work[r] = "cancelled"}

QueueInv ==
    /\ \A i \in 1 .. Len(queue) : work[queue[i]] = "queued"
    /\ \A i, j \in 1 .. Len(queue) : queue[i] = queue[j] => i = j
    /\ \A r \in Texts : reply[r] = "new" => work[r] = "none"

\* The judge calls that the work in the pool may still make under a snapshot
\* below the cap: what the cap can still be overrun by.
Tokens ==
    {t \in Texts \X (1 .. Members) :
        work[t[1]] \in {"queued", "running"} /\ snap[t[1]] < MaxCalls
            /\ calls[t[1]] < t[2]}

SpendInv == spend + Cardinality(Tokens) <= MaxCalls - 1 + Capacity * Members

\* The events of the batch in flight come after what was sent and before what
\* is buffered, and none is newer than the last decision.
EventInv ==
    /\ sent <= evals
    /\ \A i \in 1 .. Len(flight) : sent < flight[i] /\ flight[i] <= evals
    /\ \A i \in 1 .. Len(buffer) : sent < buffer[i] /\ buffer[i] <= evals
    /\ \A i, j \in 1 .. Len(flight) : i < j => flight[i] < flight[j]
    /\ \A i, j \in 1 .. Len(buffer) : i < j => buffer[i] < buffer[j]
    /\ \A i \in 1 .. Len(flight), j \in 1 .. Len(buffer) : flight[i] < buffer[j]

DecidedSet == {r \in Request : reply[r] \in Decided}
CountInv == evals = Cardinality(DecidedSet)

IInv == TypeOK /\ QueueInv /\ PermitsConserved /\ SpendInv /\ EventInv /\ CountInv

-----------------------------------------------------------------------------
\* The sets that are counted are finite.
LEMMA Finite ==
    /\ IsFiniteSet(Held) /\ Cardinality(Held) \in Nat
    /\ IsFiniteSet(Lost) /\ Cardinality(Lost) \in Nat
    /\ IsFiniteSet(Running) /\ Cardinality(Running) \in Nat
    /\ IsFiniteSet(DecidedSet) /\ Cardinality(DecidedSet) \in Nat
    /\ IsFiniteSet(Tokens) /\ Cardinality(Tokens) \in Nat
<1>1. IsFiniteSet(Texts) /\ IsFiniteSet(Request)
  BY PathAssumption, FS_Union DEF Request
<1>2. Held \subseteq Texts /\ Lost \subseteq Texts /\ Running \subseteq Texts
      /\ DecidedSet \subseteq Request /\ Tokens \subseteq Texts \X (1 .. Members)
  BY DEF Held, Lost, Running, DecidedSet, Tokens
<1>3. IsFiniteSet(Texts \X (1 .. Members))
  <2>1. IsFiniteSet(1 .. Members)
    BY PathAssumption, FS_Interval
  <2>2. QED
    BY <1>1, <2>1, FS_Product
<1>4. IsFiniteSet(Held) /\ IsFiniteSet(Lost) /\ IsFiniteSet(Running)
      /\ IsFiniteSet(DecidedSet) /\ IsFiniteSet(Tokens)
  BY <1>1, <1>2, <1>3, FS_Subset
<1>5. QED
  BY <1>4, FS_CardinalityType

LEMMA CapacityNat == Capacity \in Nat \ {0} /\ Capacity * Members \in Nat
<1>1. Capacity \in Nat \ {0}
  BY PathAssumption DEF Capacity
<1>2. QED
  BY <1>1, PathAssumption

\* Removing a work item shortens the queue by that item alone.
LEMMA Removed ==
    ASSUME queue \in Seq(Texts), NEW n \in 1 .. Len(queue)
    PROVE  /\ RemoveAt(queue, n) \in Seq(Texts)
           /\ Len(RemoveAt(queue, n)) = Len(queue) - 1
           /\ \A i \in 1 .. Len(queue) - 1 :
                 RemoveAt(queue, n)[i] = queue[IF i < n THEN i ELSE i + 1]
<1> DEFINE a == SubSeq(queue, 1, n - 1)
           b == SubSeq(queue, n + 1, Len(queue))
<1>1. /\ a \in Seq(Texts) /\ Len(a) = n - 1
      /\ \A i \in 1 .. n - 1 : a[i] = queue[i]
  OBVIOUS
<1>2. /\ b \in Seq(Texts) /\ Len(b) = Len(queue) - n
      /\ \A i \in 1 .. Len(queue) - n : b[i] = queue[n + i]
  OBVIOUS
<1>3. RemoveAt(queue, n) = a \o b
  BY DEF RemoveAt
<1> HIDE DEF a, b
<1>4. /\ a \o b \in Seq(Texts) /\ Len(a \o b) = Len(queue) - 1
      /\ \A i \in 1 .. Len(queue) - 1 :
            (a \o b)[i] = IF i < n THEN a[i] ELSE b[i - (n - 1)]
  <2>1. /\ a \o b \in Seq(Texts) /\ Len(a \o b) = Len(a) + Len(b)
        /\ \A i \in 1 .. Len(a) + Len(b) :
              (a \o b)[i] = IF i <= Len(a) THEN a[i] ELSE b[i - Len(a)]
    <3>1. a \in Seq(Texts) /\ b \in Seq(Texts)
      BY <1>1, <1>2
    <3>2. QED
      BY <3>1
  <2>2. Len(a) + Len(b) = Len(queue) - 1
    BY <1>1, <1>2
  <2>3. QED
    BY <1>1, <2>1, <2>2
<1>5. ASSUME NEW i \in 1 .. Len(queue) - 1
      PROVE  (a \o b)[i] = queue[IF i < n THEN i ELSE i + 1]
  <2>1. CASE i < n
    BY <1>1, <1>4, <2>1
  <2>2. CASE ~(i < n)
    <3>1. i - (n - 1) \in 1 .. Len(queue) - n /\ n + (i - (n - 1)) = i + 1
      BY <2>2
    <3>2. QED
      BY <1>2, <1>4, <2>2, <3>1
  <2>3. QED
    BY <2>1, <2>2
<1>6. QED
  BY <1>3, <1>4, <1>5

-----------------------------------------------------------------------------
\* A decision is counted once and adds one event, the newest.
LEMMA Emitted ==
    ASSUME TypeOK, EventInv, _emit_telemetry, _record_metrics
    PROVE  /\ buffer' \in Seq(Nat) /\ flight' \in Seq(Nat) /\ sent' \in Nat
           /\ evals' \in Nat /\ flusher' \in {"on", "off"}
           /\ EventInv'
<1> DEFINE b == Append(buffer, evals + 1)
<1>1. /\ evals' = evals + 1 /\ UNCHANGED <<flight, sent, flusher>>
      /\ buffer' \in {buffer, b, Tail(b)}
  BY DEF _emit_telemetry, _record_metrics, emit
<1>2. buffer \in Seq(Nat) /\ flight \in Seq(Nat) /\ sent \in Nat /\ evals \in Nat
      /\ flusher \in {"on", "off"}
  BY DEF TypeOK
<1>3. \A i \in 1 .. Len(buffer) : buffer[i] \in Nat
  BY <1>2
<1>4. \A i \in 1 .. Len(flight) : flight[i] \in Nat
  BY <1>2
<1>5. /\ b \in Seq(Nat) /\ Len(b) = Len(buffer) + 1 /\ b[Len(b)] = evals + 1
      /\ \A i \in 1 .. Len(buffer) : b[i] = buffer[i]
  BY <1>2
<1> HIDE DEF b
<1>6. /\ Tail(b) \in Seq(Nat) /\ Len(Tail(b)) = Len(buffer)
      /\ \A i \in 1 .. Len(buffer) : Tail(b)[i] = b[i + 1]
  <2>1. Len(b) # 0 /\ Len(b) - 1 = Len(buffer)
    BY <1>2, <1>5
  <2>2. b # <<>>
    BY <2>1
  <2>3. QED
    BY <1>5, <2>1, <2>2
<1>7. Len(buffer) \in Nat /\ Len(flight) \in Nat
  BY <1>2
<1>8. /\ \A i \in 1 .. Len(b) : b[i] \in Nat /\ sent < b[i] /\ b[i] <= evals + 1
      /\ \A i, j \in 1 .. Len(b) : i < j => b[i] < b[j]
      /\ \A i \in 1 .. Len(flight), j \in 1 .. Len(b) : flight[i] < b[j]
  <2>1. ASSUME NEW i \in 1 .. Len(b)
        PROVE  b[i] \in Nat /\ sent < b[i] /\ b[i] <= evals + 1
    <3>1. CASE i = Len(b)
      BY <1>2, <1>5, <3>1 DEF EventInv
    <3>2. CASE i # Len(b)
      <4>1. i \in 1 .. Len(buffer) /\ b[i] = buffer[i]
        BY <1>5, <1>7, <3>2
      <4>2. b[i] \in Nat /\ sent < b[i] /\ b[i] <= evals
        BY <1>3, <4>1 DEF EventInv
      <4>3. QED
        BY <1>2, <4>2
    <3>3. QED
      BY <3>1, <3>2
  <2>2. ASSUME NEW i \in 1 .. Len(b), NEW j \in 1 .. Len(b), i < j
        PROVE  b[i] < b[j]
    <3>1. i \in 1 .. Len(buffer) /\ b[i] = buffer[i] /\ buffer[i] <= evals
      BY <1>5, <1>7, <2>2 DEF EventInv
    <3>2. CASE j = Len(b)
      BY <1>2, <1>3, <1>5, <3>1, <3>2
    <3>3. CASE j # Len(b)
      <4>1. j \in 1 .. Len(buffer) /\ b[j] = buffer[j]
        BY <1>5, <1>7, <3>3
      <4>2. QED
        BY <2>2, <3>1, <4>1 DEF EventInv
    <3>4. QED
      BY <3>2, <3>3
  <2>3. ASSUME NEW i \in 1 .. Len(flight), NEW j \in 1 .. Len(b)
        PROVE  flight[i] < b[j]
    <3>1. flight[i] \in Nat /\ flight[i] <= evals
      BY <1>4 DEF EventInv
    <3>2. CASE j = Len(b)
      BY <1>2, <1>5, <3>1, <3>2
    <3>3. CASE j # Len(b)
      <4>1. j \in 1 .. Len(buffer) /\ b[j] = buffer[j]
        BY <1>5, <1>7, <3>3
      <4>2. QED
        BY <4>1 DEF EventInv
    <3>4. QED
      BY <3>2, <3>3
  <2>4. QED
    BY <2>1, <2>2, <2>3
<1>9. CASE buffer' = buffer
  BY <1>1, <1>2, <1>3, <1>4, <1>7, <1>9 DEF EventInv
<1>10. CASE buffer' = b
  BY <1>1, <1>2, <1>4, <1>5, <1>7, <1>8, <1>10 DEF EventInv
<1>11. CASE buffer' = Tail(b)
  <2>1. \A i \in 1 .. Len(buffer) : i + 1 \in 1 .. Len(b)
    BY <1>5, <1>7
  <2>2. /\ \A i \in 1 .. Len(buffer') : sent < buffer'[i] /\ buffer'[i] <= evals + 1
        /\ \A i \in 1 .. Len(flight), j \in 1 .. Len(buffer') : flight[i] < buffer'[j]
    BY <1>6, <1>8, <1>11, <2>1
  <2>3. ASSUME NEW i \in 1 .. Len(buffer'), NEW j \in 1 .. Len(buffer'), i < j
        PROVE  buffer'[i] < buffer'[j]
    <3>1. i + 1 \in 1 .. Len(b) /\ j + 1 \in 1 .. Len(b) /\ i + 1 < j + 1
      BY <1>6, <1>11, <2>1, <2>3
    <3>2. QED
      BY <1>6, <1>8, <1>11, <2>3, <3>1
  <2>4. sent' <= evals' /\ \A i \in 1 .. Len(flight) : sent < flight[i] /\ flight[i] <= evals + 1
    BY <1>1, <1>2, <1>4 DEF EventInv
  <2>5. QED
    BY <1>1, <1>2, <1>6, <1>11, <2>2, <2>3, <2>4 DEF EventInv
<1>12. QED
  BY <1>1, <1>9, <1>10, <1>11

Events == /\ buffer' \in Seq(Nat) /\ flight' \in Seq(Nat) /\ sent' \in Nat
          /\ evals' \in Nat /\ flusher' \in {"on", "off"}
          /\ EventInv'

Replies == reply' \in [Request -> {"new", "waiting"} \cup Decided \cup Refused]

\* A request is answered once, by a decision or a refusal.
LEMMA DecideStep ==
    ASSUME TypeOK, EventInv, CountInv, NEW r \in Request, reply[r] \in {"new", "waiting"},
           NEW how \in Decided, Decide(r, how)
    PROVE  /\ Replies /\ CountInv' /\ Events
           /\ \A q \in Request : reply'[q] = "new" => reply[q] = "new"
<1>1. reply' = [reply EXCEPT ![r] = how] /\ _emit_telemetry /\ _record_metrics
  BY DEF Decide
<1>2. reply \in [Request -> {"new", "waiting"} \cup Decided \cup Refused]
  BY DEF TypeOK
<1>3. Replies /\ reply'[r] = how /\ \A q \in Request : q # r => reply'[q] = reply[q]
  BY <1>1, <1>2 DEF Replies
<1>4. r \notin DecidedSet /\ DecidedSet' = DecidedSet \cup {r}
  BY <1>3 DEF DecidedSet, Decided
<1>5. Cardinality(DecidedSet') = Cardinality(DecidedSet) + 1
  BY <1>4, Finite, FS_AddElement
<1>6. CountInv'
  BY <1>1, <1>5 DEF CountInv, _record_metrics
<1>7. QED
  BY <1>1, <1>3, <1>6, Emitted DEF Events, Decided

LEMMA RefuseStep ==
    ASSUME TypeOK, EventInv, CountInv, NEW r \in Request, reply[r] \in {"new", "waiting"},
           NEW how \in Refused \cup {"waiting"}, reply' = [reply EXCEPT ![r] = how],
           UNCHANGED <<evals, teleVars>>
    PROVE  /\ Replies /\ CountInv' /\ Events
           /\ \A q \in Request : reply'[q] = "new" => reply[q] = "new"
<1>1. UNCHANGED <<evals, buffer, flight, sent, flusher>>
  BY DEF teleVars
<1>2. reply \in [Request -> {"new", "waiting"} \cup Decided \cup Refused]
  BY DEF TypeOK
<1>3. Replies /\ reply'[r] = how /\ \A q \in Request : q # r => reply'[q] = reply[q]
  BY <1>2 DEF Replies
<1>4. DecidedSet' = DecidedSet
  BY <1>3 DEF DecidedSet, Decided, Refused
<1>5. CountInv'
  BY <1>1, <1>4 DEF CountInv
<1>6. Events
  BY <1>1 DEF Events, EventInv, TypeOK
<1>7. QED
  BY <1>3, <1>5, <1>6 DEF Refused

\* A step that leaves the pool and the judges alone keeps what is said of them.
LEMMA PoolQuiet ==
    ASSUME QueueInv, PermitsConserved, UNCHANGED <<config, poolVars>>,
           \A q \in Request : reply'[q] = "new" => reply[q] = "new"
    PROVE  QueueInv' /\ PermitsConserved'
<1>1. UNCHANGED <<config, work, queue, permits>>
  BY DEF poolVars
<1>2. QueueInv'
  BY <1>1 DEF QueueInv, Request
<1>3. PermitsConserved'
  BY <1>1 DEF PermitsConserved, Running
<1>4. QED
  BY <1>2, <1>3

LEMMA SpendQuiet ==
    ASSUME SpendInv, UNCHANGED <<poolVars, judgeVars>>
    PROVE  SpendInv'
  BY DEF SpendInv, Tokens, poolVars, judgeVars

LEMMA HandlerStep ==
    ASSUME IInv, UNCHANGED <<config, poolVars, judgeVars>>, Replies, CountInv', Events,
           \A q \in Request : reply'[q] = "new" => reply[q] = "new"
    PROVE  IInv'
<1>1. TypeOK'
  BY DEF IInv, TypeOK, Replies, Events, poolVars, judgeVars
<1>2. QED
  BY <1>1, PoolQuiet, SpendQuiet DEF IInv, Events

LEMMA AnswerSteps ==
    ASSUME IInv, NEW r \in Request,
           TurnedAway(r) \/ ToolCall(r) \/ Overloaded(r) \/ DeadlinePasses(r)
    PROVE  IInv'
<1>1. CASE TurnedAway(r) \/ Overloaded(r)
  <2>1. reply[r] = "new" /\ Refuse(r, "refused") /\ UNCHANGED <<config, poolVars, judgeVars>>
    BY <1>1 DEF TurnedAway, Overloaded
  <2>2. QED
    BY <2>1, RefuseStep, HandlerStep DEF IInv, Refuse, Refused
<1>2. CASE ToolCall(r)
  <2>1. reply[r] = "new" /\ Decide(r, "200") /\ UNCHANGED <<config, poolVars, judgeVars>>
    BY <1>2 DEF ToolCall
  <2>2. QED
    BY <2>1, DecideStep, HandlerStep DEF IInv, Decided
<1>3. CASE DeadlinePasses(r)
  <2>1. /\ reply[r] = "waiting" /\ Decide(r, "blocked")
        /\ UNCHANGED <<config, poolVars, judgeVars>>
    BY <1>3 DEF DeadlinePasses
  <2>2. QED
    BY <2>1, DecideStep, HandlerStep DEF IInv, Decided
<1>4. QED
  BY <1>1, <1>2, <1>3

-----------------------------------------------------------------------------
\* What PermitsConserved says, in the sets of this module.
LEMMA Conserved ==
    PermitsConserved <=>
        /\ permits + Cardinality(Held) + Cardinality(Lost) = Capacity
        /\ "deadline" \in config => Lost = {}
        /\ Cardinality(Running) <= Workers
  BY DEF PermitsConserved, Held, Lost

\* Requests that fill the pool can make that many calls each.
LEMMA CallsBounded ==
    ASSUME NEW S \in SUBSET Texts, NEW T \in SUBSET (S \X (1 .. Members)),
           Cardinality(S) <= Capacity
    PROVE  /\ IsFiniteSet(T) /\ Cardinality(T) \in Nat
           /\ Cardinality(T) <= Capacity * Members
<1>1. IsFiniteSet(1 .. Members) /\ Cardinality(1 .. Members) = Members
  BY PathAssumption, FS_Interval
<1>2. IsFiniteSet(S) /\ Cardinality(S) \in Nat
  BY PathAssumption, FS_Subset, FS_CardinalityType
<1>3. /\ IsFiniteSet(S \X (1 .. Members))
      /\ Cardinality(S \X (1 .. Members)) = Cardinality(S) * Members
  BY <1>1, <1>2, FS_Product
<1>4. IsFiniteSet(T) /\ Cardinality(T) <= Cardinality(S) * Members
  BY <1>3, FS_Subset
<1>5. Cardinality(S) * Members <= Capacity * Members
  <2>1. \A m, n, k \in Nat : m <= n => m * k <= n * k
    OBVIOUS
  <2>2. QED
    BY <1>2, <2>1, CapacityNat, PathAssumption
<1>6. Cardinality(S) * Members \in Nat /\ Cardinality(T) \in Nat
  BY <1>2, <1>4, FS_CardinalityType, PathAssumption
<1>7. QED
  BY <1>4, <1>5, <1>6, CapacityNat

\* Fewer tokens and the same spend keep the bound.
LEMMA TokensDrop ==
    ASSUME SpendInv, spend \in Nat, spend' = spend, Tokens' \subseteq Tokens
    PROVE  SpendInv'
<1>1. Cardinality(Tokens') <= Cardinality(Tokens) /\ IsFiniteSet(Tokens')
  BY Finite, FS_Subset
<1>2. Cardinality(Tokens') \in Nat
  BY <1>1, FS_CardinalityType
<1>3. QED
  BY <1>1, <1>2, Finite, CapacityNat, PathAssumption DEF SpendInv

LEMMA AdmitStep ==
    ASSUME IInv, NEW r \in Request, Admit(r) PROVE IInv'
<1>1. /\ r \in Texts /\ reply[r] = "new" /\ permits > 0 /\ permits' = permits - 1
      /\ work' = [work EXCEPT ![r] = "queued"] /\ queue' = Append(queue, r)
      /\ snap' = [snap EXCEPT ![r] = spend] /\ reply' = [reply EXCEPT ![r] = "waiting"]
      /\ UNCHANGED <<config, calls, spend, evals, teleVars>>
  BY DEF Admit, context_for, _snapshot
<1>2. /\ Replies /\ CountInv' /\ Events
      /\ \A q \in Request : reply'[q] = "new" => reply[q] = "new"
  BY <1>1, RefuseStep DEF IInv
<1>3. permits \in Nat /\ permits - 1 \in 0 .. Capacity
  BY <1>1, CapacityNat DEF IInv, TypeOK
<1>4. TypeOK'
  BY <1>1, <1>2, <1>3 DEF IInv, TypeOK, Replies, Events, Request
<1>5. work[r] = "none"
  BY <1>1 DEF IInv, QueueInv
<1>6. /\ work'[r] = "queued" /\ \A q \in Request : q # r => work'[q] = work[q]
      /\ snap'[r] = spend /\ \A q \in Request : q # r => snap'[q] = snap[q]
  BY <1>1 DEF IInv, TypeOK, Request
<1>7. QueueInv'
  <2>1. /\ queue \in Seq(Texts) /\ Len(queue) \in Nat /\ Len(queue') = Len(queue) + 1
        /\ queue'[Len(queue) + 1] = r
        /\ \A i \in 1 .. Len(queue) : queue'[i] = queue[i] /\ queue[i] \in Texts
    BY <1>1 DEF IInv, TypeOK
  <2>2. \A i \in 1 .. Len(queue) : work[queue[i]] = "queued" /\ queue[i] # r
    BY <1>5 DEF IInv, QueueInv
  <2>3. \A i \in 1 .. Len(queue') : work'[queue'[i]] = "queued"
    BY <1>6, <2>1, <2>2 DEF Request
  <2>4. \A i, j \in 1 .. Len(queue') : queue'[i] = queue'[j] => i = j
    BY <2>1, <2>2 DEF IInv, QueueInv
  <2>5. \A q \in Texts : reply'[q] = "new" => work'[q] = "none"
    <3>1. reply'[r] = "waiting"
      BY <1>1 DEF IInv, TypeOK
    <3>2. QED
      BY <1>2, <1>6, <3>1 DEF IInv, QueueInv, Request
  <2>6. QED
    BY <2>3, <2>4, <2>5 DEF QueueInv
<1>8. /\ r \notin Held /\ Held' = Held \cup {r} /\ Lost' = Lost /\ Running' = Running
  BY <1>1, <1>5, <1>6 DEF Held, Lost, Running, Request
<1>9. Cardinality(Held') = Cardinality(Held) + 1
  BY <1>8, Finite, FS_AddElement
<1>10. PermitsConserved'
  <2>1. permits' + Cardinality(Held') + Cardinality(Lost') = Capacity
    BY <1>1, <1>3, <1>8, <1>9, Conserved, Finite DEF IInv
  <2>2. QED
    BY <1>1, <1>8, <2>1, Conserved DEF PermitsConserved, Held, Lost, IInv
<1>11. SpendInv'
  <2>1. CASE spend < MaxCalls
    <3>1. Cardinality(Held') <= Capacity
      BY <1>1, <1>3, <1>9, Conserved, Finite, CapacityNat DEF IInv
    <3>2. Held' \in SUBSET Texts /\ Tokens' \in SUBSET (Held' \X (1 .. Members))
      BY DEF Tokens, Held
    <3>3. Cardinality(Tokens') \in Nat /\ Cardinality(Tokens') <= Capacity * Members
      BY <3>1, <3>2, CallsBounded
    <3>4. QED
      BY <1>1, <2>1, <3>3, CapacityNat, PathAssumption DEF SpendInv, IInv, TypeOK
  <2>2. CASE ~(spend < MaxCalls)
    <3>1. Tokens' \subseteq Tokens
      BY <1>1, <1>6, <2>2 DEF Tokens, Request
    <3>2. QED
      BY <1>1, <3>1, TokensDrop DEF IInv, TypeOK
  <2>3. QED
    BY <2>1, <2>2
<1>12. QED
  BY <1>2, <1>4, <1>7, <1>10, <1>11 DEF IInv, Events

LEMMA StartWorkStep == IInv /\ StartWork => IInv'
<1> SUFFICES ASSUME IInv, StartWork PROVE IInv'
  OBVIOUS
<1>1. /\ queue # <<>> /\ Cardinality(Running) < Workers
      /\ work' = [work EXCEPT ![Head(queue)] = "running"] /\ queue' = Tail(queue)
      /\ UNCHANGED <<config, reply, permits, snap, calls, spend, evals,
                     buffer, flight, sent, flusher>>
  BY DEF StartWork, judgeVars, teleVars
<1> DEFINE r == Head(queue)
<1>2. /\ queue \in Seq(Texts) /\ Len(queue) \in Nat \ {0} /\ r = queue[1] /\ r \in Texts
      /\ queue' \in Seq(Texts) /\ Len(queue') = Len(queue) - 1
      /\ \A i \in 1 .. Len(queue') :
            /\ i + 1 \in 1 .. Len(queue) /\ queue'[i] = queue[i + 1]
            /\ queue[i + 1] \in Texts
  BY <1>1 DEF IInv, TypeOK
<1>3. work[r] = "queued" /\ 1 \in 1 .. Len(queue)
  BY <1>2 DEF IInv, QueueInv
<1> HIDE DEF r
<1>4. work'[r] = "running" /\ \A q \in Request : q # r => work'[q] = work[q]
  BY <1>1, <1>2 DEF IInv, TypeOK, r, Request
<1>5. TypeOK'
  BY <1>1, <1>2 DEF IInv, TypeOK
<1>6. QueueInv'
  <2>1. \A i \in 1 .. Len(queue') : queue'[i] # r /\ work[queue'[i]] = "queued"
    BY <1>2, <1>3 DEF IInv, QueueInv
  <2>2. \A i \in 1 .. Len(queue') : work'[queue'[i]] = "queued"
    BY <1>2, <1>4, <2>1 DEF Request
  <2>3. \A i, j \in 1 .. Len(queue') : queue'[i] = queue'[j] => i = j
    BY <1>2 DEF IInv, QueueInv
  <2>4. \A q \in Texts : reply'[q] = "new" => work'[q] = "none"
    BY <1>1, <1>2, <1>3, <1>4 DEF IInv, QueueInv, Request
  <2>5. QED
    BY <2>2, <2>3, <2>4 DEF QueueInv
<1>7. r \notin Running /\ Held' = Held /\ Lost' = Lost /\ Running' = Running \cup {r}
  BY <1>2, <1>3, <1>4 DEF Held, Lost, Running, Request
<1>8. Cardinality(Running') = Cardinality(Running) + 1
  BY <1>7, Finite, FS_AddElement
<1>9. PermitsConserved'
  <2>1. Cardinality(Running') <= Workers
    BY <1>1, <1>8, Finite, PathAssumption
  <2>2. QED
    BY <1>1, <1>7, <2>1, Conserved DEF PermitsConserved, Held, Lost, IInv
<1>10. SpendInv'
  <2>1. Tokens' \subseteq Tokens
    BY <1>1, <1>2, <1>3, <1>4 DEF Tokens, Request
  <2>2. QED
    BY <1>1, <2>1, TokensDrop DEF IInv, TypeOK
<1>11. EventInv' /\ CountInv'
  BY <1>1 DEF IInv, EventInv, CountInv, DecidedSet
<1>12. QED
  BY <1>5, <1>6, <1>9, <1>10, <1>11 DEF IInv

LEMMA JudgeCallStep ==
    ASSUME IInv, NEW r \in Request, JudgeCall(r) PROVE IInv'
<1>1. /\ r \in Running /\ calls[r] < Members /\ snap[r] < MaxCalls
      /\ calls' = [calls EXCEPT ![r] = @ + 1] /\ spend' \in {spend, spend + 1}
      /\ UNCHANGED <<config, reply, poolVars, snap, evals, buffer, flight, sent, flusher>>
  BY DEF JudgeCall, budget_allows, _record, teleVars
<1>2. r \in Texts /\ work[r] = "running" /\ UNCHANGED <<work, queue, permits>>
  BY <1>1 DEF Running, poolVars
<1>3. calls[r] \in 0 .. Members /\ calls[r] + 1 \in 1 .. Members
  BY <1>1, PathAssumption DEF IInv, TypeOK
<1>4. calls'[r] = calls[r] + 1 /\ \A q \in Request : q # r => calls'[q] = calls[q]
  BY <1>1 DEF IInv, TypeOK
<1>5. TypeOK'
  BY <1>1, <1>2, <1>3 DEF IInv, TypeOK
<1>6. QueueInv' /\ PermitsConserved'
  BY <1>1, PoolQuiet DEF IInv
<1>7. SpendInv'
  <2> DEFINE t == <<r, calls[r] + 1>>
  <2>1. t \in Tokens
    BY <1>1, <1>2, <1>3 DEF Tokens
  <2>2. Tokens' \subseteq Tokens \ {t}
    <3>1. SUFFICES ASSUME NEW x \in Tokens' PROVE x \in Tokens /\ x # t
      OBVIOUS
    <3>2. /\ x \in Texts \X (1 .. Members) /\ work[x[1]] \in {"queued", "running"}
          /\ snap[x[1]] < MaxCalls /\ calls'[x[1]] < x[2]
      BY <1>1, <1>2 DEF Tokens
    <3>3. CASE x[1] = r
      <4>1. x[2] \in Nat /\ calls[r] \in Nat /\ calls[r] < x[2] /\ x[2] # calls[r] + 1
        BY <1>3, <1>4, <3>2, <3>3
      <4>2. QED
        BY <3>2, <3>3, <4>1 DEF Tokens
    <3>4. CASE x[1] # r
      <4>1. calls'[x[1]] = calls[x[1]]
        BY <1>4, <3>2, <3>4 DEF Request
      <4>2. QED
        BY <3>2, <3>4, <4>1 DEF Tokens
    <3>5. QED
      BY <3>3, <3>4
  <2>3. IsFiniteSet(Tokens \ {t}) /\ Cardinality(Tokens \ {t}) = Cardinality(Tokens) - 1
    BY <2>1, Finite, FS_RemoveElement
  <2>4. Cardinality(Tokens') <= Cardinality(Tokens) - 1 /\ IsFiniteSet(Tokens')
    BY <2>2, <2>3, FS_Subset
  <2>5. Cardinality(Tokens') \in Nat /\ spend \in Nat
    BY <2>4, FS_CardinalityType DEF IInv, TypeOK
  <2>6. QED
    BY <1>1, <2>4, <2>5, Finite, CapacityNat, PathAssumption DEF SpendInv, IInv
<1>8. EventInv' /\ CountInv'
  BY <1>1 DEF IInv, EventInv, CountInv, DecidedSet
<1>9. QED
  BY <1>5, <1>6, <1>7, <1>8 DEF IInv

LEMMA CallStep ==
    ASSUME IInv, NEW r \in Request, NEW how \in {"ok", "raised"}, _call(r, how)
    PROVE  IInv'
<1> DEFINE w == IF reply[r] = "waiting" THEN how ELSE "none"
<1>1. /\ r \in Running /\ permits' = permits + 1
      /\ work' = [work EXCEPT ![r] = w]
      /\ snap' = [snap EXCEPT ![r] = 0] /\ calls' = [calls EXCEPT ![r] = 0]
      /\ UNCHANGED <<config, reply, queue, spend, evals, buffer, flight, sent, flusher>>
  BY DEF _call, Result, teleVars
<1>2. r \in Texts /\ work[r] = "running" /\ w \in {"ok", "raised", "none"}
  BY <1>1 DEF Running
<1> HIDE DEF w
<1>3. /\ work'[r] = w /\ \A q \in Request : q # r => work'[q] = work[q]
      /\ \A q \in Request : q # r => snap'[q] = snap[q] /\ calls'[q] = calls[q]
  BY <1>1 DEF IInv, TypeOK
<1>4. QueueInv'
  <2>1. \A i \in 1 .. Len(queue) : queue[i] \in Texts /\ queue[i] # r
    BY <1>2 DEF IInv, QueueInv, TypeOK
  <2>2. \A i \in 1 .. Len(queue') : work'[queue'[i]] = "queued"
    BY <1>1, <1>3, <2>1 DEF IInv, QueueInv, Request
  <2>3. \A q \in Texts : reply'[q] = "new" => work'[q] = "none"
    BY <1>1, <1>2, <1>3 DEF IInv, QueueInv, Request
  <2>4. QED
    BY <1>1, <2>2, <2>3 DEF IInv, QueueInv
<1>5. /\ r \in Held /\ Held' = Held \ {r} /\ Lost' = Lost
      /\ Running' = Running \ {r}
  BY <1>1, <1>2, <1>3 DEF Held, Lost, Running, Request
<1>6. /\ Cardinality(Held') = Cardinality(Held) - 1
      /\ Cardinality(Running') = Cardinality(Running) - 1
  BY <1>1, <1>5, Finite, FS_RemoveElement
<1>7. /\ permits' + Cardinality(Held') + Cardinality(Lost') = Capacity
      /\ permits' \in 0 .. Capacity
  <2>1. Cardinality(Held') \in Nat /\ permits \in Nat
    <3>1. Held' \in SUBSET Texts
      BY DEF Held
    <3>2. QED
      BY <3>1, PathAssumption, FS_Subset, FS_CardinalityType DEF IInv, TypeOK
  <2>2. QED
    BY <1>1, <1>5, <1>6, <2>1, Conserved, Finite, CapacityNat DEF IInv
<1>8. PermitsConserved'
  <2>1. Cardinality(Running') <= Workers
    BY <1>6, Conserved, Finite, PathAssumption DEF IInv
  <2>2. QED
    BY <1>1, <1>5, <1>7, <2>1, Conserved DEF PermitsConserved, Held, Lost, IInv
<1>9. TypeOK'
  BY <1>1, <1>2, <1>7, PathAssumption DEF IInv, TypeOK
<1>10. SpendInv'
  <2>1. Tokens' \subseteq Tokens
    BY <1>2, <1>3 DEF Tokens, Request
  <2>2. QED
    BY <1>1, <2>1, TokensDrop DEF IInv, TypeOK
<1>11. EventInv' /\ CountInv'
  BY <1>1 DEF IInv, EventInv, CountInv, DecidedSet
<1>12. QED
  BY <1>4, <1>8, <1>9, <1>10, <1>11 DEF IInv

LEMMA ResumeStep ==
    ASSUME IInv, NEW r \in Request, Resume(r) PROVE IInv'
<1>1. /\ reply[r] = "waiting" /\ work[r] \in {"ok", "raised"}
      /\ Decide(r, "200") \/ Refuse(r, "refused")
      /\ work' = [work EXCEPT ![r] = "none"]
      /\ UNCHANGED <<config, queue, permits, snap, calls, spend>>
  BY DEF Resume, judgeVars
<1>2. /\ Replies /\ CountInv' /\ Events
      /\ \A q \in Request : reply'[q] = "new" => reply[q] = "new"
  BY <1>1, DecideStep, RefuseStep DEF IInv, Refuse, Decided, Refused
<1>3. work'[r] = "none" /\ \A q \in Request : q # r => work'[q] = work[q]
  BY <1>1 DEF IInv, TypeOK
<1>4. TypeOK'
  BY <1>1, <1>2 DEF IInv, TypeOK, Replies, Events
<1>5. QueueInv'
  <2>1. \A i \in 1 .. Len(queue) : queue[i] \in Texts /\ queue[i] # r
    BY <1>1 DEF IInv, QueueInv, TypeOK
  <2>2. \A i \in 1 .. Len(queue') : work'[queue'[i]] = "queued"
    BY <1>1, <1>3, <2>1 DEF IInv, QueueInv, Request
  <2>3. \A q \in Texts : reply'[q] = "new" => work'[q] = "none"
    BY <1>2, <1>3 DEF IInv, QueueInv, Request
  <2>4. QED
    BY <1>1, <2>2, <2>3 DEF IInv, QueueInv
<1>6. Held' = Held /\ Lost' = Lost /\ Running' = Running
  BY <1>1, <1>3 DEF Held, Lost, Running, Request
<1>7. PermitsConserved'
  BY <1>1, <1>6, Conserved DEF PermitsConserved, Held, Lost, IInv
<1>8. SpendInv'
  <2>1. Tokens' \subseteq Tokens
    BY <1>1, <1>3 DEF Tokens, Request
  <2>2. QED
    BY <1>1, <2>1, TokensDrop DEF IInv, TypeOK
<1>9. QED
  BY <1>2, <1>4, <1>5, <1>7, <1>8 DEF IInv, Events

LEMMA DisconnectStep ==
    ASSUME IInv, NEW r \in Request, Disconnect(r) PROVE IInv'
<1>1. /\ reply[r] = "waiting" /\ Refuse(r, "gone")
      /\ UNCHANGED <<config, permits, judgeVars>>
  BY DEF Disconnect
<1>2. /\ Replies /\ CountInv' /\ Events
      /\ \A q \in Request : reply'[q] = "new" => reply[q] = "new"
  BY <1>1, RefuseStep DEF IInv, Refuse, Refused
<1>3. CASE UNCHANGED <<work, queue>>
  BY <1>1, <1>2, <1>3, HandlerStep DEF poolVars
<1>4. CASE "deadline" \notin config /\ Cancel(r)
  <2>1. PICK n \in 1 .. Len(queue) :
          /\ queue[n] = r /\ queue' = RemoveAt(queue, n)
          /\ work' = [work EXCEPT ![r] = "cancelled"]
    BY <1>4 DEF Cancel, IInv, TypeOK
  <2>2. queue \in Seq(Texts) /\ Len(queue) \in Nat
        /\ \A i \in 1 .. Len(queue) : queue[i] \in Texts
    BY DEF IInv, TypeOK
  <2> DEFINE src(i) == IF i < n THEN i ELSE i + 1
  <2>3. /\ queue' \in Seq(Texts) /\ Len(queue') = Len(queue) - 1
        /\ \A i \in 1 .. Len(queue') : queue'[i] = queue[src(i)]
    BY <2>1, <2>2, Removed
  <2>4. \A i \in 1 .. Len(queue') : src(i) \in 1 .. Len(queue) /\ src(i) # n
    BY <2>1, <2>2, <2>3
  <2>5. \A i, j \in 1 .. Len(queue') : src(i) = src(j) => i = j
    BY <2>1, <2>2, <2>3
  <2> HIDE DEF src
  <2>6. r \in Texts /\ work[r] = "queued"
    BY <2>1, <2>2 DEF IInv, QueueInv
  <2>7. work'[r] = "cancelled" /\ \A q \in Request : q # r => work'[q] = work[q]
    BY <2>1 DEF IInv, TypeOK
  <2>8. QueueInv'
    <3>1. \A i \in 1 .. Len(queue') : work'[queue'[i]] = "queued"
      <4>1. TAKE i \in 1 .. Len(queue')
      <4>2. queue[src(i)] # r /\ queue[src(i)] \in Texts /\ work[queue[src(i)]] = "queued"
        BY <2>1, <2>2, <2>4 DEF IInv, QueueInv
      <4>3. QED
        BY <2>3, <2>7, <4>2 DEF Request
    <3>2. \A i, j \in 1 .. Len(queue') : queue'[i] = queue'[j] => i = j
      BY <2>3, <2>4, <2>5 DEF IInv, QueueInv
    <3>3. \A q \in Texts : reply'[q] = "new" => work'[q] = "none"
      BY <1>1, <1>2, <2>7 DEF IInv, QueueInv, Request
    <3>4. QED
      BY <3>1, <3>2, <3>3 DEF QueueInv
  <2>9. /\ r \in Held /\ Held' = Held \ {r} /\ r \notin Lost /\ Lost' = Lost \cup {r}
        /\ Running' = Running
    BY <2>6, <2>7 DEF Held, Lost, Running, Request
  <2>10. /\ Cardinality(Held') = Cardinality(Held) - 1
         /\ Cardinality(Lost') = Cardinality(Lost) + 1
    BY <2>9, Finite, FS_RemoveElement, FS_AddElement
  <2>11. permits' + Cardinality(Held') + Cardinality(Lost') = Capacity
    BY <1>1, <2>10, Conserved, Finite DEF IInv, TypeOK
  <2>12. PermitsConserved'
    BY <1>1, <1>4, <2>9, <2>11, Conserved DEF PermitsConserved, Held, Lost, IInv
  <2>13. UNCHANGED <<snap, calls, spend>>
    BY <1>1 DEF judgeVars
  <2>14. TypeOK'
    BY <1>1, <1>2, <2>1, <2>3, <2>13 DEF IInv, TypeOK, Replies, Events
  <2>15. SpendInv'
    <3>1. Tokens' \subseteq Tokens
      BY <2>7, <2>13 DEF Tokens, Request
    <3>2. QED
      BY <2>13, <3>1, TokensDrop DEF IInv, TypeOK
  <2>16. QED
    BY <1>2, <2>8, <2>12, <2>14, <2>15 DEF IInv, Events
<1>5. QED
  BY <1>3, <1>4 DEF Disconnect

-----------------------------------------------------------------------------
\* The telemetry.  A step of the flush loop changes nothing else.
LEMMA FlushQuiet ==
    ASSUME IInv, UNCHANGED <<config, reply, poolVars, judgeVars, evals>>,
           buffer' \in Seq(Nat), flight' \in Seq(Nat), sent' \in Nat,
           flusher' \in {"on", "off"}, EventInv'
    PROVE  IInv'
<1>1. Replies /\ CountInv' /\ Events
  BY DEF IInv, TypeOK, Replies, CountInv, DecidedSet, Events
<1>2. QED
  BY <1>1, HandlerStep

\* The batch is a front of the buffer, and what remains is the rest.
LEMMA Split ==
    ASSUME TypeOK
    PROVE  \E n \in 0 .. Len(buffer) :
             /\ buffer # <<>> => n # 0
             /\ Batch \in Seq(Nat) /\ Len(Batch) = n
             /\ \A i \in 1 .. n : Batch[i] = buffer[i]
             /\ SubSeq(buffer, Len(Batch) + 1, Len(buffer)) \in Seq(Nat)
             /\ Len(SubSeq(buffer, Len(Batch) + 1, Len(buffer))) = Len(buffer) - n
             /\ \A i \in 1 .. Len(buffer) - n :
                   SubSeq(buffer, Len(Batch) + 1, Len(buffer))[i] = buffer[n + i]
<1> DEFINE n == IF Len(buffer) < BatchSize THEN Len(buffer) ELSE BatchSize
<1>1. buffer \in Seq(Nat) /\ Len(buffer) \in Nat
  BY DEF TypeOK
<1>2. n \in 0 .. Len(buffer) /\ (buffer # <<>> => n # 0)
  BY <1>1, PathAssumption
<1>3. Batch = SubSeq(buffer, 1, n)
  BY DEF Batch
<1> HIDE DEF n
<1>4. /\ Batch \in Seq(Nat) /\ Len(Batch) = n
      /\ \A i \in 1 .. n : Batch[i] = buffer[i]
  BY <1>1, <1>2, <1>3
<1> DEFINE rest == SubSeq(buffer, n + 1, Len(buffer))
<1>5. /\ rest \in Seq(Nat) /\ Len(rest) = Len(buffer) - n
      /\ \A i \in 1 .. Len(buffer) - n : rest[i] = buffer[n + i]
  BY <1>1, <1>2
<1>6. QED
  BY <1>2, <1>4, <1>5

\* Taking a batch keeps the order, when what was in flight is gone.
LEMMA Taken ==
    ASSUME IInv, NEW s \in Nat, s <= evals, evals' = evals, sent' = s,
           \A i \in 1 .. Len(buffer) : s < buffer[i],
           \/ /\ flight' = Batch
              /\ buffer' = SubSeq(buffer, Len(Batch) + 1, Len(buffer))
           \/ flight' = <<>> /\ buffer' = buffer
    PROVE  buffer' \in Seq(Nat) /\ flight' \in Seq(Nat) /\ EventInv'
<1>1. buffer \in Seq(Nat) /\ Len(buffer) \in Nat /\ evals \in Nat
      /\ \A i \in 1 .. Len(buffer) : buffer[i] \in Nat
  BY DEF IInv, TypeOK
<1>2. CASE flight' = <<>> /\ buffer' = buffer
  BY <1>1, <1>2 DEF IInv, EventInv
<1>3. CASE /\ flight' = Batch
           /\ buffer' = SubSeq(buffer, Len(Batch) + 1, Len(buffer))
  <2>1. PICK n \in 0 .. Len(buffer) :
          /\ flight' \in Seq(Nat) /\ Len(flight') = n
          /\ \A i \in 1 .. n : flight'[i] = buffer[i]
          /\ buffer' \in Seq(Nat) /\ Len(buffer') = Len(buffer) - n
          /\ \A i \in 1 .. Len(buffer) - n : buffer'[i] = buffer[n + i]
    BY <1>3, Split DEF IInv
  <2>2. ASSUME NEW i \in 1 .. Len(flight')
        PROVE  s < flight'[i] /\ flight'[i] <= evals
    BY <1>1, <2>1 DEF IInv, EventInv
  <2>3. ASSUME NEW i \in 1 .. Len(buffer')
        PROVE  n + i \in 1 .. Len(buffer) /\ buffer'[i] = buffer[n + i]
    BY <1>1, <2>1
  <2>4. ASSUME NEW i \in 1 .. Len(buffer')
        PROVE  s < buffer'[i] /\ buffer'[i] <= evals
    BY <2>3 DEF IInv, EventInv
  <2>5. ASSUME NEW i \in 1 .. Len(flight'), NEW j \in 1 .. Len(flight'), i < j
        PROVE  flight'[i] < flight'[j]
    <3>1. /\ i \in 1 .. Len(buffer) /\ j \in 1 .. Len(buffer)
          /\ flight'[i] = buffer[i] /\ flight'[j] = buffer[j]
      BY <1>1, <2>1
    <3>2. QED
      BY <2>5, <3>1 DEF IInv, EventInv
  <2>6. ASSUME NEW i \in 1 .. Len(buffer'), NEW j \in 1 .. Len(buffer'), i < j
        PROVE  buffer'[i] < buffer'[j]
    <3>1. n + i < n + j
      BY <2>1, <2>6
    <3>2. QED
      BY <2>3, <3>1 DEF IInv, EventInv
  <2>7. ASSUME NEW i \in 1 .. Len(flight'), NEW j \in 1 .. Len(buffer')
        PROVE  flight'[i] < buffer'[j]
    <3>1. i \in 1 .. Len(buffer) /\ flight'[i] = buffer[i] /\ i < n + j
      BY <1>1, <2>1
    <3>2. QED
      BY <2>3, <3>1 DEF IInv, EventInv
  <2>8. QED
    BY <2>1, <2>2, <2>4, <2>5, <2>6, <2>7 DEF EventInv
<1>4. QED
  BY <1>2, <1>3

LEMMA TelemetrySteps ==
    ASSUME IInv, _flush \/ Posted \/ PostFails \/ StopTelemetry PROVE IInv'
<1>1. /\ buffer \in Seq(Nat) /\ flight \in Seq(Nat) /\ sent \in Nat /\ evals \in Nat
      /\ sent <= evals /\ flusher \in {"on", "off"}
      /\ \A i \in 1 .. Len(buffer) : sent < buffer[i]
  BY DEF IInv, TypeOK, EventInv
<1>2. ASSUME flight # <<>>
      PROVE  /\ flight[Len(flight)] \in Nat /\ flight[Len(flight)] <= evals
             /\ \A i \in 1 .. Len(buffer) : flight[Len(flight)] < buffer[i]
  <2>1. Len(flight) \in 1 .. Len(flight)
    BY <1>1, <1>2
  <2>2. QED
    BY <1>1, <2>1 DEF IInv, EventInv
<1>3. CASE _flush
  <2>1. /\ UNCHANGED <<config, reply, poolVars, judgeVars, evals, sent, flusher>>
        /\ flight' = Batch /\ buffer' = SubSeq(buffer, Len(Batch) + 1, Len(buffer))
    BY <1>3 DEF _flush, TakeBatch
  <2>2. QED
    BY <1>1, <2>1, Taken, FlushQuiet
<1>4. CASE Posted
  <2>1. /\ UNCHANGED <<config, reply, poolVars, judgeVars, evals, buffer, flusher>>
        /\ flight # <<>> /\ flight' = <<>> /\ sent' = flight[Len(flight)]
    BY <1>4 DEF Posted
  <2>2. QED
    BY <1>1, <1>2, <2>1, Taken, FlushQuiet
<1>5. CASE PostFails
  <2>1. /\ UNCHANGED <<config, reply, poolVars, judgeVars, evals, buffer, sent, flusher>>
        /\ flight' = <<>>
    BY <1>5 DEF PostFails
  <2>2. QED
    BY <1>1, <2>1, Taken, FlushQuiet
<1>6. CASE StopTelemetry
  <2>1. /\ UNCHANGED <<config, reply, poolVars, judgeVars, evals>> /\ flusher' = "off"
        /\ \/ flight' = Batch /\ buffer' = SubSeq(buffer, Len(Batch) + 1, Len(buffer))
           \/ flight' = <<>> /\ buffer' = buffer
        /\ \/ sent' = sent
           \/ flight # <<>> /\ sent' = flight[Len(flight)]
    BY <1>6 DEF StopTelemetry
  <2>2. /\ sent' \in Nat /\ sent' <= evals
        /\ \A i \in 1 .. Len(buffer) : sent' < buffer[i]
    BY <1>1, <1>2, <2>1
  <2>3. buffer' \in Seq(Nat) /\ flight' \in Seq(Nat) /\ EventInv'
    BY <2>1, <2>2, Taken
  <2>4. QED
    BY <2>1, <2>2, <2>3, FlushQuiet
<1>7. QED
  BY <1>3, <1>4, <1>5, <1>6

-----------------------------------------------------------------------------
LEMMA InitInv == Init => IInv
<1> SUFFICES ASSUME Init PROVE IInv
  OBVIOUS
<1>1. TypeOK
  <2>1. permits \in 0 .. Capacity
    BY CapacityNat DEF Init
  <2>2. calls \in [Request -> 0 .. Members]
    BY PathAssumption DEF Init
  <2>3. queue \in Seq(Texts) /\ buffer \in Seq(Nat) /\ flight \in Seq(Nat)
    BY DEF Init
  <2>4. QED
    BY <2>1, <2>2, <2>3 DEF Init, TypeOK
<1>2. QueueInv /\ EventInv
  BY DEF Init, QueueInv, EventInv, Request
<1>3. Held = {} /\ Lost = {} /\ Running = {} /\ Tokens = {} /\ DecidedSet = {}
  BY DEF Init, Held, Lost, Running, Tokens, DecidedSet, Request, Decided
<1>4. Cardinality({}) = 0
  BY FS_EmptySet
<1>5. PermitsConserved
  BY <1>3, <1>4, CapacityNat, Conserved, PathAssumption DEF Init
<1>6. SpendInv
  BY <1>3, <1>4, CapacityNat, PathAssumption DEF Init, SpendInv
<1>7. CountInv
  BY <1>3, <1>4 DEF Init, CountInv
<1>8. QED
  BY <1>1, <1>2, <1>5, <1>6, <1>7 DEF IInv

LEMMA StutterStep == IInv /\ UNCHANGED vars => IInv'
<1> SUFFICES ASSUME IInv, UNCHANGED vars PROVE IInv'
  OBVIOUS
<1>1. UNCHANGED <<config, reply, poolVars, judgeVars, evals, buffer, flight, sent, flusher>>
  BY DEF vars, teleVars
<1>2. EventInv'
  BY <1>1 DEF IInv, EventInv
<1>3. QED
  BY <1>1, <1>2, FlushQuiet DEF IInv, TypeOK

LEMMA NextStep == IInv /\ [Next]_vars => IInv'
<1> SUFFICES ASSUME IInv, [Next]_vars PROVE IInv'
  OBVIOUS
<1>1. ASSUME NEW r \in Request,
             TurnedAway(r) \/ ToolCall(r) \/ Overloaded(r) \/ DeadlinePasses(r)
      PROVE  IInv'
  BY <1>1, AnswerSteps
<1>2. ASSUME NEW r \in Request, Admit(r) \/ JudgeCall(r) PROVE IInv'
  BY <1>2, AdmitStep, JudgeCallStep
<1>3. ASSUME NEW r \in Request, Finish(r) PROVE IInv'
  BY <1>3, CallStep DEF Finish
<1>4. ASSUME NEW r \in Request, Resume(r) \/ Disconnect(r) PROVE IInv'
  BY <1>4, ResumeStep, DisconnectStep
<1>5. CASE StartWork
  BY <1>5, StartWorkStep
<1>6. CASE _flush \/ Posted \/ PostFails \/ StopTelemetry
  BY <1>6, TelemetrySteps
<1>7. CASE UNCHANGED vars
  BY <1>7, StutterStep
<1>8. QED
  BY <1>1, <1>2, <1>3, <1>4, <1>5, <1>6, <1>7 DEF Next

LEMMA Invariance == Spec => []IInv
  BY InitInv, NextStep, PTL DEF Spec

\* The types hold for every size of the pool, the buffer and the budget.
THEOREM TypeCorrect == Spec => []TypeOK
<1>1. IInv => TypeOK
  BY DEF IInv
<1>2. QED
  BY Invariance, <1>1, PTL

\* The permits of _ADMISSION are those of the queued and running work, plus one
\* lost for each queued item whose caller left, never under a deadline, and no
\* more threads run than there are workers (_run_detectors).
THEOREM PermitsAreConserved == Spec => []PermitsConserved
<1>1. IInv => PermitsConserved
  BY DEF IInv
<1>2. QED
  BY Invariance, <1>1, PTL

\* A stale snapshot overruns the cap on judge calls by no more than the calls of
\* the requests the pool can hold (context_for, make_snapshot_budget_check).
THEOREM OverspendIsBounded == Spec => []OverspendBounded
<1>1. IInv => OverspendBounded
  BY Finite, CapacityNat, PathAssumption DEF IInv, TypeOK, SpendInv, OverspendBounded
<1>2. QED
  BY Invariance, <1>1, PTL

\* Telemetry counts each returned decision once and delivers its events in order
\* and without duplicates, whatever posts fail and whenever it is stopped.
THEOREM TelemetryIsTruthful == Spec => []TelemetryTruthful
<1>1. ASSUME IInv PROVE TelemetryTruthful
  <2> DEFINE all == <<sent>> \o flight \o buffer
  <2>1. buffer \in Seq(Nat) /\ flight \in Seq(Nat) /\ sent \in Nat /\ evals \in Nat
    BY <1>1 DEF IInv, TypeOK
  <2>2. /\ all \in Seq(Nat) /\ Len(all) = 1 + Len(flight) + Len(buffer)
        /\ DOMAIN all = 1 .. Len(all)
    BY <2>1
  <2>3. \A i \in 1 .. Len(all) :
          all[i] = IF i = 1 THEN sent
                   ELSE IF i <= 1 + Len(flight) THEN flight[i - 1]
                   ELSE buffer[i - 1 - Len(flight)]
    BY <2>1
  <2> HIDE DEF all
  <2>4. Len(flight) \in Nat /\ Len(buffer) \in Nat
    BY <2>1
  <2>5. ASSUME NEW i \in 1 .. Len(all)
        PROVE  \/ i = 1 /\ all[i] = sent
               \/ i <= 1 + Len(flight) /\ \E k \in 1 .. Len(flight) :
                     i = k + 1 /\ all[i] = flight[k]
               \/ i > 1 + Len(flight) /\ \E k \in 1 .. Len(buffer) :
                     i = 1 + Len(flight) + k /\ all[i] = buffer[k]
    <3>1. CASE i = 1
      BY <2>3, <3>1
    <3>2. CASE i # 1 /\ i <= 1 + Len(flight)
      <4>1. i - 1 \in 1 .. Len(flight) /\ i = (i - 1) + 1 /\ all[i] = flight[i - 1]
        BY <2>3, <2>4, <3>2
      <4>2. QED
        BY <3>2, <4>1
    <3>3. CASE i # 1 /\ ~(i <= 1 + Len(flight))
      <4> DEFINE k == i - 1 - Len(flight)
      <4>1. k \in 1 .. Len(buffer) /\ i = 1 + Len(flight) + k /\ all[i] = buffer[k]
        BY <2>2, <2>3, <2>4, <3>3
      <4>2. i > 1 + Len(flight)
        BY <2>4, <3>3
      <4>3. QED
        BY <4>1, <4>2
    <3>4. QED
      BY <3>1, <3>2, <3>3
  <2>6. ASSUME NEW i \in 1 .. Len(all), NEW j \in 1 .. Len(all)
        PROVE  all[i] <= evals /\ (i < j => all[i] < all[j])
    <3>1. all[i] <= evals
      BY <1>1, <2>5 DEF IInv, EventInv
    <3>2. ASSUME i < j PROVE all[i] < all[j]
      <4>1. CASE i = 1 /\ all[i] = sent
        <5>1. \/ \E l \in 1 .. Len(flight) : all[j] = flight[l]
              \/ \E l \in 1 .. Len(buffer) : all[j] = buffer[l]
          <6>1. j # 1
            BY <3>2, <4>1
          <6>2. QED
            BY <2>5, <6>1
        <5>2. QED
          BY <1>1, <4>1, <5>1 DEF IInv, EventInv
      <4>2. CASE i <= 1 + Len(flight) /\ \E k \in 1 .. Len(flight) :
                   i = k + 1 /\ all[i] = flight[k]
        <5>1. PICK k \in 1 .. Len(flight) : i = k + 1 /\ all[i] = flight[k]
          BY <4>2
        <5>2. CASE j <= 1 + Len(flight)
          <6>1. PICK l \in 1 .. Len(flight) : j = l + 1 /\ all[j] = flight[l]
            <7>1. j # 1 /\ ~(j > 1 + Len(flight))
              BY <2>4, <3>2, <5>1, <5>2
            <7>2. QED
              BY <2>5, <7>1
          <6>2. k < l
            BY <3>2, <5>1, <6>1
          <6>3. QED
            BY <1>1, <5>1, <6>1, <6>2 DEF IInv, EventInv
        <5>3. CASE ~(j <= 1 + Len(flight))
          <6>1. PICK l \in 1 .. Len(buffer) : all[j] = buffer[l]
            <7>1. j # 1
              BY <2>4, <5>3
            <7>2. QED
              BY <2>5, <5>3, <7>1
          <6>2. QED
            BY <1>1, <5>1, <6>1 DEF IInv, EventInv
        <5>4. QED
          BY <5>2, <5>3
      <4>3. CASE i > 1 + Len(flight) /\ \E k \in 1 .. Len(buffer) :
                   i = 1 + Len(flight) + k /\ all[i] = buffer[k]
        <5>1. PICK k \in 1 .. Len(buffer) : i = 1 + Len(flight) + k /\ all[i] = buffer[k]
          BY <4>3
        <5>2. PICK l \in 1 .. Len(buffer) : j = 1 + Len(flight) + l /\ all[j] = buffer[l]
          <6>1. j # 1 /\ ~(j <= 1 + Len(flight))
            BY <2>4, <3>2, <4>3
          <6>2. QED
            BY <2>5, <6>1
        <5>3. k < l
          BY <2>4, <3>2, <5>1, <5>2
        <5>4. QED
          BY <1>1, <5>1, <5>2, <5>3 DEF IInv, EventInv
      <4>4. QED
        BY <2>5, <4>1, <4>2, <4>3
    <3>3. QED
      BY <3>1, <3>2
  <2>7. evals = Cardinality({r \in Request : reply[r] \in Decided})
    BY <1>1 DEF IInv, CountInv, DecidedSet
  <2>8. QED
    BY <2>2, <2>6, <2>7 DEF TelemetryTruthful, all
<1>2. QED
  BY Invariance, <1>1, PTL
=============================================================================
