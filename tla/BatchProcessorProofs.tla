------------------------ MODULE BatchProcessorProofs ------------------------
(***************************************************************************)
(* Proofs about BatchProcessor, for any requests, batch size, queue length *)
(* and number of stops: the types, that no waiting request is stranded,    *)
(* the bound on the direct path, and that expired work is never gathered.  *)
(***************************************************************************)
EXTENDS BatchProcessor, TLAPS, FiniteSetTheorems

(***************************************************************************)
(* The inductive invariant.  A submitted request is in one place of the    *)
(* queue and the batch at most; a pending one has a waiting caller and, as *)
(* long as nothing was stopped, is in such a place.                        *)
(***************************************************************************)
OncePlaced ==
    /\ \A i, j \in 1 .. Len(queue) : queue[i] = queue[j] => i = j
    /\ \A i, j \in 1 .. Len(batch) : batch[i] = batch[j] => i = j
    /\ \A i \in 1 .. Len(queue), j \in 1 .. Len(batch) : queue[i] # batch[j]

Placed(r) ==
    \/ \E i \in 1 .. Len(queue) : queue[i] = r
    \/ \E i \in 1 .. Len(batch) : batch[i] = r

Submitted ==
    /\ \A i \in 1 .. Len(queue) : future[queue[i]] # "none"
    /\ \A i \in 1 .. Len(batch) : future[batch[i]] # "none"
    /\ \A r \in Request : caller[r] = "new" => future[r] = "none"
    /\ \A r \in Queued : future[r] = "pending" => caller[r] = "waiting"

PlaceInv ==
    /\ worker # "died"
    /\ stops = 0 => \A r \in Queued : future[r] = "pending" => Placed(r)

ThreadInv == IsFiniteSet(Scoring) /\ DirectBounded

IInv ==
    /\ TypeOK /\ orphans <= stops
    /\ OncePlaced /\ Submitted /\ PlaceInv /\ ThreadInv

-----------------------------------------------------------------------------
LEMMA Disjoint == \A r \in Queued, d \in Direct : r # d
  BY BatchAssumption

LEMMA Scored1 ==
    ASSUME IInv
    PROVE  Cardinality(Scoring) \in Nat /\ inflight = Cardinality(Scoring)
  BY FS_CardinalityType DEF IInv, ThreadInv, DirectBounded

\* Steps that change only the futures of queued requests leave the threads of
\* the direct ones alone.
LEMMA ThreadsKept ==
    ASSUME IInv, inflight' = inflight, \A d \in Direct : future'[d] = future[d]
    PROVE  ThreadInv'
<1>1. Scoring' = Scoring
  BY DEF Scoring
<1>2. QED
  BY <1>1 DEF IInv, ThreadInv, DirectBounded

\* Steps that leave the queue, the batch and the futures where they are.
LEMMA Quiet ==
    ASSUME IInv, UNCHANGED <<queue, batch, future, inflight>>,
           TypeOK', orphans' <= stops', worker' # "died", stops' = 0 => stops = 0,
           \A r \in Request : caller'[r] = "new" => caller[r] = "new",
           \A r \in Queued : caller[r] = "waiting" /\ future[r] = "pending"
                                => caller'[r] = "waiting"
    PROVE  IInv'
<1>1. OncePlaced'
  BY DEF IInv, OncePlaced
<1>2. Submitted'
  BY DEF IInv, Submitted
<1>3. PlaceInv'
  BY DEF IInv, PlaceInv, Placed
<1>4. ThreadInv'
  BY ThreadsKept DEF IInv
<1>5. QED
  BY <1>1, <1>2, <1>3, <1>4 DEF IInv

LEMMA WorkerSteps ==
    ASSUME IInv, Start \/ OrphanEnds \/ Dispatch PROVE IInv'
<1>1. /\ UNCHANGED <<queue, future, caller, due, batch, inflight, rejected, expired, stops>>
      /\ worker' \in {worker, "get", "scoring"}
      /\ orphans' = orphans \/ (orphans > 0 /\ orphans' = orphans - 1)
  BY DEF Start, OrphanEnds, Dispatch
<1>2. orphans \in Nat /\ stops \in Nat /\ orphans <= stops /\ worker # "died"
  BY BatchAssumption DEF IInv, TypeOK, PlaceInv
<1>3. TypeOK' /\ orphans' <= stops' /\ worker' # "died"
  BY <1>1, <1>2, BatchAssumption DEF IInv, TypeOK
<1>4. QED
  BY <1>1, <1>3, Quiet DEF IInv, Submitted

LEMMA StopStep == IInv /\ Stop => IInv'
<1> SUFFICES ASSUME IInv, Stop PROVE IInv'
  OBVIOUS
<1>1. /\ stops < MaxStops /\ worker' = "none" /\ batch' = <<>> /\ stops' = stops + 1
      /\ orphans' \in {orphans, orphans + 1}
      /\ UNCHANGED <<queue, future, caller, due, inflight, rejected, expired>>
  BY DEF Stop
<1>2. orphans \in Nat /\ stops \in Nat /\ orphans <= stops
  BY BatchAssumption DEF IInv, TypeOK
<1>3. batch' \in Seq(Queued) /\ Len(batch') = 0
  BY <1>1
<1>4. TypeOK' /\ orphans' <= stops'
  BY <1>1, <1>2, <1>3, BatchAssumption DEF IInv, TypeOK
<1>5. OncePlaced' /\ Submitted'
  BY <1>1, <1>3 DEF IInv, OncePlaced, Submitted
<1>6. PlaceInv'
  BY <1>1, <1>2 DEF PlaceInv
<1>7. ThreadInv'
  BY <1>1, ThreadsKept
<1>8. QED
  BY <1>4, <1>5, <1>6, <1>7 DEF IInv

LEMMA SubmitStep ==
    ASSUME IInv, NEW r \in Queued, Submit(r) PROVE IInv'
<1>1. caller[r] = "new" /\ UNCHANGED <<due, worker, batch, orphans, inflight, expired, stops>>
  BY DEF Submit
<1>2. r \in Request /\ future[r] = "none"
  BY <1>1 DEF Request, IInv, Submitted
<1>3. CASE ~HasRoom
  <2>1. /\ caller' = [caller EXCEPT ![r] = "429"] /\ rejected' = rejected + 1
        /\ UNCHANGED <<queue, future>>
    BY <1>3 DEF Submit
  <2>2. TypeOK'
    <3>1. caller' \in [Request -> {"new", "waiting", "answered", "429"}]
      BY <2>1 DEF IInv, TypeOK
    <3>2. rejected' \in Nat
      BY <2>1 DEF IInv, TypeOK
    <3>3. QED
      BY <1>1, <2>1, <3>1, <3>2 DEF IInv, TypeOK
  <2>3. \A q \in Request : /\ caller'[q] = "new" => caller[q] = "new"
                           /\ q # r => caller'[q] = caller[q]
    BY <1>1, <2>1 DEF IInv, TypeOK
  <2>4. QED
    BY <1>1, <1>2, <2>1, <2>2, <2>3, Quiet DEF IInv, PlaceInv, Request
<1>4. CASE HasRoom
  <2>1. /\ queue' = Append(queue, r) /\ future' = [future EXCEPT ![r] = "pending"]
        /\ caller' = [caller EXCEPT ![r] = "waiting"] /\ UNCHANGED rejected
    BY <1>4 DEF Submit
  <2>2. /\ queue \in Seq(Queued) /\ Len(queue) \in Nat /\ Len(queue) < MaxQueue
        /\ batch \in Seq(Queued)
        /\ \A i \in 1 .. Len(queue) : queue[i] \in Queued
        /\ \A i \in 1 .. Len(batch) : batch[i] \in Queued
    BY <1>4 DEF IInv, TypeOK, HasRoom
  <2>3. /\ queue' \in Seq(Queued) /\ Len(queue') = Len(queue) + 1
        /\ queue'[Len(queue) + 1] = r
        /\ \A i \in 1 .. Len(queue) : queue'[i] = queue[i]
    BY <2>1, <2>2
  <2>4. TypeOK'
    <3>1. Len(queue') <= MaxQueue
      BY <2>2, <2>3, BatchAssumption
    <3>2. QED
      BY <1>1, <2>1, <2>3, <3>1 DEF IInv, TypeOK
  <2>5. /\ future'[r] = "pending" /\ caller'[r] = "waiting"
        /\ \A q \in Request : q # r => future'[q] = future[q] /\ caller'[q] = caller[q]
    BY <1>2, <2>1 DEF IInv, TypeOK
  <2>6. /\ \A i \in 1 .. Len(queue) : queue[i] # r
        /\ \A i \in 1 .. Len(batch) : batch[i] # r
    BY <1>2 DEF IInv, Submitted
  <2>7. OncePlaced'
    <3>1. ASSUME NEW i \in 1 .. Len(queue'), NEW j \in 1 .. Len(queue'),
                 queue'[i] = queue'[j]
          PROVE  i = j
      <4>1. CASE i = Len(queue) + 1 \/ j = Len(queue) + 1
        BY <2>2, <2>3, <2>6, <3>1, <4>1
      <4>2. CASE i # Len(queue) + 1 /\ j # Len(queue) + 1
        <5>1. i \in 1 .. Len(queue) /\ j \in 1 .. Len(queue)
          BY <2>2, <2>3, <4>2
        <5>2. QED
          BY <2>3, <3>1, <5>1 DEF IInv, OncePlaced
      <4>3. QED
        BY <4>1, <4>2
    <3>2. ASSUME NEW i \in 1 .. Len(queue'), NEW j \in 1 .. Len(batch)
          PROVE  queue'[i] # batch[j]
      BY <2>2, <2>3, <2>6 DEF IInv, OncePlaced
    <3>3. QED
      BY <1>1, <3>1, <3>2 DEF IInv, OncePlaced
  <2>8. Submitted'
    <3>1. \A i \in 1 .. Len(queue') : future'[queue'[i]] # "none"
      BY <2>2, <2>3, <2>5, <2>6 DEF IInv, Submitted, Request
    <3>2. \A i \in 1 .. Len(batch') : future'[batch'[i]] # "none"
      BY <1>1, <2>2, <2>5, <2>6 DEF IInv, Submitted, Request
    <3>3. QED
      BY <2>5, <3>1, <3>2 DEF IInv, Submitted, Request
  <2>9. PlaceInv'
    <3>1. ASSUME stops = 0, NEW q \in Queued, future'[q] = "pending" PROVE Placed(q)'
      <4>1. CASE q = r
        <5>1. Len(queue) + 1 \in 1 .. Len(queue')
          BY <2>2, <2>3
        <5>2. QED
          BY <2>3, <4>1, <5>1 DEF Placed
      <4>2. CASE q # r
        <5>1. Placed(q)
          BY <2>5, <3>1, <4>2 DEF IInv, PlaceInv, Request
        <5>2. QED
          BY <1>1, <2>2, <2>3, <5>1 DEF Placed
      <4>3. QED
        BY <4>1, <4>2
    <3>2. QED
      BY <1>1, <3>1 DEF IInv, PlaceInv
  <2>10. ThreadInv'
    BY <1>1, <2>5, ThreadsKept, Disjoint DEF Request
  <2>11. QED
    BY <1>1, <2>4, <2>7, <2>8, <2>9, <2>10 DEF IInv
<1>5. QED
  BY <1>3, <1>4

LEMMA CallerSteps ==
    ASSUME IInv, NEW r \in Request, BudgetPasses(r) \/ Wakes(r) PROVE IInv'
<1>1. CASE BudgetPasses(r)
  <2>1. /\ due' = due \cup {r}
        /\ UNCHANGED <<queue, future, caller, worker, batch, orphans, inflight,
                       rejected, expired, stops>>
    BY <1>1 DEF BudgetPasses
  <2>2. TypeOK'
    BY <2>1 DEF IInv, TypeOK
  <2>3. QED
    BY <2>1, <2>2, Quiet DEF IInv, PlaceInv
<1>2. CASE Wakes(r)
  <2>1. /\ caller[r] = "waiting" /\ future[r] \in {"answered", "saturated"}
        /\ caller' = [caller EXCEPT ![r] = Answer(future[r])]
        /\ UNCHANGED <<queue, future, due, worker, batch, orphans, inflight,
                       rejected, expired, stops>>
    BY <1>2 DEF Wakes
  <2>2. Answer(future[r]) \in {"429", "answered"}
    BY <2>1 DEF Answer
  <2>3. TypeOK'
    BY <2>1, <2>2 DEF IInv, TypeOK
  <2>4. caller'[r] # "new" /\ \A q \in Request : q # r => caller'[q] = caller[q]
    BY <2>1, <2>2 DEF IInv, TypeOK
  <2>5. QED
    BY <2>1, <2>3, <2>4, Quiet DEF IInv, PlaceInv, Request
<1>3. QED
  BY <1>1, <1>2

LEMMA TimesOutStep ==
    ASSUME IInv, NEW r \in Request, TimesOut(r) PROVE IInv'
<1> DEFINE f == IF r \in Queued /\ future[r] = "pending" THEN "cancelled" ELSE future[r]
<1>1. /\ caller[r] = "waiting" /\ caller' = [caller EXCEPT ![r] = "429"]
      /\ rejected' = rejected + 1
      /\ UNCHANGED <<queue, due, worker, batch, orphans, inflight, expired, stops>>
  BY DEF TimesOut
<1>2. future' = [future EXCEPT ![r] = f]
  BY DEF TimesOut, IInv, TypeOK
<1>3. /\ f \in {"none", "pending"} \cup Done
      /\ f = "none" => future[r] = "none"
      /\ r \in Queued => f # "pending"
      /\ r \in Direct => f = future[r]
  BY Disjoint DEF IInv, TypeOK, Done
<1> HIDE DEF f
<1>4. /\ future'[r] = f /\ caller'[r] = "429"
      /\ \A q \in Request : q # r => future'[q] = future[q] /\ caller'[q] = caller[q]
  BY <1>1, <1>2 DEF IInv, TypeOK
<1>5. TypeOK'
  BY <1>1, <1>2, <1>3 DEF IInv, TypeOK
<1>6. OncePlaced'
  BY <1>1 DEF IInv, OncePlaced
<1>7. Submitted'
  <2>1. /\ \A i \in 1 .. Len(queue) : queue[i] \in Request
        /\ \A i \in 1 .. Len(batch) : batch[i] \in Request
    BY DEF IInv, TypeOK, Request
  <2>2. QED
    BY <1>1, <1>3, <1>4, <2>1 DEF IInv, Submitted, Request
<1>8. PlaceInv'
  BY <1>1, <1>3, <1>4 DEF IInv, PlaceInv, Placed, Request
<1>9. ThreadInv'
  BY <1>1, <1>3, <1>4, ThreadsKept DEF Request
<1>10. QED
  BY <1>1, <1>5, <1>6, <1>7, <1>8, <1>9 DEF IInv

\* The worker takes the head of the queue, drops it or keeps it.
LEMMA GatherStep == IInv /\ Gather => IInv'
<1> SUFFICES ASSUME IInv, Gather PROVE IInv'
  OBVIOUS
<1> DEFINE h == Head(queue)
<1>1. /\ worker \in {"get", "fill"} /\ queue # <<>> /\ Len(batch) < MaxBatch
      /\ queue' = Tail(queue)
      /\ UNCHANGED <<caller, due, orphans, inflight, rejected, stops>>
  BY DEF Gather
<1>2. /\ queue \in Seq(Queued) /\ batch \in Seq(Queued)
      /\ Len(queue) \in Nat \ {0} /\ Len(batch) \in Nat
      /\ \A i \in 1 .. Len(queue) : queue[i] \in Queued
      /\ \A i \in 1 .. Len(batch) : batch[i] \in Queued
  BY <1>1 DEF IInv, TypeOK
<1>3. /\ queue' \in Seq(Queued) /\ Len(queue') = Len(queue) - 1
      /\ h = queue[1] /\ h \in Queued /\ 1 \in 1 .. Len(queue)
      /\ \A i \in 1 .. Len(queue') :
            i + 1 \in 1 .. Len(queue) /\ queue'[i] = queue[i + 1]
  BY <1>1, <1>2
<1> HIDE DEF h
<1>4. /\ \A i \in 1 .. Len(queue') : queue'[i] # h /\ queue'[i] \in Queued
      /\ \A i \in 1 .. Len(batch) : batch[i] # h
      /\ \A i, j \in 1 .. Len(queue') : queue'[i] = queue'[j] => i = j
      /\ \A i \in 1 .. Len(queue'), j \in 1 .. Len(batch) : queue'[i] # batch[j]
      /\ \A i \in 1 .. Len(queue') : future[queue'[i]] # "none"
  <2>1. ASSUME NEW i \in 1 .. Len(queue')
        PROVE  /\ queue'[i] # h /\ queue'[i] \in Queued /\ future[queue'[i]] # "none"
               /\ \A j \in 1 .. Len(batch) : queue'[i] # batch[j]
    <3>1. i + 1 \in 1 .. Len(queue) /\ i + 1 # 1 /\ queue'[i] = queue[i + 1]
      BY <1>3
    <3>2. queue'[i] # h
      BY <1>3, <3>1 DEF IInv, OncePlaced
    <3>3. queue'[i] \in Queued /\ future[queue'[i]] # "none"
      BY <1>2, <3>1 DEF IInv, Submitted
    <3>4. \A j \in 1 .. Len(batch) : queue'[i] # batch[j]
      BY <3>1 DEF IInv, OncePlaced
    <3>5. QED
      BY <3>2, <3>3, <3>4
  <2>2. ASSUME NEW i \in 1 .. Len(queue'), NEW j \in 1 .. Len(queue'),
               queue'[i] = queue'[j]
        PROVE  i = j
    <3>1. i + 1 = j + 1
      BY <1>3, <2>2 DEF IInv, OncePlaced
    <3>2. QED
      BY <3>1
  <2>3. \A i \in 1 .. Len(batch) : batch[i] # h
    BY <1>3 DEF IInv, OncePlaced
  <2>4. QED
    BY <2>1, <2>2, <2>3
<1>5. ASSUME NEW q \in Queued, Placed(q), q # h
      PROVE  \/ \E i \in 1 .. Len(queue') : queue'[i] = q
             \/ \E i \in 1 .. Len(batch) : batch[i] = q
  <2>1. CASE \E i \in 1 .. Len(queue) : queue[i] = q
    <3>1. PICK i \in 1 .. Len(queue) : queue[i] = q
      BY <2>1
    <3>2. i # 1 /\ i - 1 \in 1 .. Len(queue') /\ (i - 1) + 1 = i
      BY <1>2, <1>3, <1>5, <3>1
    <3>3. queue'[i - 1] = q
      BY <1>3, <3>1, <3>2
    <3>4. QED
      BY <3>2, <3>3
  <2>2. QED
    BY <1>5, <2>1 DEF Placed
<1>6. Len(queue') <= MaxQueue
  BY <1>2, <1>3, BatchAssumption DEF IInv, TypeOK
<1>7. CASE drop_if_stale(h)
  <2> DEFINE f == IF future[h] \in Done THEN future[h] ELSE "saturated"
  <2>1. UNCHANGED <<worker, batch>> /\ expired' = expired + 1
    BY <1>7 DEF drop_if_stale
  <2>2. future' = [future EXCEPT ![h] = f]
    BY <1>7 DEF drop_if_stale, IInv, TypeOK
  <2>3. f \in Done
    BY DEF Done
  <2> HIDE DEF f
  <2>4. /\ future'[h] \in Done
        /\ \A q \in Request : q # h => future'[q] = future[q]
    BY <1>3, <2>2, <2>3 DEF IInv, TypeOK, Request
  <2>5. TypeOK'
    <3>1. future' \in [Request -> {"none", "pending"} \cup Done]
      BY <2>2, <2>3 DEF IInv, TypeOK
    <3>2. expired' \in Nat
      BY <2>1 DEF IInv, TypeOK
    <3>3. QED
      BY <1>1, <1>3, <1>6, <2>1, <3>1, <3>2 DEF IInv, TypeOK
  <2>6. OncePlaced'
    BY <1>4, <2>1 DEF IInv, OncePlaced
  <2>7. Submitted'
    <3>1. caller[h] # "new"
      BY <1>3 DEF IInv, Submitted, Request
    <3>2. \A i \in 1 .. Len(queue') : future'[queue'[i]] # "none"
      BY <1>4, <2>4 DEF Request
    <3>3. \A i \in 1 .. Len(batch') : future'[batch'[i]] # "none"
      BY <1>2, <1>4, <2>1, <2>4 DEF IInv, Submitted, Request
    <3>4. \A q \in Request : caller'[q] = "new" => future'[q] = "none"
      BY <1>1, <2>4, <3>1 DEF IInv, Submitted
    <3>5. \A q \in Queued : future'[q] = "pending" => caller'[q] = "waiting"
      BY <1>1, <2>4 DEF IInv, Submitted, Request, Done
    <3>6. QED
      BY <3>2, <3>3, <3>4, <3>5 DEF Submitted
  <2>8. PlaceInv'
    <3>1. ASSUME stops = 0, NEW q \in Queued, future'[q] = "pending" PROVE Placed(q)'
      <4>1. q # h /\ Placed(q)
        BY <2>4, <3>1 DEF IInv, PlaceInv, Request, Done
      <4>2. QED
        BY <1>5, <2>1, <4>1 DEF Placed
    <3>2. QED
      BY <1>1, <2>1, <3>1 DEF IInv, PlaceInv
  <2>9. ThreadInv'
    BY <1>1, <1>3, <2>4, ThreadsKept, Disjoint DEF Request
  <2>10. QED
    BY <1>1, <2>5, <2>6, <2>7, <2>8, <2>9 DEF IInv
<1>8. CASE /\ batch' = Append(batch, h) /\ worker' = "fill"
           /\ UNCHANGED <<future, expired>>
  <2>1. /\ batch' \in Seq(Queued) /\ Len(batch') = Len(batch) + 1
        /\ batch'[Len(batch) + 1] = h
        /\ \A i \in 1 .. Len(batch) : batch'[i] = batch[i]
    BY <1>2, <1>3, <1>8
  <2>2. TypeOK'
    <3>1. Len(batch') <= MaxBatch
      BY <1>1, <1>2, <2>1, BatchAssumption
    <3>2. QED
      BY <1>1, <1>3, <1>6, <1>8, <2>1, <3>1 DEF IInv, TypeOK
  <2>3. OncePlaced'
    <3>1. ASSUME NEW i \in 1 .. Len(batch'), NEW j \in 1 .. Len(batch'),
                 batch'[i] = batch'[j]
          PROVE  i = j
      <4>1. CASE i = Len(batch) + 1 \/ j = Len(batch) + 1
        BY <1>2, <1>4, <2>1, <3>1, <4>1
      <4>2. CASE i # Len(batch) + 1 /\ j # Len(batch) + 1
        <5>1. i \in 1 .. Len(batch) /\ j \in 1 .. Len(batch)
          BY <1>2, <2>1, <4>2
        <5>2. QED
          BY <2>1, <3>1, <5>1 DEF IInv, OncePlaced
      <4>3. QED
        BY <4>1, <4>2
    <3>2. ASSUME NEW i \in 1 .. Len(queue'), NEW j \in 1 .. Len(batch')
          PROVE  queue'[i] # batch'[j]
      BY <1>2, <1>4, <2>1
    <3>3. QED
      BY <1>4, <3>1, <3>2 DEF OncePlaced
  <2>4. Submitted'
    <3>1. \A i \in 1 .. Len(batch') : future[batch'[i]] # "none"
      BY <1>2, <1>3, <2>1 DEF IInv, Submitted
    <3>2. QED
      BY <1>1, <1>4, <1>8, <3>1 DEF IInv, Submitted
  <2>5. PlaceInv'
    <3>1. ASSUME stops = 0, NEW q \in Queued, future[q] = "pending" PROVE Placed(q)'
      <4>1. Placed(q)
        BY <3>1 DEF IInv, PlaceInv
      <4>2. CASE q = h
        <5>1. Len(batch) + 1 \in 1 .. Len(batch')
          BY <1>2, <2>1
        <5>2. QED
          BY <2>1, <4>2, <5>1 DEF Placed
      <4>3. CASE q # h
        <5>1. \A i \in 1 .. Len(batch) : i \in 1 .. Len(batch')
          BY <1>2, <2>1
        <5>2. QED
          BY <1>5, <2>1, <4>1, <4>3, <5>1 DEF Placed
      <4>4. QED
        BY <4>2, <4>3
    <3>2. QED
      BY <1>1, <1>8, <3>1 DEF PlaceInv
  <2>6. ThreadInv'
    BY <1>1, <1>8, ThreadsKept
  <2>7. QED
    BY <1>1, <2>2, <2>3, <2>4, <2>5, <2>6 DEF IInv
<1>9. QED
  BY <1>7, <1>8 DEF Gather, h

\* The answers reach the futures of the batch that are not done: none raises.
LEMMA ScoredStep == IInv /\ Scored => IInv'
<1> SUFFICES ASSUME IInv, Scored PROVE IInv'
  OBVIOUS
<1>1. /\ batch' = <<>>
      /\ future' = [r \in Request |-> IF r \in Unresolved THEN "answered" ELSE future[r]]
      /\ worker' = IF \E r \in Unresolved : future[r] \in Done THEN "died" ELSE "get"
      /\ UNCHANGED <<queue, caller, due, orphans, inflight, rejected, expired, stops>>
  BY DEF Scored, Resolve
<1>2. worker' = "get"
  BY <1>1 DEF Unresolved
<1>3. \A r \in Unresolved : r \in Queued /\ future[r] # "none"
      /\ \E i \in 1 .. Len(batch) : batch[i] = r
  BY DEF Unresolved, ToSet, IInv, TypeOK, Submitted
<1>4. batch' \in Seq(Queued) /\ Len(batch') = 0
  BY <1>1
<1>5. \A r \in Request : future'[r] \in {future[r], "answered"}
                         /\ (r \notin Unresolved => future'[r] = future[r])
                         /\ (r \in Unresolved => future'[r] = "answered")
  BY <1>1
<1>6. TypeOK'
  <2>1. future' \in [Request -> {"none", "pending"} \cup Done]
    BY <1>1 DEF IInv, TypeOK, Done
  <2>2. QED
    BY <1>1, <1>2, <1>4, <2>1, BatchAssumption DEF IInv, TypeOK
<1>7. OncePlaced'
  BY <1>1, <1>4 DEF IInv, OncePlaced
<1>8. Submitted'
  <2>1. \A i \in 1 .. Len(queue) : queue[i] \in Request
    BY DEF IInv, TypeOK, Request
  <2>2. QED
    BY <1>1, <1>3, <1>4, <1>5, <2>1 DEF IInv, Submitted, Request
<1>9. PlaceInv'
  <2>1. ASSUME stops = 0, NEW q \in Queued, future'[q] = "pending" PROVE Placed(q)'
    <3>1. q \notin Unresolved /\ future[q] = "pending"
      BY <1>5, <2>1 DEF Request
    <3>2. \A i \in 1 .. Len(batch) : batch[i] # q
      BY <3>1 DEF Unresolved, ToSet, Done, IInv, TypeOK
    <3>3. \E i \in 1 .. Len(queue) : queue[i] = q
      BY <2>1, <3>1, <3>2 DEF IInv, PlaceInv, Placed
    <3>4. QED
      BY <1>1, <3>3 DEF Placed
  <2>2. QED
    BY <1>1, <1>2, <2>1 DEF PlaceInv
<1>10. ThreadInv'
  <2>1. \A d \in Direct : future'[d] = future[d]
    BY <1>3, <1>5, Disjoint DEF Request
  <2>2. QED
    BY <1>1, <2>1, ThreadsKept
<1>11. QED
  BY <1>1, <1>6, <1>7, <1>8, <1>9, <1>10 DEF IInv

\* run_direct and its callback change no queued request.
LEMMA DirectKept ==
    ASSUME IInv, NEW d \in Direct, NEW f \in {"pending", "answered"},
           future' = [future EXCEPT ![d] = f],
           UNCHANGED <<queue, due, worker, batch, orphans, expired, stops>>,
           caller'[d] # "new", \A q \in Request : q # d => caller'[q] = caller[q]
    PROVE  OncePlaced' /\ Submitted' /\ PlaceInv'
<1>1. \A q \in Request : q # d => future'[q] = future[q]
  BY DEF IInv, TypeOK
<1>2. \A q \in Queued : q # d /\ q \in Request
  BY Disjoint DEF Request
<1>3. /\ \A i \in 1 .. Len(queue) : queue[i] \in Queued
      /\ \A i \in 1 .. Len(batch) : batch[i] \in Queued
  BY DEF IInv, TypeOK
<1>4. OncePlaced'
  BY DEF IInv, OncePlaced
<1>5. Submitted'
  BY <1>1, <1>2, <1>3 DEF IInv, Submitted
<1>6. PlaceInv'
  BY <1>1, <1>2 DEF IInv, PlaceInv, Placed
<1>7. QED
  BY <1>4, <1>5, <1>6

LEMMA RunDirectStep ==
    ASSUME IInv, NEW d \in Direct, RunDirect(d) PROVE IInv'
<1>1. caller[d] = "new" /\ UNCHANGED <<queue, due, worker, batch, orphans, expired, stops>>
  BY DEF RunDirect
<1>2. d \in Request /\ future[d] = "none" /\ d \notin Queued
  BY <1>1, Disjoint DEF Request, IInv, Submitted
<1>3. inflight \in Nat /\ inflight = Cardinality(Scoring) /\ IsFiniteSet(Scoring)
  BY Scored1 DEF IInv, ThreadInv
<1>4. CASE ~(inflight < MaxQueue)
  <2>1. /\ caller' = [caller EXCEPT ![d] = "429"] /\ rejected' = rejected + 1
        /\ UNCHANGED <<inflight, future>>
    BY <1>4 DEF RunDirect
  <2>2. TypeOK'
    <3>1. caller' \in [Request -> {"new", "waiting", "answered", "429"}]
      BY <2>1 DEF IInv, TypeOK
    <3>2. rejected' \in Nat
      BY <2>1 DEF IInv, TypeOK
    <3>3. QED
      BY <1>1, <2>1, <3>1, <3>2 DEF IInv, TypeOK
  <2>3. caller'[d] = "429" /\ \A q \in Request : q # d => caller'[q] = caller[q]
    BY <1>2, <2>1 DEF IInv, TypeOK
  <2>4. QED
    BY <1>1, <1>2, <2>1, <2>2, <2>3, Quiet DEF IInv, PlaceInv, Request
<1>5. CASE inflight < MaxQueue
  <2>1. /\ inflight' = inflight + 1 /\ future' = [future EXCEPT ![d] = "pending"]
        /\ caller' = [caller EXCEPT ![d] = "waiting"] /\ UNCHANGED rejected
    BY <1>5 DEF RunDirect
  <2>2. /\ future'[d] = "pending" /\ caller'[d] = "waiting"
        /\ \A q \in Request : q # d => future'[q] = future[q] /\ caller'[q] = caller[q]
    BY <1>2, <2>1 DEF IInv, TypeOK
  <2>3. inflight' \in 0 .. MaxQueue
    BY <1>3, <1>5, <2>1, BatchAssumption
  <2>4. TypeOK'
    BY <1>1, <2>1, <2>3 DEF IInv, TypeOK
  <2>5. OncePlaced' /\ Submitted' /\ PlaceInv'
    BY <1>1, <2>1, <2>2, DirectKept
  <2>6. d \notin Scoring /\ Scoring' = Scoring \cup {d}
    BY <1>2, <2>2 DEF Scoring, Request
  <2>7. IsFiniteSet(Scoring') /\ Cardinality(Scoring') = Cardinality(Scoring) + 1
    BY <1>3, <2>6, FS_AddElement
  <2>8. ThreadInv'
    BY <1>3, <2>1, <2>3, <2>7, BatchAssumption DEF ThreadInv, DirectBounded
  <2>9. QED
    BY <1>1, <2>4, <2>5, <2>8 DEF IInv
<1>6. QED
  BY <1>4, <1>5

LEMMA DirectDoneStep ==
    ASSUME IInv, NEW d \in Direct, DirectDone(d) PROVE IInv'
<1>1. /\ future[d] = "pending" /\ future' = [future EXCEPT ![d] = "answered"]
      /\ inflight' = inflight - 1
      /\ UNCHANGED <<queue, caller, due, worker, batch, orphans, rejected, expired, stops>>
  BY DEF DirectDone
<1>2. d \in Request /\ caller[d] # "new"
  BY <1>1 DEF Request, IInv, Submitted
<1>3. inflight \in Nat /\ inflight = Cardinality(Scoring) /\ IsFiniteSet(Scoring)
  BY Scored1 DEF IInv, ThreadInv
<1>4. /\ future'[d] = "answered"
      /\ \A q \in Request : q # d => future'[q] = future[q]
  BY <1>1, <1>2 DEF IInv, TypeOK
<1>5. d \in Scoring /\ Scoring' = Scoring \ {d}
  BY <1>1, <1>4 DEF Scoring, Request
<1>6. IsFiniteSet(Scoring') /\ Cardinality(Scoring') = Cardinality(Scoring) - 1
  BY <1>3, <1>5, FS_RemoveElement
<1>7. Cardinality(Scoring') \in Nat
  BY <1>6, FS_CardinalityType
<1>8. inflight' \in 0 .. MaxQueue
  BY <1>1, <1>3, <1>6, <1>7, BatchAssumption DEF IInv, TypeOK
<1>9. TypeOK'
  BY <1>1, <1>8 DEF IInv, TypeOK, Done
<1>10. OncePlaced' /\ Submitted' /\ PlaceInv'
  BY <1>1, <1>2, DirectKept
<1>11. ThreadInv'
  BY <1>1, <1>3, <1>6, <1>8, BatchAssumption DEF ThreadInv, DirectBounded
<1>12. QED
  BY <1>1, <1>9, <1>10, <1>11 DEF IInv

-----------------------------------------------------------------------------
LEMMA InitInv == Init => IInv
<1> SUFFICES ASSUME Init PROVE IInv
  OBVIOUS
<1>1. /\ queue \in Seq(Queued) /\ Len(queue) = 0
      /\ batch \in Seq(Queued) /\ Len(batch) = 0
  BY DEF Init
<1>2. TypeOK /\ orphans <= stops
  BY <1>1, BatchAssumption DEF Init, TypeOK
<1>3. OncePlaced /\ Submitted /\ PlaceInv
  BY <1>1 DEF Init, OncePlaced, Submitted, PlaceInv, Request
<1>4. Scoring = {} /\ inflight = 0
  BY DEF Init, Scoring, Request
<1>5. ThreadInv
  BY <1>4, FS_EmptySet, BatchAssumption DEF ThreadInv, DirectBounded
<1>6. QED
  BY <1>2, <1>3, <1>5 DEF IInv

LEMMA NextStep == IInv /\ [Next]_vars => IInv'
<1> SUFFICES ASSUME IInv, [Next]_vars PROVE IInv'
  OBVIOUS
<1>1. CASE Start \/ OrphanEnds \/ Dispatch
  BY <1>1, WorkerSteps
<1>2. CASE Stop \/ Gather \/ Scored
  BY <1>2, StopStep, GatherStep, ScoredStep
<1>3. ASSUME NEW r \in Queued, Submit(r) PROVE IInv'
  BY <1>3, SubmitStep
<1>4. ASSUME NEW d \in Direct, RunDirect(d) \/ DirectDone(d) PROVE IInv'
  BY <1>4, RunDirectStep, DirectDoneStep
<1>5. ASSUME NEW r \in Request, BudgetPasses(r) \/ TimesOut(r) \/ Wakes(r) PROVE IInv'
  BY <1>5, CallerSteps, TimesOutStep
<1>6. CASE UNCHANGED vars
  <2>1. UNCHANGED <<queue, future, caller, due, worker, batch, orphans, inflight,
                    rejected, expired, stops>>
    BY <1>6 DEF vars
  <2>2. TypeOK'
    BY <2>1 DEF IInv, TypeOK
  <2>3. QED
    BY <2>1, <2>2, Quiet DEF IInv, PlaceInv
<1>7. QED
  BY <1>1, <1>2, <1>3, <1>4, <1>5, <1>6 DEF Next

LEMMA Invariance == Spec => []IInv
  BY InitInv, NextStep, PTL DEF Spec

\* The types hold for every size of the batch, the queue and the direct path.
THEOREM TypeCorrect == Spec => []TypeOK
<1>1. IInv => TypeOK
  BY DEF IInv
<1>2. QED
  BY Invariance, <1>1, PTL

\* Until the batcher is stopped, a pending request is in exactly one place of
\* the queue and the batch, and the worker lives (submit, _fill_batch, _run).
THEOREM NoneStranded == Spec => []NothingStranded
<1>1. ASSUME IInv PROVE NothingStranded
  <2>1. SUFFICES ASSUME stops = 0, NEW r \in Queued, future[r] = "pending"
                 PROVE  LET taken == queue \o batch
                        IN  Cardinality({i \in DOMAIN taken : taken[i] = r}) = 1
    BY <1>1 DEF NothingStranded, IInv, PlaceInv
  <2> DEFINE taken == queue \o batch
             places == {i \in DOMAIN taken : taken[i] = r}
  <2>2. queue \in Seq(Queued) /\ batch \in Seq(Queued)
    BY <1>1 DEF IInv, TypeOK
  <2>3. /\ DOMAIN taken = 1 .. Len(queue) + Len(batch)
        /\ \A i \in 1 .. Len(queue) + Len(batch) :
              taken[i] = IF i <= Len(queue) THEN queue[i] ELSE batch[i - Len(queue)]
        /\ Len(queue) \in Nat /\ Len(batch) \in Nat
    BY <2>2
  <2> HIDE DEF taken
  <2>4. Placed(r)
    BY <1>1, <2>1 DEF IInv, PlaceInv
  <2>5. CASE \E i \in 1 .. Len(queue) : queue[i] = r
    <3>1. PICK i \in 1 .. Len(queue) : queue[i] = r
      BY <2>5
    <3>2. i \in DOMAIN taken /\ taken[i] = r
      BY <2>3, <3>1
    <3>3. ASSUME NEW j \in DOMAIN taken, taken[j] = r PROVE j = i
      <4>1. CASE j <= Len(queue)
        <5>1. j \in 1 .. Len(queue) /\ queue[j] = r
          BY <2>3, <3>3, <4>1
        <5>2. QED
          BY <1>1, <3>1, <5>1 DEF IInv, OncePlaced
      <4>2. CASE ~(j <= Len(queue))
        <5>1. j - Len(queue) \in 1 .. Len(batch) /\ batch[j - Len(queue)] = r
          BY <2>3, <3>3, <4>2
        <5>2. QED
          BY <1>1, <3>1, <5>1 DEF IInv, OncePlaced
      <4>3. QED
        BY <4>1, <4>2
    <3>4. places = {i}
      BY <3>2, <3>3
    <3>5. QED
      BY <3>4, FS_Singleton DEF taken
  <2>6. CASE \E i \in 1 .. Len(batch) : batch[i] = r
    <3>1. PICK i \in 1 .. Len(batch) : batch[i] = r
      BY <2>6
    <3>2. /\ Len(queue) + i \in DOMAIN taken /\ taken[Len(queue) + i] = r
      <4>1. Len(queue) + i \in 1 .. Len(queue) + Len(batch) /\ ~(Len(queue) + i <= Len(queue))
            /\ (Len(queue) + i) - Len(queue) = i
        BY <2>3
      <4>2. QED
        BY <2>3, <3>1, <4>1
    <3>3. ASSUME NEW j \in DOMAIN taken, taken[j] = r PROVE j = Len(queue) + i
      <4>1. CASE j <= Len(queue)
        <5>1. j \in 1 .. Len(queue) /\ queue[j] = r
          BY <2>3, <3>3, <4>1
        <5>2. QED
          BY <1>1, <3>1, <5>1 DEF IInv, OncePlaced
      <4>2. CASE ~(j <= Len(queue))
        <5>1. j - Len(queue) \in 1 .. Len(batch) /\ batch[j - Len(queue)] = r
          BY <2>3, <3>3, <4>2
        <5>2. j - Len(queue) = i
          BY <1>1, <3>1, <5>1 DEF IInv, OncePlaced
        <5>3. QED
          BY <2>3, <5>2
      <4>3. QED
        BY <4>1, <4>2
    <3>4. places = {Len(queue) + i}
      BY <3>2, <3>3
    <3>5. QED
      BY <3>4, FS_Singleton DEF taken
  <2>7. QED
    BY <2>4, <2>5, <2>6 DEF Placed
<1>2. QED
  BY Invariance, <1>1, PTL

\* The direct path counts the threads that run, and there are never more of
\* them than max_queue (run_direct, _direct_done).
THEOREM DirectIsBounded == Spec => []DirectBounded
<1>1. IInv => DirectBounded
  BY DEF IInv, ThreadInv
<1>2. QED
  BY Invariance, <1>1, PTL

\* What the worker takes into its batch has a waiting caller and time left
\* (_drop_if_stale).
THEOREM ExpiredIsDropped == Spec => ExpiredNeverGathered
<1>1. ASSUME IInv, [Next]_vars
      PROVE  \A r \in Queued :
               r \in ToSet(batch') \ ToSet(batch) => caller[r] = "waiting" /\ r \notin due
  <2>1. SUFFICES ASSUME NEW r \in Queued, r \in ToSet(batch'), r \notin ToSet(batch)
                 PROVE  caller[r] = "waiting" /\ r \notin due
    OBVIOUS
  <2>2. batch' # batch /\ batch' # <<>>
    <3>1. ToSet(<<>>) = {}
      BY DEF ToSet
    <3>2. QED
      BY <2>1, <3>1
  <2>3. Gather
    BY <1>1, <2>2 DEF Next, vars, Start, Stop, OrphanEnds, Dispatch, Scored, Submit,
       RunDirect, DirectDone, BudgetPasses, TimesOut, Wakes
  <2>4. /\ queue # <<>> /\ ~Stale(Head(queue)) /\ batch' = Append(batch, Head(queue))
    BY <2>2, <2>3 DEF Gather, drop_if_stale
  <2>5. /\ batch \in Seq(Queued) /\ queue \in Seq(Queued) /\ Head(queue) = queue[1]
        /\ 1 \in 1 .. Len(queue) /\ Head(queue) \in Queued
    BY <1>1, <2>4 DEF IInv, TypeOK
  <2>6. r = Head(queue)
    <3>1. PICK i \in 1 .. Len(batch) + 1 : Append(batch, Head(queue))[i] = r
      BY <2>1, <2>4, <2>5 DEF ToSet
    <3>2. CASE i = Len(batch) + 1
      BY <2>5, <3>1, <3>2
    <3>3. CASE i # Len(batch) + 1
      <4>1. i \in 1 .. Len(batch) /\ batch[i] = r
        BY <2>5, <3>1, <3>3
      <4>2. QED
        BY <2>1, <2>5, <4>1 DEF ToSet
    <3>4. QED
      BY <3>2, <3>3
  <2>7. future[r] = "pending" /\ r \notin due
    BY <1>1, <2>4, <2>5, <2>6 DEF Stale, IInv, Submitted, TypeOK, Request
  <2>8. QED
    BY <1>1, <2>7 DEF IInv, Submitted
<1>2. QED
  BY Invariance, <1>1, PTL DEF Spec, ExpiredNeverGathered
=============================================================================
