------------------------ MODULE RuntimeServicesProofs ------------------------
(***************************************************************************)
(* Proofs about the services of RuntimeServices: a completed benchmark run *)
(* is whole, for any number of workers, pages and faults; the audit spool  *)
(* loses no more calls than it has torn writes, for any events; the rate   *)
(* limiter keeps its limits, for any pods, requests, window and limit; the *)
(* call of a remote detector keeps its deadline, for any durations and     *)
(* retries; the detectors that remember answer from their bounded memories *)
(* what the whole log demands, for any sessions and texts.                 *)
(***************************************************************************)
EXTENDS RuntimeServices, TLAPS, FiniteSetTheorems

\* The services' Cardinality, which each of them takes from FiniteSets, is the
\* one that the theorems on finite sets are about.
LEMMA SameCardinality ==
    ASSUME NEW X
    PROVE  /\ S!Cardinality(X) = Cardinality(X) /\ R!Cardinality(X) = Cardinality(X)
           /\ T!Cardinality(X) = Cardinality(X)
<1>1. S!Cardinality(X) = Cardinality(X)
  BY Zenon DEF S!Cardinality, Cardinality
<1>2. R!Cardinality(X) = Cardinality(X)
  BY Zenon DEF R!Cardinality, Cardinality
<1>3. T!Cardinality(X) = Cardinality(X)
  BY Zenon DEF T!Cardinality, Cardinality
<1>4. QED
  BY <1>1, <1>2, <1>3

(***************************************************************************)
(* The benchmark workers.  A worker has posted every page with samples     *)
(* that it has passed, and is past the last one when it completes; what is *)
(* stored stays stored, so that another worker's lease costs nothing.      *)
(***************************************************************************)
Sampled == (0 .. Pages - 1) \ Filtered

Behind(w) ==
    /\ step[w] \in {"fetch", "post", "complete"} =>
          \A p \in Sampled : p < offset[w] => p \in stored
    /\ step[w] = "post" => offset[w] < Pages
    /\ step[w] = "complete" => offset[w] >= Pages

BenchInv == B!TypeOK /\ (\A w \in Worker : Behind(w)) /\ B!CompletedIsWhole

LEMMA BenchInit == B!Init => BenchInv
<1> SUFFICES ASSUME B!Init PROVE BenchInv
  OBVIOUS
<1>1. B!TypeOK
  BY ServicesAssumption DEF B!Init, B!TypeOK
<1>2. \A w \in Worker : Behind(w)
  BY DEF B!Init, Behind
<1>3. B!CompletedIsWhole
  BY DEF B!Init, B!CompletedIsWhole
<1>4. QED
  BY <1>1, <1>2, <1>3 DEF BenchInv

\* A worker that moves on from a page it has posted, or that has no samples.
LEMMA BenchPast ==
    ASSUME BenchInv, NEW w \in Worker, offset[w] < Pages,
           step[w] \in {"fetch", "post"}, B!Past(w),
           stored \subseteq stored', stored' \subseteq 0 .. Pages - 1,
           offset[w] \in Sampled => offset[w] \in stored'
    PROVE  /\ step' \in [Worker -> {"idle", "fetch", "post", "complete", "report",
                                    "off", "stopped"}]
           /\ offset' \in [Worker -> 0 .. Pages]
           /\ \A v \in Worker : Behind(v)'
<1>1. /\ offset' = [offset EXCEPT ![w] = @ + 1]
      /\ step' = [step EXCEPT ![w] =
            IF offset[w] + 1 >= Pages THEN "complete" ELSE "fetch"]
  BY DEF B!Past, B!Goto
<1>2. /\ offset \in [Worker -> 0 .. Pages] /\ offset[w] \in Nat /\ Pages \in Nat
      /\ step \in [Worker -> {"idle", "fetch", "post", "complete", "report",
                              "off", "stopped"}]
  BY ServicesAssumption DEF BenchInv, B!TypeOK
<1>3. /\ offset'[w] = offset[w] + 1
      /\ step'[w] = IF offset[w] + 1 >= Pages THEN "complete" ELSE "fetch"
      /\ \A v \in Worker : v # w => offset'[v] = offset[v] /\ step'[v] = step[v]
  BY <1>1, <1>2
<1>4. offset' \in [Worker -> 0 .. Pages]
  BY <1>1, <1>2
<1>5. step' \in [Worker -> {"idle", "fetch", "post", "complete", "report",
                            "off", "stopped"}]
  BY <1>1, <1>2
<1>6. Behind(w)'
  <2>1. \A p \in Sampled : p < offset[w] + 1 => p \in stored'
    <3>1. TAKE p \in Sampled
    <3>2. p \in Nat
      BY <1>2 DEF Sampled
    <3>3. CASE p = offset[w]
      BY <3>3
    <3>4. CASE p # offset[w]
      BY <1>2, <3>2, <3>4 DEF BenchInv, Behind
    <3>5. QED
      BY <3>3, <3>4
  <2>2. QED
    BY <1>2, <1>3, <2>1 DEF Behind
<1>7. ASSUME NEW v \in Worker, v # w PROVE Behind(v)'
  BY <1>3, <1>7 DEF BenchInv, Behind
<1>8. QED
  BY <1>4, <1>5, <1>6, <1>7

\* A worker that goes somewhere else than to its pages keeps its place.
LEMMA BenchGoto ==
    ASSUME BenchInv, NEW w \in Worker,
           NEW s \in {"idle", "report", "off", "stopped"},
           step' = [step EXCEPT ![w] = s], offset' = offset,
           stored \subseteq stored'
    PROVE  /\ step' \in [Worker -> {"idle", "fetch", "post", "complete", "report",
                                    "off", "stopped"}]
           /\ \A v \in Worker : Behind(v)'
<1>1. /\ step'[w] = s /\ \A v \in Worker : v # w => step'[v] = step[v]
      /\ step' \in [Worker -> {"idle", "fetch", "post", "complete", "report",
                               "off", "stopped"}]
  BY DEF BenchInv, B!TypeOK
<1>2. ASSUME NEW v \in Worker PROVE Behind(v)'
  BY <1>1 DEF BenchInv, Behind
<1>3. QED
  BY <1>1, <1>2

LEMMA BenchNext == BenchInv /\ B!Next => BenchInv'
<1> SUFFICES ASSUME BenchInv, B!Next PROVE BenchInv'
  OBVIOUS
<1> USE DEF BenchInv
<1>0. /\ B!TypeOK /\ Pages \in Nat /\ MaxFaults \in Nat
      /\ \A w \in Worker : offset[w] \in 0 .. Pages
      /\ \A w \in Worker : step[w] \in {"idle", "fetch", "post", "complete", "report",
                                      "off", "stopped"}
      /\ B!Fault => faults' \in 0 .. MaxFaults
      /\ faults \in 0 .. MaxFaults
      /\ faults' = faults => faults' \in 0 .. MaxFaults
  BY ServicesAssumption DEF B!TypeOK, B!Fault
<1>1. CASE B!LeaseExpires
  BY <1>0, <1>1 DEF B!LeaseExpires, B!TypeOK, B!CompletedIsWhole, Behind
<1>2. ASSUME NEW w \in Worker, B!_claim(w) PROVE BenchInv'
  <2>1. CASE /\ status = "queued" /\ status' = "leased"
             /\ B!Goto(w, "fetch") /\ offset' = [offset EXCEPT ![w] = 0]
             /\ faults' = faults
    <3>1. /\ step'[w] = "fetch" /\ offset'[w] = 0 /\ stored' = stored
          /\ \A v \in Worker : v # w => offset'[v] = offset[v] /\ step'[v] = step[v]
      BY <1>0, <1>2, <2>1 DEF B!_claim, B!Goto, B!TypeOK
    <3>2. Behind(w)'
      BY <1>0, <3>1 DEF Behind, Sampled
    <3>3. ASSUME NEW v \in Worker, v # w PROVE Behind(v)'
      BY <3>1, <3>3 DEF Behind
    <3>4. B!TypeOK'
      BY <1>0, <2>1, <3>1 DEF B!Goto, B!TypeOK
    <3>5. QED
      BY <2>1, <3>2, <3>3, <3>4 DEF B!CompletedIsWhole
  <2>2. CASE /\ B!Fault
             /\ status' \in IF status = "queued" THEN {status, "leased"} ELSE {status}
             /\ step' = step /\ offset' = offset
    BY <1>0, <1>2, <2>2 DEF B!_claim, B!TypeOK, B!CompletedIsWhole, Behind
  <2>3. QED
    BY <1>2, <2>1, <2>2 DEF B!_claim
<1>3. ASSUME NEW w \in Worker, B!_unsupported(w) \/ B!stop(w) \/ B!start(w)
      PROVE  BenchInv'
  <2>1. /\ status' = status /\ stored' = stored /\ offset' = offset
        /\ faults' \in 0 .. MaxFaults
    BY <1>0, <1>3 DEF B!_unsupported, B!stop, B!start
  <2>2. PICK s \in {"idle", "off", "stopped"} : step' = [step EXCEPT ![w] = s]
    BY <1>3 DEF B!_unsupported, B!stop, B!start, B!Goto
  <2>3. /\ step' \in [Worker -> {"idle", "fetch", "post", "complete", "report",
                                 "off", "stopped"}]
        /\ \A v \in Worker : Behind(v)'
    BY <2>1, <2>2, BenchGoto
  <2>4. QED
    BY <1>0, <2>1, <2>3 DEF B!TypeOK, B!CompletedIsWhole
<1>4. ASSUME NEW w \in Worker, B!_fetch_samples(w) PROVE BenchInv'
  <2>1. step[w] = "fetch" /\ status' = status /\ stored' = stored
    BY <1>4 DEF B!_fetch_samples
  <2>2. CASE /\ offset[w] >= Pages
             /\ B!Goto(w, "complete") /\ offset' = offset /\ faults' = faults
    <3>1. /\ step'[w] = "complete" /\ \A v \in Worker : v # w => step'[v] = step[v]
          /\ step' \in [Worker -> {"idle", "fetch", "post", "complete", "report",
                                   "off", "stopped"}]
      BY <1>0, <2>2 DEF B!Goto, B!TypeOK
    <3>2. ASSUME NEW v \in Worker PROVE Behind(v)'
      BY <2>1, <2>2, <3>1 DEF Behind
    <3>3. QED
      BY <1>0, <2>1, <2>2, <3>1, <3>2 DEF B!TypeOK, B!CompletedIsWhole
  <2>3. CASE /\ offset[w] < Pages /\ offset[w] \in Filtered
             /\ B!PastEmpty(w) /\ faults' = faults
    <3>1. /\ offset' = [offset EXCEPT ![w] = offset[w] + 1]
          /\ step' = [step EXCEPT ![w] = "fetch"]
          /\ offset[w] \in 0 .. Pages /\ Pages \in Nat
      BY <1>0, <2>3, ServicesAssumption DEF B!PastEmpty, B!Goto, B!TypeOK
    <3>2. /\ step' \in [Worker -> {"idle", "fetch", "post", "complete", "report",
                                   "off", "stopped"}]
          /\ offset' \in [Worker -> 0 .. Pages]
          /\ step'[w] = "fetch" /\ offset'[w] = offset[w] + 1
          /\ \A v \in Worker : v # w => step'[v] = step[v] /\ offset'[v] = offset[v]
      BY <1>0, <2>3, <3>1 DEF B!TypeOK
    <3>3. ASSUME NEW v \in Worker PROVE Behind(v)'
      <4>1. CASE v # w
        BY <1>0, <2>1, <3>2, <4>1 DEF Behind
      <4>2. CASE v = w
        <5>1. ASSUME NEW p \in Sampled, p < offset[w] + 1 PROVE p \in stored
          <6>1. p # offset[w] /\ p \in Nat /\ offset[w] \in Nat
            BY <2>3, <3>1, ServicesAssumption DEF Sampled
          <6>2. QED
            BY <1>0, <2>1, <5>1, <6>1 DEF Behind
        <5>2. QED
          BY <2>1, <3>2, <4>2, <5>1 DEF Behind, Sampled
      <4>3. QED
        BY <4>1, <4>2
    <3>4. QED
      BY <1>0, <2>1, <2>3, <3>2, <3>3 DEF B!TypeOK, B!CompletedIsWhole
  <2>4. CASE /\ offset[w] < Pages /\ offset[w] \notin Filtered
             /\ B!Goto(w, "post") /\ offset' = offset /\ faults' = faults
    <3>1. /\ step'[w] = "post" /\ \A v \in Worker : v # w => step'[v] = step[v]
          /\ step' \in [Worker -> {"idle", "fetch", "post", "complete", "report",
                                   "off", "stopped"}]
      BY <1>0, <2>4 DEF B!Goto, B!TypeOK
    <3>2. ASSUME NEW v \in Worker PROVE Behind(v)'
      BY <2>1, <2>4, <3>1 DEF Behind
    <3>3. QED
      BY <1>0, <2>1, <2>4, <3>1, <3>2 DEF B!TypeOK, B!CompletedIsWhole
  <2>5. CASE B!Fault /\ B!Goto(w, "report") /\ offset' = offset
    <3>1. /\ step' \in [Worker -> {"idle", "fetch", "post", "complete", "report",
                                   "off", "stopped"}]
          /\ \A v \in Worker : Behind(v)'
      BY <2>1, <2>5, BenchGoto DEF B!Goto
    <3>2. QED
      BY <1>0, <2>1, <2>5, <3>1 DEF B!TypeOK, B!CompletedIsWhole
  <2>6. QED
    BY <1>4, <2>2, <2>3, <2>4, <2>5 DEF B!_fetch_samples
<1>5. ASSUME NEW w \in Worker, B!_post_results(w) PROVE BenchInv'
  <2>1. step[w] = "post" /\ status' = status /\ offset[w] < Pages /\ offset[w] \in 0 .. Pages
    BY <1>0, <1>5 DEF B!_post_results, Behind
  <2>2. /\ stored \subseteq stored' /\ stored' \subseteq 0 .. Pages - 1
        /\ faults' \in 0 .. MaxFaults
    <3>1. stored' = stored \/ stored' = stored \cup {offset[w]}
      BY <1>5 DEF B!_post_results
    <3>2. stored \subseteq 0 .. Pages - 1 /\ offset[w] \in 0 .. Pages - 1
      BY <1>0, <2>1 DEF B!TypeOK
    <3>3. faults' \in 0 .. MaxFaults
      BY <1>0, <1>5 DEF B!_post_results
    <3>4. QED
      BY <3>1, <3>2, <3>3
  <2>3. CASE stored' = stored \cup {offset[w]} /\ B!Past(w)
    <3>1. /\ step' \in [Worker -> {"idle", "fetch", "post", "complete", "report",
                                   "off", "stopped"}]
          /\ offset' \in [Worker -> 0 .. Pages]
          /\ \A v \in Worker : Behind(v)'
      BY <2>1, <2>2, <2>3, BenchPast
    <3>2. QED
      BY <1>0, <2>1, <2>2, <3>1 DEF B!TypeOK, B!CompletedIsWhole
  <2>4. CASE B!PostFails(w)
    <3>1. /\ step' \in [Worker -> {"idle", "fetch", "post", "complete", "report",
                                   "off", "stopped"}]
          /\ \A v \in Worker : Behind(v)'
      BY <2>2, <2>4, BenchGoto DEF B!Goto, B!PostFails
    <3>2. QED
      BY <1>0, <2>1, <2>2, <2>4, <3>1 DEF B!TypeOK, B!CompletedIsWhole, B!PostFails
  <2>5. QED
    BY <1>5, <2>3, <2>4 DEF B!_post_results
<1>6. ASSUME NEW w \in Worker, B!_complete(w) PROVE BenchInv'
  <2>1. /\ stored' = stored /\ offset' = offset /\ step' = [step EXCEPT ![w] = "idle"]
        /\ status' \in {status, IF step[w] = "complete" THEN "completed" ELSE "failed"}
        /\ faults' \in 0 .. MaxFaults
    BY <1>0, <1>6 DEF B!_complete, B!Goto
  <2>2. /\ step' \in [Worker -> {"idle", "fetch", "post", "complete", "report",
                                 "off", "stopped"}]
        /\ \A v \in Worker : Behind(v)'
    BY <2>1, BenchGoto
  <2>3. step[w] = "complete" => (0 .. Pages - 1) \ Filtered \subseteq stored
    BY <1>0 DEF Behind, Sampled
  <2>4. B!CompletedIsWhole'
    BY <2>1, <2>3 DEF B!CompletedIsWhole
  <2>5. B!TypeOK'
    BY <1>0, <2>1, <2>2 DEF B!TypeOK
  <2>6. QED
    BY <2>2, <2>4, <2>5
<1>7. QED
  BY <1>1, <1>2, <1>3, <1>4, <1>5, <1>6 DEF B!Next, B!Work

(***************************************************************************)
(* The audit spool.  Lost are the calls that were recorded and that the    *)
(* drain does not see.  A record is lost only behind an open line, and     *)
(* ends it: each torn write pays for one loss, and as long as its line is  *)
(* open it has not been spent.                                             *)
(***************************************************************************)
Line == [parts : Seq(Event), whole : BOOLEAN, ended : BOOLEAN]

Open == lines # <<>> /\ ~lines[Len(lines)].ended

Recorded == {e \in Event : fate[e] = "recorded"}

Lost == Recorded \ S!read_all

SpoolInv ==
    /\ S!TypeOK
    /\ \A i \in 1 .. Len(lines) : lines[i].whole => lines[i].ended
    /\ FailMode = "closed" => \A e \in Event : fate[e] # "unaudited"
    /\ IsFiniteSet(Lost)
    /\ Cardinality(Lost) + (IF Open THEN 1 ELSE 0) <= torn

LEMMA SpoolInit == S!Init => SpoolInv
<1> SUFFICES ASSUME S!Init PROVE SpoolInv
  OBVIOUS
<1>1. S!TypeOK /\ lines = <<>> /\ torn = 0
  BY ServicesAssumption DEF S!Init, S!TypeOK
<1>2. Lost = {} /\ ~Open /\ \A e \in Event : fate[e] = "new"
  BY DEF S!Init, Lost, Recorded, Open
<1>3. IsFiniteSet(Lost) /\ Cardinality(Lost) = 0
  BY <1>2, FS_EmptySet
<1>4. QED
  BY <1>1, <1>2, <1>3 DEF SpoolInv

\* The file is still the lines it was, an open last line excepted, and a line
\* that ends as the write did.
LEMMA SpoolAppend ==
    ASSUME SpoolInv, NEW e \in Event, NEW whole \in BOOLEAN,
           S!_append_sync(e, whole)
    PROVE  /\ lines' \in Seq(Line)
           /\ \A i \in 1 .. Len(lines') : lines'[i].whole => lines'[i].ended
           /\ Open' <=> ~whole
           /\ \A i \in 1 .. Len(lines) : lines[i].whole =>
                 i \in 1 .. Len(lines') /\ lines'[i] = lines[i]
           /\ whole /\ ~Open =>
                 \E i \in 1 .. Len(lines') : lines'[i].whole /\ lines'[i].parts = <<e>>
<1>0. lines \in Seq(Line)
  BY DEF SpoolInv, S!TypeOK, Line
<1>1. CASE Open
  <2> DEFINE l == [parts |-> lines[Len(lines)].parts \o <<e>>,
                   whole |-> FALSE, ended |-> whole]
  <2>1. lines # <<>> /\ Len(lines) \in Nat /\ Len(lines) > 0
    BY <1>0, <1>1 DEF Open
  <2>2. lines' = Append(SubSeq(lines, 1, Len(lines) - 1), l)
    BY <1>1 DEF S!_append_sync, Open, S!Last, S!Front
  <2>3. l \in Line
    <3>1. lines[Len(lines)] \in Line
      BY <1>0, <2>1
    <3>2. lines[Len(lines)].parts \o <<e>> \in Seq(Event)
      BY <3>1 DEF Line
    <3>3. QED
      BY <3>2 DEF Line
  <2>4. SubSeq(lines, 1, Len(lines) - 1) \in Seq(Line)
    BY <1>0, <2>1
  <2>5. /\ lines' \in Seq(Line) /\ Len(lines') = Len(lines)
        /\ lines'[Len(lines)] = l
        /\ \A i \in 1 .. Len(lines) - 1 : lines'[i] = lines[i]
    BY <1>0, <2>1, <2>2, <2>3, <2>4
  <2>6. QED
    BY <1>0, <1>1, <2>1, <2>5 DEF Open, SpoolInv
<1>2. CASE ~Open
  <2> DEFINE l == [parts |-> <<>> \o <<e>>, whole |-> whole, ended |-> whole]
  <2>1. lines' = Append(lines, l)
    BY <1>2 DEF S!_append_sync, Open, S!Last
  <2>2. l \in Line /\ l.parts = <<e>>
    BY DEF Line
  <2>3. /\ lines' \in Seq(Line) /\ Len(lines') = Len(lines) + 1
        /\ lines'[Len(lines) + 1] = l
        /\ \A i \in 1 .. Len(lines) : lines'[i] = lines[i]
    BY <1>0, <2>1, <2>2
  <2>4. QED
    BY <1>0, <2>2, <2>3 DEF Open, SpoolInv
<1>3. QED
  BY <1>1, <1>2

\* What the drain has seen it sees again.
LEMMA SpoolGrows ==
    ASSUME \A i \in 1 .. Len(lines) : lines[i].whole =>
              i \in 1 .. Len(lines') /\ lines'[i] = lines[i]
    PROVE  S!read_all \subseteq S!read_all'
  BY DEF S!read_all

\* A set that has lost elements, or gained one.
LEMMA AtMostOneMore ==
    ASSUME NEW L, IsFiniteSet(L), NEW e, NEW M, M \subseteq L \cup {e}
    PROVE  IsFiniteSet(M) /\ Cardinality(M) <= Cardinality(L) + 1
<1>1. /\ IsFiniteSet(L \cup {e}) /\ Cardinality(L) \in Nat
      /\ Cardinality(L \cup {e}) = Cardinality(L)
            \/ Cardinality(L \cup {e}) = Cardinality(L) + 1
  BY FS_AddElement, FS_CardinalityType
<1>2. IsFiniteSet(M) /\ Cardinality(M) <= Cardinality(L \cup {e})
  BY <1>1, FS_Subset
<1>3. QED
  BY <1>1, <1>2, FS_CardinalityType

LEMMA SpoolNext == SpoolInv /\ S!Next => SpoolInv'
<1> SUFFICES ASSUME SpoolInv, S!Next PROVE SpoolInv'
  OBVIOUS
<1>1. PICK e \in Event : S!record(e) \/ S!WriteFails(e) \/ S!Crash(e)
  BY DEF S!Next
<1>2. /\ lines \in Seq(Line) /\ torn \in Nat /\ MaxTorn \in Nat /\ torn <= MaxTorn
      /\ fate \in [Event -> {"new", "recorded", "denied", "unaudited", "crashed"}]
      /\ IsFiniteSet(Lost) /\ Cardinality(Lost) \in Nat
  BY ServicesAssumption, FS_CardinalityType DEF SpoolInv, S!TypeOK, Line
<1>3. CASE S!record(e)
  <2>1. /\ S!_append_sync(e, TRUE) /\ torn' = torn /\ fate[e] = "new"
        /\ fate' = [fate EXCEPT ![e] = "recorded"]
    BY <1>3 DEF S!record
  <2>2. /\ lines' \in Seq(Line) /\ ~Open'
        /\ \A i \in 1 .. Len(lines') : lines'[i].whole => lines'[i].ended
        /\ S!read_all \subseteq S!read_all'
        /\ ~Open => e \in S!read_all'
    <3>1. /\ lines' \in Seq(Line) /\ (Open' <=> ~TRUE)
          /\ \A i \in 1 .. Len(lines') : lines'[i].whole => lines'[i].ended
          /\ \A i \in 1 .. Len(lines) : lines[i].whole =>
                i \in 1 .. Len(lines') /\ lines'[i] = lines[i]
          /\ ~Open =>
                \E i \in 1 .. Len(lines') : lines'[i].whole /\ lines'[i].parts = <<e>>
      BY <2>1, SpoolAppend
    <3>2. S!read_all \subseteq S!read_all'
      BY <3>1, SpoolGrows
    <3>3. ~Open => e \in S!read_all'
      BY <3>1 DEF S!read_all
    <3>4. QED
      BY <3>1, <3>2, <3>3
  <2>3. /\ Recorded' = Recorded \cup {e}
        /\ fate' \in [Event -> {"new", "recorded", "denied", "unaudited", "crashed"}]
        /\ \A f \in Event : fate'[f] = "unaudited" => fate[f] = "unaudited"
    BY <1>2, <2>1 DEF Recorded
  <2>4. Lost' \subseteq Lost \cup {e} /\ (~Open => Lost' \subseteq Lost)
    BY <2>2, <2>3 DEF Lost
  <2>5. CASE Open
    <3>1. IsFiniteSet(Lost') /\ Cardinality(Lost') <= Cardinality(Lost) + 1
      BY <1>2, <2>4, AtMostOneMore
    <3>2. Cardinality(Lost') \in Nat
      BY <3>1, FS_CardinalityType
    <3>3. Cardinality(Lost') + (IF Open' THEN 1 ELSE 0) <= torn'
      BY <1>2, <2>1, <2>2, <2>5, <3>1, <3>2 DEF SpoolInv
    <3>4. QED
      BY <1>2, <2>1, <2>2, <2>3, <3>1, <3>3 DEF SpoolInv, S!TypeOK, Line
  <2>6. CASE ~Open
    <3>1. IsFiniteSet(Lost') /\ Cardinality(Lost') <= Cardinality(Lost)
      BY <1>2, <2>4, <2>6, FS_Subset
    <3>2. Cardinality(Lost') \in Nat
      BY <3>1, FS_CardinalityType
    <3>3. Cardinality(Lost') + (IF Open' THEN 1 ELSE 0) <= torn'
      BY <1>2, <2>1, <2>2, <2>6, <3>1, <3>2 DEF SpoolInv
    <3>4. QED
      BY <1>2, <2>1, <2>2, <2>3, <3>1, <3>3 DEF SpoolInv, S!TypeOK, Line
  <2>7. QED
    BY <2>5, <2>6
<1>4. CASE S!WriteFails(e) \/ S!Crash(e)
  <2>1. /\ S!_append_sync(e, FALSE) \/ lines' = lines
        /\ torn < MaxTorn /\ torn' = torn + 1 /\ fate[e] = "new"
    BY <1>4 DEF S!WriteFails, S!Crash
  <2>2. PICK f \in {"denied", "unaudited", "crashed"} :
          /\ fate' = [fate EXCEPT ![e] = f]
          /\ FailMode = "closed" => f # "unaudited"
    BY <1>4 DEF S!WriteFails, S!Crash, S!_handle_failure
  <2>3. /\ lines' \in Seq(Line)
        /\ \A i \in 1 .. Len(lines') : lines'[i].whole => lines'[i].ended
        /\ \A i \in 1 .. Len(lines) : lines[i].whole =>
              i \in 1 .. Len(lines') /\ lines'[i] = lines[i]
    <3>1. CASE lines' = lines
      BY <1>2, <3>1 DEF SpoolInv
    <3>2. CASE S!_append_sync(e, FALSE)
      BY <3>2, SpoolAppend
    <3>3. QED
      BY <2>1, <3>1, <3>2
  <2>4. /\ Recorded' = Recorded
        /\ fate' \in [Event -> {"new", "recorded", "denied", "unaudited", "crashed"}]
        /\ FailMode = "closed" => \A g \in Event : fate'[g] # "unaudited"
    BY <1>2, <2>1, <2>2 DEF Recorded, SpoolInv
  <2>5. Lost' \subseteq Lost
    BY <2>3, <2>4, SpoolGrows DEF Lost
  <2>6. IsFiniteSet(Lost') /\ Cardinality(Lost') <= Cardinality(Lost)
    BY <1>2, <2>5, FS_Subset
  <2>7. Cardinality(Lost') + (IF Open' THEN 1 ELSE 0) <= torn'
    <3>1. Cardinality(Lost') \in Nat /\ Cardinality(Lost) <= torn
      BY <1>2, <2>6, FS_CardinalityType DEF SpoolInv
    <3>2. QED
      BY <1>2, <2>1, <2>6, <3>1
  <2>8. torn' \in 0 .. MaxTorn
    BY <1>2, <2>1
  <2>9. QED
    BY <2>3, <2>4, <2>6, <2>7, <2>8 DEF SpoolInv, S!TypeOK, Line
<1>5. QED
  BY <1>1, <1>3, <1>4

LEMMA SpoolLoss == SpoolInv => LossBounded
<1> SUFFICES ASSUME SpoolInv PROVE S!LossBounded
  BY DEF LossBounded
<1> DEFINE sent == {e \in Event : fate[e] \in {"recorded", "unaudited"}}
           own  == IF FailMode = "closed" THEN {} ELSE {e \in sent : fate[e] = "unaudited"}
<1>1. sent \ own = Recorded
  BY DEF SpoolInv, Recorded
<1>2. (sent \ own) \ S!read_all = Lost
  BY <1>1 DEF Lost
<1>3. Cardinality(Lost) \in Nat /\ torn \in Nat /\ Cardinality(Lost) <= torn
  BY FS_CardinalityType, ServicesAssumption DEF SpoolInv, S!TypeOK
<1>4. \A e \in sent \ S!read_all : e \in own \/ fate[e] = "recorded"
  BY DEF SpoolInv
<1>5. QED
  <2>1. S!Cardinality((sent \ own) \ S!read_all) <= torn
    BY <1>2, <1>3, SameCardinality
  <2>2. QED
    BY <1>4, <2>1 DEF S!LossBounded

(***************************************************************************)
(* The rate limiter.  The memory of a pod holds every pass that its window *)
(* still reaches, so that what it counts is no less than any window that   *)
(* ends now; a fixed window of Redis has no more passes than its counter.  *)
(***************************************************************************)
Span(entries, from) == {e \in entries : e.at \in from .. from + RateWindow - 1}

Slot(entries, w) == {e \in entries : R!window_id(e.at) = w}

\* Passes are numbered from one, none in the future.
Numbered(k, by) ==
    /\ IsFiniteSet(passed[k][by])
    /\ \A e \in passed[k][by] : e.n <= Cardinality(passed[k][by]) /\ e.at <= clock

Mirrored(k, p) ==
    /\ recent[p][k] \subseteq passed[k][p]
    /\ \A e \in passed[k][p] : e.at + RateWindow > clock => e \in recent[p][k]

WithinMemory(k, p) == \A t \in Nat : Cardinality(Span(passed[k][p], t)) <= Limit

WithinRedis(k) ==
    \A w \in Nat :
        /\ Cardinality(Slot(passed[k]["redis"], w)) <= Limit
        /\ w \in R!Windows => Cardinality(Slot(passed[k]["redis"], w)) <= counted[k][w]

LimiterInv ==
    /\ R!TypeOK
    /\ \A p \in Pod : keyed[p] <= came
    /\ \A k \in R!Kind :
          /\ \A by \in R!Backend : Numbered(k, by)
          /\ \A p \in Pod : Mirrored(k, p) /\ WithinMemory(k, p)
          /\ WithinRedis(k)

LEMMA LimiterInit == R!Init => LimiterInv
<1> SUFFICES ASSUME R!Init PROVE LimiterInv
  OBVIOUS
<1>1. R!TypeOK /\ \A p \in Pod : keyed[p] <= came
  BY ServicesAssumption DEF R!Init, R!TypeOK
<1>2. IsFiniteSet({}) /\ Cardinality({}) = 0
  BY FS_EmptySet
<1>3. ASSUME NEW k \in R!Kind, NEW by \in R!Backend PROVE passed[k][by] = {} /\ Numbered(k, by)
  BY <1>2 DEF R!Init, Numbered
<1>4. ASSUME NEW k \in R!Kind, NEW p \in Pod PROVE Mirrored(k, p) /\ WithinMemory(k, p)
  <2>1. passed[k][p] = {} /\ recent[p][k] = {}
    BY DEF R!Init, R!Backend
  <2>2. \A t \in Nat : Span(passed[k][p], t) = {}
    BY <2>1 DEF Span
  <2>3. QED
    <3>1. Mirrored(k, p)
      BY <2>1 DEF Mirrored
    <3>2. WithinMemory(k, p)
      <4>1. 0 <= Limit
        BY ServicesAssumption
      <4>2. QED
        BY <1>2, <2>2, <4>1 DEF WithinMemory
    <3>3. QED
      BY <3>1, <3>2
<1>5. ASSUME NEW k \in R!Kind PROVE WithinRedis(k)
  <2>1. passed[k]["redis"] = {} /\ \A w \in R!Windows : counted[k][w] = 0
    BY DEF R!Init, R!Backend
  <2>2. \A w \in Nat : Slot(passed[k]["redis"], w) = {}
    BY <2>1 DEF Slot
  <2>3. 0 <= Limit
    BY ServicesAssumption
  <2>4. QED
    BY <1>2, <2>1, <2>2, <2>3 DEF WithinRedis
<1>6. QED
  BY <1>1, <1>3, <1>4, <1>5 DEF LimiterInv

\* What LimiterInv says of the types, as the lemmas below need it.
LEMMA LimiterTypes ==
    ASSUME LimiterInv
    PROVE  /\ clock \in Nat /\ MaxClock \in Nat /\ clock <= MaxClock
           /\ RateWindow \in Nat \ {0} /\ Limit \in Nat
           /\ recent \in [Pod -> [R!Kind -> SUBSET R!Entry]]
           /\ passed \in [R!Kind -> [R!Backend -> SUBSET R!Entry]]
           /\ counted \in [R!Kind -> [R!Windows -> Nat]]
           /\ Pod \subseteq R!Backend /\ "redis" \in R!Backend /\ "redis" \notin Pod
           /\ clock \div RateWindow \in R!Windows
<1>1. /\ clock \in Nat /\ MaxClock \in Nat /\ clock <= MaxClock
      /\ RateWindow \in Nat \ {0} /\ Limit \in Nat
  BY ServicesAssumption DEF LimiterInv, R!TypeOK
<1>2. /\ clock \div RateWindow \in Nat /\ MaxClock \div RateWindow \in Nat
      /\ clock \div RateWindow <= MaxClock \div RateWindow
  BY <1>1
<1>3. clock \div RateWindow \in R!Windows
  BY <1>2 DEF R!Windows
<1>4. Pod \subseteq R!Backend /\ "redis" \in R!Backend /\ "redis" \notin Pod
  BY ServicesAssumption DEF R!Backend
<1>5. QED
  BY <1>1, <1>3, <1>4 DEF LimiterInv, R!TypeOK

\* A check that passes adds one entry, of now, to the passes of its backend.
LEMMA PassAdds ==
    ASSUME LimiterInv, NEW k \in R!Kind, NEW by \in R!Backend,
           R!Pass(k, by), clock' = clock
    PROVE  /\ R!NewEntry(k, by) \in R!Entry /\ R!NewEntry(k, by).at = clock
           /\ passed'[k][by] = passed[k][by] \cup {R!NewEntry(k, by)}
           /\ passed' \in [R!Kind -> [R!Backend -> SUBSET R!Entry]]
           /\ \A l \in R!Kind, c \in R!Backend :
                 l # k \/ c # by => passed'[l][c] = passed[l][c]
           /\ \A l \in R!Kind, c \in R!Backend : Numbered(l, c)'
<1> DEFINE x == R!NewEntry(k, by)
<1>1. /\ IsFiniteSet(passed[k][by]) /\ Cardinality(passed[k][by]) \in Nat
      /\ \A e \in passed[k][by] : e.n <= Cardinality(passed[k][by])
      /\ passed[k][by] \subseteq R!Entry
      /\ clock \in 0 .. MaxClock
  BY LimiterTypes, FS_CardinalityType DEF LimiterInv, Numbered, R!TypeOK
<1>2. x = [n |-> Cardinality(passed[k][by]) + 1, at |-> clock]
  BY SameCardinality DEF R!NewEntry
<1>3. x \in R!Entry /\ x.at = clock /\ x.n = Cardinality(passed[k][by]) + 1
  BY <1>1, <1>2 DEF R!Entry
<1>4. passed' = [passed EXCEPT ![k][by] = @ \cup {x}]
  BY DEF R!Pass
<1>5. /\ passed'[k][by] = passed[k][by] \cup {x}
      /\ passed' \in [R!Kind -> [R!Backend -> SUBSET R!Entry]]
      /\ \A l \in R!Kind, c \in R!Backend :
            l # k \/ c # by => passed'[l][c] = passed[l][c]
  <2> HIDE DEF x
  <2>1. passed \in [R!Kind -> [R!Backend -> SUBSET R!Entry]]
    BY LimiterTypes
  <2>2. QED
    BY <1>3, <1>4, <2>1
<1>6. x \notin passed[k][by]
  <2>1. ASSUME x \in passed[k][by] PROVE FALSE
    <3>1. x.n <= Cardinality(passed[k][by])
      BY <1>1, <2>1
    <3>2. QED
      BY <1>1, <1>3, <3>1
  <2>2. QED
    BY <2>1
<1>7. Numbered(k, by)'
  <2>1. /\ IsFiniteSet(passed'[k][by])
        /\ Cardinality(passed'[k][by]) = Cardinality(passed[k][by]) + 1
    <3> HIDE DEF x
    <3>1. /\ IsFiniteSet(passed[k][by] \cup {x})
          /\ Cardinality(passed[k][by] \cup {x}) = Cardinality(passed[k][by]) + 1
      BY <1>1, <1>6, FS_AddElement
    <3>2. QED
      BY <1>5, <3>1
  <2>2. ASSUME NEW e \in passed'[k][by]
        PROVE  e.n <= Cardinality(passed'[k][by]) /\ e.at <= clock
    <3>1. CASE e = x
      BY <1>1, <1>3, <2>1, <3>1
    <3>2. CASE e \in passed[k][by]
      <4>1. e.n \in Nat /\ e.n <= Cardinality(passed[k][by]) /\ e.at <= clock
        BY <1>1, <3>2 DEF LimiterInv, Numbered, R!Entry
      <4>2. QED
        BY <1>1, <2>1, <4>1
    <3>3. QED
      BY <1>5, <2>2, <3>1, <3>2
  <2>3. QED
    BY <2>1, <2>2 DEF Numbered
<1>8. ASSUME NEW l \in R!Kind, NEW c \in R!Backend PROVE Numbered(l, c)'
  <2>1. CASE l = k /\ c = by
    BY <1>7, <2>1
  <2>2. CASE l # k \/ c # by
    BY <1>5, <2>2 DEF LimiterInv, Numbered
  <2>3. QED
    BY <2>1, <2>2
<1>9. QED
  BY <1>3, <1>5, <1>8

\* A backend that has not changed keeps its bounds.
LEMMA SameMemory ==
    ASSUME LimiterInv, clock' = clock, NEW k \in R!Kind, NEW p \in Pod,
           passed'[k][p] = passed[k][p], recent'[p][k] = recent[p][k]
    PROVE  Mirrored(k, p)' /\ WithinMemory(k, p)'
  BY DEF LimiterInv, Mirrored, WithinMemory, Span

\* The in-memory limiter: every pass of a window that now belongs to is among
\* the times it has kept.
LEMMA MemoryChecked ==
    ASSUME LimiterInv, NEW p \in Pod, NEW k \in R!Kind,
           R!memory_is_allowed(p, k), clock' = clock
    PROVE  /\ recent' \in [Pod -> [R!Kind -> SUBSET R!Entry]]
           /\ passed' \in [R!Kind -> [R!Backend -> SUBSET R!Entry]]
           /\ \A l \in R!Kind, c \in R!Backend : Numbered(l, c)'
           /\ \A l \in R!Kind, q \in Pod : Mirrored(l, q)' /\ WithinMemory(l, q)'
           /\ \A l \in R!Kind : passed'[l]["redis"] = passed[l]["redis"]
<1> DEFINE kept == R!InWindow(recent[p][k])
           x == R!NewEntry(k, p)
<1>0. /\ clock \in Nat /\ RateWindow \in Nat \ {0} /\ Limit \in Nat
      /\ recent \in [Pod -> [R!Kind -> SUBSET R!Entry]]
      /\ passed \in [R!Kind -> [R!Backend -> SUBSET R!Entry]]
      /\ Pod \subseteq R!Backend /\ "redis" \in R!Backend /\ "redis" \notin Pod
      /\ p \in R!Backend
  BY LimiterTypes
<1>1. /\ kept \subseteq recent[p][k] /\ kept \subseteq passed[k][p]
      /\ \A e \in passed[k][p] : e.at + RateWindow > clock => e \in kept
      /\ kept \in SUBSET R!Entry
  BY <1>0 DEF LimiterInv, Mirrored, R!InWindow
<1>2. IsFiniteSet(passed[k][p]) /\ IsFiniteSet(kept) /\ Cardinality(kept) \in Nat
  BY <1>0, <1>1, FS_Subset, FS_CardinalityType DEF LimiterInv, Numbered
<1> HIDE DEF kept, x
<1>3. CASE R!MemoryAllows(p, k)
  <2>1. /\ recent' = [recent EXCEPT ![p][k] = kept \cup {x}]
        /\ R!Pass(k, p)
    BY <1>3 DEF R!memory_is_allowed, kept, x
  <2>2. /\ x \in R!Entry /\ x.at = clock
        /\ passed'[k][p] = passed[k][p] \cup {x}
        /\ passed' \in [R!Kind -> [R!Backend -> SUBSET R!Entry]]
        /\ \A l \in R!Kind, c \in R!Backend :
              l # k \/ c # p => passed'[l][c] = passed[l][c]
        /\ \A l \in R!Kind, c \in R!Backend : Numbered(l, c)'
    BY <1>0, <2>1, PassAdds DEF x
  <2>3. /\ recent' \in [Pod -> [R!Kind -> SUBSET R!Entry]]
        /\ recent'[p][k] = kept \cup {x}
        /\ \A l \in R!Kind, q \in Pod :
              l # k \/ q # p => recent'[q][l] = recent[q][l]
    BY <1>0, <1>1, <2>1, <2>2
  <2>4. Cardinality(kept) + 1 <= Limit
    <3>1. Cardinality(kept) < Limit
      BY <1>3, SameCardinality DEF R!MemoryAllows, kept
    <3>2. QED
      BY <1>0, <1>2, <3>1
  <2>5. Mirrored(k, p)'
    <3>1. recent'[p][k] \subseteq passed'[k][p]
      BY <1>1, <2>2, <2>3
    <3>2. ASSUME NEW e \in passed'[k][p], e.at + RateWindow > clock PROVE e \in recent'[p][k]
      BY <1>1, <2>2, <2>3, <3>2
    <3>3. QED
      BY <3>1, <3>2 DEF Mirrored
  <2>6. ASSUME NEW t \in Nat PROVE Cardinality(Span(passed'[k][p], t)) <= Limit
    <3>1. CASE clock \in t .. t + RateWindow - 1
      <4>1. Span(passed'[k][p], t) \subseteq kept \cup {x}
        <5>1. ASSUME NEW e \in passed[k][p], e.at \in t .. t + RateWindow - 1 PROVE e \in kept
          <6>1. e.at + RateWindow > clock
            BY <1>0, <3>1, <5>1
          <6>2. QED
            BY <1>1, <6>1
        <5>2. QED
          BY <2>2, <5>1 DEF Span
      <4>2. /\ IsFiniteSet(Span(passed'[k][p], t))
            /\ Cardinality(Span(passed'[k][p], t)) <= Cardinality(kept) + 1
        BY <1>2, <4>1, AtMostOneMore
      <4>3. QED
        BY <1>0, <1>2, <2>4, <4>2, FS_CardinalityType
    <3>2. CASE clock \notin t .. t + RateWindow - 1
      <4>1. Span(passed'[k][p], t) = Span(passed[k][p], t)
        BY <2>2, <3>2 DEF Span
      <4>2. QED
        BY <4>1 DEF LimiterInv, WithinMemory
    <3>3. QED
      BY <3>1, <3>2
  <2>7. ASSUME NEW l \in R!Kind, NEW q \in Pod PROVE Mirrored(l, q)' /\ WithinMemory(l, q)'
    <3>1. CASE l = k /\ q = p
      BY <2>5, <2>6, <3>1 DEF WithinMemory
    <3>2. CASE l # k \/ q # p
      <4>1. passed'[l][q] = passed[l][q] /\ recent'[q][l] = recent[q][l]
        BY <1>0, <2>2, <2>3, <3>2
      <4>2. QED
        BY <4>1, SameMemory
    <3>3. QED
      BY <3>1, <3>2
  <2>8. \A l \in R!Kind : passed'[l]["redis"] = passed[l]["redis"]
    BY <1>0, <2>2
  <2>9. QED
    BY <2>2, <2>3, <2>7, <2>8
<1>4. CASE ~R!MemoryAllows(p, k)
  <2>1. recent' = [recent EXCEPT ![p][k] = kept] /\ passed' = passed
    BY <1>4 DEF R!memory_is_allowed, kept
  <2>2. /\ recent' \in [Pod -> [R!Kind -> SUBSET R!Entry]]
        /\ recent'[p][k] = kept
        /\ \A l \in R!Kind, q \in Pod :
              l # k \/ q # p => recent'[q][l] = recent[q][l]
    BY <1>0, <1>1, <2>1
  <2>3. ASSUME NEW l \in R!Kind, NEW c \in R!Backend PROVE Numbered(l, c)'
    BY <2>1 DEF LimiterInv, Numbered
  <2>4. ASSUME NEW l \in R!Kind, NEW q \in Pod PROVE Mirrored(l, q)' /\ WithinMemory(l, q)'
    <3>1. CASE l = k /\ q = p
      BY <1>1, <2>1, <2>2, <3>1 DEF LimiterInv, Mirrored, WithinMemory
    <3>2. CASE l # k \/ q # p
      BY <2>1, <2>2, <3>2, SameMemory
    <3>3. QED
      BY <3>1, <3>2
  <2>5. QED
    BY <1>0, <2>1, <2>2, <2>3, <2>4
<1>5. QED
  BY <1>3, <1>4

\* The fixed window of Redis: a pass is counted before it is granted.
LEMMA RedisChecked ==
    ASSUME LimiterInv, NEW k \in R!Kind, R!redis_is_allowed(k),
           clock' = clock, recent' = recent
    PROVE  /\ counted' \in [R!Kind -> [R!Windows -> Nat]]
           /\ passed' \in [R!Kind -> [R!Backend -> SUBSET R!Entry]]
           /\ \A l \in R!Kind, c \in R!Backend : Numbered(l, c)'
           /\ \A l \in R!Kind, q \in Pod : Mirrored(l, q)' /\ WithinMemory(l, q)'
           /\ \A l \in R!Kind : WithinRedis(l)'
<1> DEFINE x == R!NewEntry(k, "redis")
           id == clock \div RateWindow
<1>0. /\ Limit \in Nat /\ id \in R!Windows
      /\ counted \in [R!Kind -> [R!Windows -> Nat]]
      /\ passed \in [R!Kind -> [R!Backend -> SUBSET R!Entry]]
      /\ Pod \subseteq R!Backend /\ "redis" \in R!Backend /\ "redis" \notin Pod
  BY LimiterTypes
<1> HIDE DEF x
<1>1. counted' = [counted EXCEPT ![k][id] = @ + 1]
  BY DEF R!redis_is_allowed, R!window_id
<1>2. /\ counted' \in [R!Kind -> [R!Windows -> Nat]]
      /\ counted'[k][id] = counted[k][id] + 1 /\ counted[k][id] \in Nat
      /\ \A l \in R!Kind, w \in R!Windows :
            l # k \/ w # id => counted'[l][w] = counted[l][w]
  <2> HIDE DEF id
  <2>1. QED
    BY <1>0, <1>1
<1>3. ASSUME NEW l \in R!Kind, l # k, passed'[l]["redis"] = passed[l]["redis"]
      PROVE  WithinRedis(l)'
  <2>1. \A w \in R!Windows : counted'[l][w] = counted[l][w]
    BY <1>2, <1>3
  <2>2. WithinRedis(l)
    BY DEF LimiterInv
  <2>3. QED
    BY <1>3, <2>1, <2>2 DEF WithinRedis, Slot
<1>4. \A w \in R!Windows : /\ counted[k][w] <= counted'[k][w]
                           /\ counted[k][w] \in Nat /\ counted'[k][w] \in Nat
  <2> HIDE DEF id
  <2>1. ASSUME NEW w \in R!Windows PROVE counted[k][w] <= counted'[k][w]
    <3>1. CASE w = id
      BY <1>2, <3>1
    <3>2. CASE w # id
      BY <1>0, <1>2, <3>2
    <3>3. QED
      BY <3>1, <3>2
  <2>2. QED
    BY <1>0, <1>2, <2>1
<1>5. \A w \in Nat : /\ IsFiniteSet(Slot(passed[k]["redis"], w))
                      /\ Cardinality(Slot(passed[k]["redis"], w)) \in Nat
  <2>1. IsFiniteSet(passed[k]["redis"])
    BY <1>0 DEF LimiterInv, Numbered
  <2>2. TAKE w \in Nat
  <2>3. Slot(passed[k]["redis"], w) \subseteq passed[k]["redis"]
    BY DEF Slot
  <2>4. QED
    BY <2>1, <2>3, FS_Subset, FS_CardinalityType
<1>6. WithinRedis(k)
  BY DEF LimiterInv
<1>7. CASE R!RedisAllows(k)
  <2>1. R!Pass(k, "redis")
    BY <1>7 DEF R!redis_is_allowed
  <2>2. /\ x.at = clock
        /\ passed'[k]["redis"] = passed[k]["redis"] \cup {x}
        /\ passed' \in [R!Kind -> [R!Backend -> SUBSET R!Entry]]
        /\ \A l \in R!Kind, c \in R!Backend :
              l # k \/ c # "redis" => passed'[l][c] = passed[l][c]
        /\ \A l \in R!Kind, c \in R!Backend : Numbered(l, c)'
    BY <1>0, <2>1, PassAdds DEF x
  <2>3. ASSUME NEW l \in R!Kind, NEW q \in Pod PROVE Mirrored(l, q)' /\ WithinMemory(l, q)'
    <3>1. passed'[l][q] = passed[l][q]
      BY <1>0, <2>2
    <3>2. QED
      BY <3>1, SameMemory
  <2>4. counted[k][id] + 1 <= Limit
    BY <1>7 DEF R!RedisAllows, R!window_id
  <2>5. ASSUME NEW w \in Nat
        PROVE  /\ Cardinality(Slot(passed'[k]["redis"], w)) <= Limit
               /\ w \in R!Windows =>
                     Cardinality(Slot(passed'[k]["redis"], w)) <= counted'[k][w]
    <3>1. CASE w = id
      <4>1. Slot(passed'[k]["redis"], w) \subseteq Slot(passed[k]["redis"], w) \cup {x}
        BY <2>2 DEF Slot
      <4>2. /\ IsFiniteSet(Slot(passed'[k]["redis"], w))
            /\ Cardinality(Slot(passed'[k]["redis"], w)) <=
                  Cardinality(Slot(passed[k]["redis"], w)) + 1
        BY <1>5, <4>1, AtMostOneMore
      <4>3. /\ Cardinality(Slot(passed'[k]["redis"], w)) \in Nat
            /\ Cardinality(Slot(passed[k]["redis"], w)) \in Nat
        BY <1>5, <4>2, FS_CardinalityType
      <4>4. Cardinality(Slot(passed[k]["redis"], w)) <= counted[k][w]
        BY <1>0, <1>6, <3>1 DEF WithinRedis
      <4> HIDE DEF id
      <4>5. counted'[k][w] = counted[k][w] + 1 /\ counted[k][w] \in Nat
        BY <1>2, <3>1
      <4>6. counted[k][w] + 1 <= Limit
        BY <2>4, <3>1
      <4>7. QED
        BY <1>0, <4>2, <4>3, <4>4, <4>5, <4>6
    <3>2. CASE w # id
      <4>1. Slot(passed'[k]["redis"], w) = Slot(passed[k]["redis"], w)
        BY <2>2, <3>2 DEF Slot, R!window_id
      <4>2. w \in R!Windows => counted'[k][w] = counted[k][w]
        BY <1>2, <3>2
      <4>3. QED
        BY <1>6, <4>1, <4>2 DEF WithinRedis
    <3>3. QED
      BY <3>1, <3>2
  <2>6. ASSUME NEW l \in R!Kind PROVE WithinRedis(l)'
    <3>1. CASE l = k
      BY <2>5, <3>1 DEF WithinRedis
    <3>2. CASE l # k
      BY <1>0, <1>3, <2>2, <3>2
    <3>3. QED
      BY <3>1, <3>2
  <2>7. QED
    BY <1>2, <2>2, <2>3, <2>6
<1>8. CASE ~R!RedisAllows(k)
  <2>1. passed' = passed
    BY <1>8 DEF R!redis_is_allowed
  <2>2. ASSUME NEW l \in R!Kind, NEW c \in R!Backend PROVE Numbered(l, c)'
    BY <2>1 DEF LimiterInv, Numbered
  <2>3. ASSUME NEW l \in R!Kind, NEW q \in Pod PROVE Mirrored(l, q)' /\ WithinMemory(l, q)'
    BY <2>1, SameMemory
  <2>4. ASSUME NEW w \in Nat
        PROVE  /\ Cardinality(Slot(passed'[k]["redis"], w)) <= Limit
               /\ w \in R!Windows =>
                     Cardinality(Slot(passed'[k]["redis"], w)) <= counted'[k][w]
    <3>1. /\ Cardinality(Slot(passed[k]["redis"], w)) <= Limit
          /\ Cardinality(Slot(passed[k]["redis"], w)) \in Nat
          /\ w \in R!Windows => Cardinality(Slot(passed[k]["redis"], w)) <= counted[k][w]
      BY <1>5, <1>6 DEF WithinRedis
    <3>2. w \in R!Windows => Cardinality(Slot(passed[k]["redis"], w)) <= counted'[k][w]
      BY <1>4, <3>1
    <3>3. QED
      BY <2>1, <3>1, <3>2
  <2>5. ASSUME NEW l \in R!Kind PROVE WithinRedis(l)'
    <3>1. CASE l = k
      BY <2>4, <3>1 DEF WithinRedis
    <3>2. CASE l # k
      BY <1>3, <2>1, <3>2
    <3>3. QED
      BY <3>1, <3>2
  <2>6. QED
    BY <1>0, <1>2, <2>1, <2>2, <2>3, <2>5
<1>9. QED
  BY <1>7, <1>8

\* An INCR whose answer is lost makes Redis stricter, never looser.
LEMMA CountLost ==
    ASSUME LimiterInv, NEW k \in R!Kind,
           counted' = counted \/
              counted' = [counted EXCEPT ![k][clock \div RateWindow] = @ + 1],
           \A l \in R!Kind : passed'[l]["redis"] = passed[l]["redis"]
    PROVE  /\ counted' \in [R!Kind -> [R!Windows -> Nat]]
           /\ \A l \in R!Kind : WithinRedis(l)'
<1> DEFINE id == clock \div RateWindow
<1>0. id \in R!Windows /\ counted \in [R!Kind -> [R!Windows -> Nat]] /\ "redis" \in R!Backend
  BY LimiterTypes
<1>1. counted' = counted \/ counted' = [counted EXCEPT ![k][id] = @ + 1]
  OBVIOUS
<1> HIDE DEF id
<1>2. /\ counted' \in [R!Kind -> [R!Windows -> Nat]]
      /\ \A l \in R!Kind, w \in R!Windows :
            counted'[l][w] = counted[l][w] \/ counted'[l][w] = counted[l][w] + 1
  BY <1>0, <1>1
<1>3. ASSUME NEW l \in R!Kind, NEW w \in Nat
      PROVE  /\ Cardinality(Slot(passed'[l]["redis"], w)) <= Limit
             /\ w \in R!Windows =>
                   Cardinality(Slot(passed'[l]["redis"], w)) <= counted'[l][w]
  <2>1. IsFiniteSet(passed[l]["redis"]) /\ WithinRedis(l)
    BY <1>0 DEF LimiterInv, Numbered
  <2>2. Slot(passed[l]["redis"], w) \subseteq passed[l]["redis"]
    BY DEF Slot
  <2>3. Cardinality(Slot(passed[l]["redis"], w)) \in Nat
    BY <2>1, <2>2, FS_Subset, FS_CardinalityType
  <2>4. /\ Cardinality(Slot(passed[l]["redis"], w)) <= Limit
        /\ w \in R!Windows => Cardinality(Slot(passed[l]["redis"], w)) <= counted[l][w]
    BY <2>1 DEF WithinRedis
  <2>5. w \in R!Windows => Cardinality(Slot(passed[l]["redis"], w)) <= counted'[l][w]
    BY <1>0, <1>2, <2>3, <2>4
  <2>6. QED
    BY <2>4, <2>5
<1>4. QED
  BY <1>2, <1>3 DEF WithinRedis

\* What of LimiterInv a check concerns.
Checked ==
    /\ recent \in [Pod -> [R!Kind -> SUBSET R!Entry]]
    /\ counted \in [R!Kind -> [R!Windows -> Nat]]
    /\ passed \in [R!Kind -> [R!Backend -> SUBSET R!Entry]]
    /\ \A k \in R!Kind :
          /\ \A by \in R!Backend : Numbered(k, by)
          /\ \A p \in Pod : Mirrored(k, p) /\ WithinMemory(k, p)
          /\ WithinRedis(k)

LEMMA CheckKeeps ==
    ASSUME LimiterInv, NEW p \in Pod, NEW k \in R!Kind, NEW ok \in BOOLEAN,
           R!_check(p, k, ok), clock' = clock
    PROVE  Checked'
<1>1. CASE R!redis_is_allowed(k) /\ recent' = recent
  <2>1. recent' \in [Pod -> [R!Kind -> SUBSET R!Entry]]
    BY <1>1, LimiterTypes
  <2>2. QED
    BY <1>1, <2>1, RedisChecked DEF Checked
<1>2. CASE /\ R!memory_is_allowed(p, k)
           /\ counted' = counted \/
                 counted' = [counted EXCEPT ![k][clock \div RateWindow] = @ + 1]
  <2>1. /\ recent' \in [Pod -> [R!Kind -> SUBSET R!Entry]]
        /\ passed' \in [R!Kind -> [R!Backend -> SUBSET R!Entry]]
        /\ \A l \in R!Kind, c \in R!Backend : Numbered(l, c)'
        /\ \A l \in R!Kind, q \in Pod : Mirrored(l, q)' /\ WithinMemory(l, q)'
        /\ \A l \in R!Kind : passed'[l]["redis"] = passed[l]["redis"]
    BY <1>2, MemoryChecked
  <2>2. /\ counted' \in [R!Kind -> [R!Windows -> Nat]]
        /\ \A l \in R!Kind : WithinRedis(l)'
    BY <1>2, <2>1, CountLost
  <2>3. QED
    BY <2>1, <2>2 DEF Checked
<1>3. QED
  BY <1>1, <1>2 DEF R!_check, R!window_id

LEMMA LimiterNext == LimiterInv /\ R!Next => LimiterInv'
<1> SUFFICES ASSUME LimiterInv, R!Next PROVE LimiterInv'
  OBVIOUS
<1>0. /\ clock \in 0 .. MaxClock /\ MaxClock \in Nat
      /\ came \in 0 .. MaxRequests /\ MaxRequests \in Nat
      /\ keyed \in [Pod -> 0 .. MaxRequests] /\ \A p \in Pod : keyed[p] <= came
      /\ RateWindow \in Nat \ {0}
      /\ Checked
  BY ServicesAssumption DEF LimiterInv, R!TypeOK, Checked
<1>1. CASE R!Tick
  <2>1. /\ clock' = clock + 1 /\ clock' \in 0 .. MaxClock /\ recent' = recent
        /\ counted' = counted /\ came' = came /\ keyed' = keyed /\ passed' = passed
    BY <1>0, <1>1 DEF R!Tick
  <2>2. ASSUME NEW k \in R!Kind, NEW by \in R!Backend PROVE Numbered(k, by)'
    <3>1. \A e \in passed[k][by] : e.at \in Nat
      BY DEF LimiterInv, R!TypeOK, R!Entry
    <3>2. Numbered(k, by)
      BY DEF LimiterInv
    <3>3. QED
      BY <1>0, <2>1, <3>1, <3>2 DEF Numbered
  <2>3. ASSUME NEW k \in R!Kind, NEW p \in Pod PROVE Mirrored(k, p)' /\ WithinMemory(k, p)'
    <3>1. \A e \in passed[k][p] : e.at \in Nat
      BY LimiterTypes DEF R!Entry
    <3>2. Mirrored(k, p) /\ WithinMemory(k, p)
      BY DEF LimiterInv
    <3>3. Mirrored(k, p)'
      BY <1>0, <2>1, <3>1, <3>2 DEF Mirrored
    <3>4. QED
      BY <2>1, <3>2, <3>3 DEF WithinMemory, Span
  <2>4. ASSUME NEW k \in R!Kind PROVE WithinRedis(k)'
    BY <2>1 DEF LimiterInv, WithinRedis, Slot
  <2>5. R!TypeOK'
    BY <2>1 DEF LimiterInv, R!TypeOK
  <2>6. QED
    BY <1>0, <2>1, <2>2, <2>3, <2>4, <2>5 DEF LimiterInv
<1>2. ASSUME NEW p \in Pod, NEW hasKey \in BOOLEAN, R!CheckAddress(p, hasKey)
      PROVE  LimiterInv'
  <2>1. /\ came < MaxRequests /\ came' = came + 1 /\ clock' = clock
        /\ \E ok \in BOOLEAN : R!_check(p, "ip", ok)
        /\ keyed' = keyed \/ keyed' = [keyed EXCEPT ![p] = @ + 1]
    BY <1>2 DEF R!CheckAddress
  <2>2. Checked'
    <3>1. "ip" \in R!Kind
      BY DEF R!Kind
    <3>2. QED
      BY <2>1, <3>1, CheckKeeps
  <2>3. /\ came' \in 0 .. MaxRequests /\ keyed' \in [Pod -> 0 .. MaxRequests]
        /\ \A q \in Pod : keyed'[q] <= came'
    <3>1. \A q \in Pod : keyed[q] \in Nat
      BY <1>0
    <3>2. \A q \in Pod : keyed'[q] = keyed[q] \/ keyed'[q] = keyed[q] + 1
      BY <1>0, <2>1, <3>1
    <3>3. \A q \in Pod : keyed'[q] \in 0 .. MaxRequests /\ keyed'[q] <= came'
      BY <1>0, <2>1, <3>1, <3>2
    <3>4. QED
      BY <1>0, <2>1, <3>3
  <2>4. QED
    BY <1>0, <2>1, <2>2, <2>3 DEF LimiterInv, R!TypeOK, Checked
<1>3. ASSUME NEW p \in Pod, R!CheckKey(p) PROVE LimiterInv'
  <2>1. /\ keyed[p] > 0 /\ keyed' = [keyed EXCEPT ![p] = @ - 1]
        /\ came' = came /\ clock' = clock
        /\ \E ok \in BOOLEAN : R!_check(p, "key", ok)
    BY <1>3 DEF R!CheckKey
  <2>2. Checked'
    <3>1. "key" \in R!Kind
      BY DEF R!Kind
    <3>2. QED
      BY <2>1, <3>1, CheckKeeps
  <2>3. /\ keyed' \in [Pod -> 0 .. MaxRequests] /\ \A q \in Pod : keyed'[q] <= came'
    <3>1. keyed[p] \in Nat /\ keyed[p] - 1 \in 0 .. MaxRequests /\ keyed[p] - 1 <= came
      BY <1>0, <2>1
    <3>2. keyed'[p] = keyed[p] - 1 /\ \A q \in Pod : q # p => keyed'[q] = keyed[q]
      BY <1>0, <2>1
    <3>3. keyed' \in [Pod -> 0 .. MaxRequests]
      BY <1>0, <2>1, <3>1
    <3>4. QED
      BY <1>0, <2>1, <3>1, <3>2, <3>3
  <2>4. QED
    BY <1>0, <2>1, <2>2, <2>3 DEF LimiterInv, R!TypeOK, Checked
<1>4. ASSUME NEW p \in Pod, R!cleanup(p) PROVE LimiterInv'
  <2>1. /\ clock' = clock /\ counted' = counted /\ came' = came
        /\ keyed' = keyed /\ passed' = passed
        /\ recent' = [recent EXCEPT ![p] =
              [k \in R!Kind |-> IF R!Stale(recent[p][k]) THEN {} ELSE recent[p][k]]]
    BY <1>0, <1>4 DEF R!cleanup, Checked
  <2>2. /\ recent' \in [Pod -> [R!Kind -> SUBSET R!Entry]]
        /\ \A k \in R!Kind, q \in Pod :
              \/ recent'[q][k] = recent[q][k]
              \/ q = p /\ R!Stale(recent[q][k]) /\ recent'[q][k] = {}
    BY <1>0, <2>1 DEF Checked
  <2>3. ASSUME NEW k \in R!Kind, NEW q \in Pod PROVE Mirrored(k, q)' /\ WithinMemory(k, q)'
    <3>1. CASE recent'[q][k] = recent[q][k]
      BY <2>1, <3>1, SameMemory
    <3>2. CASE R!Stale(recent[q][k]) /\ recent'[q][k] = {}
      <4>1. \A e \in recent[q][k] : ~(e.at + RateWindow > clock)
        BY <3>2 DEF R!Stale, R!InWindow
      <4>2. Mirrored(k, q) /\ WithinMemory(k, q)
        BY DEF LimiterInv
      <4>3. Mirrored(k, q)'
        BY <2>1, <3>2, <4>1, <4>2 DEF Mirrored
      <4>4. QED
        BY <2>1, <4>2, <4>3 DEF WithinMemory, Span
    <3>3. QED
      BY <2>2, <3>1, <3>2
  <2>4. ASSUME NEW k \in R!Kind PROVE WithinRedis(k)'
    BY <2>1 DEF LimiterInv, WithinRedis, Slot
  <2>5. ASSUME NEW k \in R!Kind, NEW by \in R!Backend PROVE Numbered(k, by)'
    BY <2>1 DEF LimiterInv, Numbered
  <2>6. R!TypeOK'
    BY <2>1, <2>2 DEF LimiterInv, R!TypeOK
  <2>7. QED
    BY <1>0, <2>1, <2>3, <2>4, <2>5, <2>6 DEF LimiterInv
<1>5. QED
  BY <1>1, <1>2, <1>3, <1>4 DEF R!Next

\* A span of one window's length meets at most two fixed windows, and only one
\* when it starts with it.
LEMMA WindowsOfSpan ==
    ASSUME NEW W \in Nat \ {0}, NEW a \in Nat, NEW b \in Nat, a <= b, b < a + W
    PROVE  /\ b \div W <= a \div W + 1
           /\ a % W = 0 => b \div W = a \div W
<1>1. b \div W <= a \div W + 1
  OBVIOUS
<1>2. ASSUME a % W = 0 PROVE b \div W = a \div W
  BY <1>2
<1>3. QED
  BY <1>1, <1>2

LEMMA LimiterBounds == LimiterInv => RateBounded
<1> SUFFICES ASSUME LimiterInv, NEW k \in R!Kind, NEW t \in 0 .. MaxClock
             PROVE  /\ \A p \in Pod : R!Passes(k, p, t) <= Limit
                    /\ R!Passes(k, "redis", t) <= 2 * Limit
                    /\ t % RateWindow = 0 => R!Passes(k, "redis", t) <= Limit
  BY DEF RateBounded, R!RateBounded
<1>0. /\ t \in Nat /\ RateWindow \in Nat \ {0} /\ Limit \in Nat /\ "redis" \in R!Backend
      /\ passed \in [R!Kind -> [R!Backend -> SUBSET R!Entry]]
  BY LimiterTypes
<1>1. \A by : R!Passes(k, by, t) = Cardinality(Span(passed[k][by], t))
  BY SameCardinality DEF R!Passes, Span
<1>2. \A p \in Pod : R!Passes(k, p, t) <= Limit
  BY <1>0, <1>1 DEF LimiterInv, WithinMemory
<1> DEFINE E == passed[k]["redis"]
           id == t \div RateWindow
<1>3. /\ IsFiniteSet(E) /\ E \subseteq R!Entry /\ id \in Nat /\ id + 1 \in Nat
      /\ WithinRedis(k)
  BY <1>0 DEF LimiterInv, Numbered
<1>4. \A w \in Nat : /\ IsFiniteSet(Slot(E, w)) /\ Cardinality(Slot(E, w)) \in Nat
                      /\ Cardinality(Slot(E, w)) <= Limit
  <2> TAKE w \in Nat
  <2>1. Slot(E, w) \subseteq E
    BY DEF Slot
  <2>2. QED
    BY <1>3, <2>1, FS_Subset, FS_CardinalityType DEF WithinRedis
<1>5. ASSUME NEW e \in Span(E, t)
      PROVE  /\ e \in Slot(E, id) \cup Slot(E, id + 1)
             /\ t % RateWindow = 0 => e \in Slot(E, id)
  <2>1. e \in E /\ e.at \in Nat /\ t <= e.at /\ e.at < t + RateWindow
    BY <1>0, <1>3 DEF Span, R!Entry
  <2>2. e.at \div RateWindow \in Nat /\ id <= e.at \div RateWindow
    BY <1>0, <2>1
  <2>3. e.at \div RateWindow <= id + 1
    BY <1>0, <2>1, WindowsOfSpan
  <2>4. t % RateWindow = 0 => e.at \div RateWindow = id
    BY <1>0, <2>1, WindowsOfSpan
  <2> HIDE DEF id
  <2>5. e.at \div RateWindow = id \/ e.at \div RateWindow = id + 1
    BY <1>3, <2>2, <2>3
  <2>6. QED
    BY <2>1, <2>4, <2>5 DEF Slot, R!window_id
<1> HIDE DEF E, id
<1>6. t % RateWindow = 0 => Cardinality(Span(E, t)) <= Limit
  <2> SUFFICES ASSUME t % RateWindow = 0 PROVE Cardinality(Span(E, t)) <= Limit
    OBVIOUS
  <2>1. Span(E, t) \subseteq Slot(E, id)
    BY <1>5
  <2>2. Cardinality(Span(E, t)) <= Cardinality(Slot(E, id)) /\ IsFiniteSet(Span(E, t))
    BY <1>3, <1>4, <2>1, FS_Subset
  <2>3. QED
    BY <1>0, <1>3, <1>4, <2>2, FS_CardinalityType
<1>7. Cardinality(Span(E, t)) <= 2 * Limit
  <2> DEFINE U == Slot(E, id) \cup Slot(E, id + 1)
             I == Slot(E, id) \cap Slot(E, id + 1)
  <2>1. Span(E, t) \subseteq U
    BY <1>5
  <2>2. /\ IsFiniteSet(U) /\ IsFiniteSet(I)
        /\ Cardinality(U) = Cardinality(Slot(E, id)) + Cardinality(Slot(E, id + 1))
              - Cardinality(I)
    BY <1>3, <1>4, FS_Union, FS_Intersection
  <2>3. Cardinality(Span(E, t)) <= Cardinality(U) /\ IsFiniteSet(Span(E, t))
    BY <2>1, <2>2, FS_Subset
  <2>4. /\ Cardinality(U) \in Nat /\ Cardinality(I) \in Nat
        /\ Cardinality(Span(E, t)) \in Nat
    BY <2>2, <2>3, FS_CardinalityType
  <2> HIDE DEF U, I
  <2>5. QED
    BY <1>0, <1>3, <1>4, <2>2, <2>3, <2>4
<1>8. QED
  BY <1>1, <1>2, <1>6, <1>7 DEF E

(***************************************************************************)
(* A call of a remote detector.  Until something overruns, the coroutine   *)
(* starts within the grace, so that its budget ends before the caller's    *)
(* wait does, and what it starts, an attempt or a sleep, ends within that  *)
(* budget: the caller never finds its wait over before there is a verdict. *)
(***************************************************************************)
OnTime ==
    remote.total # 0 /\ ~overrun =>
      /\ verdict # "raised"
      /\ phase = "queued" => elapsed < Grace
      /\ phase \in {"resolving", "ready"} => elapsed < D!wait
      /\ phase \in {"resolving", "ready", "sent", "backoff"} => deadline < D!wait
      /\ phase \in {"sent", "backoff"} => elapsed <= until /\ until <= deadline

RemoteInv == D!TypeOK /\ (phase = "done" => verdict # "none") /\ OnTime

LEMMA PowerOfTwo ==
    ASSUME NEW n \in Nat
    PROVE  2 ^ n \in Nat
<1>1. IsFiniteSet(1 .. n) /\ Cardinality(1 .. n) = n
  BY FS_Interval
<1>2. IsFiniteSet(SUBSET (1 .. n)) /\ Cardinality(SUBSET (1 .. n)) = 2 ^ n
  BY <1>1, FS_SUBSET
<1>3. QED
  BY <1>2, FS_CardinalityType

\* What is started has no more time than the budget has left.
LEMMA CutIs ==
    ASSUME RemoteInv, NEW t \in Nat, ~D!OutOfTime
    PROVE  /\ D!Cut(t) \in Nat
           /\ remote.total # 0 => elapsed + D!Cut(t) <= deadline
<1>1. /\ remote.total \in Nat /\ elapsed \in Nat /\ deadline \in Nat
  BY DEF RemoteInv, D!TypeOK, D!RemoteConfig
<1>2. CASE remote.total = 0
  BY <1>1, <1>2 DEF D!Cut
<1>3. CASE remote.total # 0
  BY <1>1, <1>3 DEF D!Cut, D!OutOfTime
<1>4. QED
  BY <1>2, <1>3

LEMMA RemoteInit == D!Init => RemoteInv
<1> SUFFICES ASSUME D!Init PROVE RemoteInv
  OBVIOUS
<1>1. /\ remote \in RemoteConfigs /\ phase = "queued" /\ attempt = 0 /\ elapsed = 0
      /\ deadline = 0 /\ until = 0 /\ overrun = FALSE /\ verdict = "none"
  BY Zenon DEF D!Init
<1>2. remote \in D!RemoteConfig
  BY <1>1, ServicesAssumption, Zenon DEF D!RemoteConfig
<1>3. attempt \in 0 .. MaxRetries /\ 0 < Grace
  BY <1>1, ServicesAssumption
<1>4. D!TypeOK
  BY <1>1, <1>2, <1>3 DEF D!TypeOK
<1>5. OnTime
  BY <1>1, <1>3 DEF OnTime
<1>6. QED
  BY <1>1, <1>4, <1>5 DEF RemoteInv

\* An end of the call keeps the invariant, whatever the verdict.
LEMMA RemoteEnd ==
    ASSUME RemoteInv, NEW v \in {"remote", "ALLOW", "BLOCK"}, D!End(v),
           remote' = remote, attempt' = attempt, elapsed' = elapsed,
           deadline' \in Nat, until' = until, overrun' = overrun
    PROVE  RemoteInv'
<1>1. phase' = "done" /\ verdict' = IF verdict = "raised" THEN verdict ELSE v
  BY DEF D!End
<1>2. D!TypeOK'
  BY <1>1 DEF RemoteInv, D!TypeOK
<1>3. verdict' # "none" /\ (verdict # "raised" => verdict' # "raised")
  BY <1>1
<1>4. OnTime'
  BY <1>1, <1>3 DEF RemoteInv, OnTime
<1>5. QED
  BY <1>2, <1>3, <1>4 DEF RemoteInv

LEMMA RemoteNext == RemoteInv /\ D!Next => RemoteInv'
<1> SUFFICES ASSUME RemoteInv, D!Next PROVE RemoteInv'
  OBVIOUS
<1>0. /\ Timeout \in Nat /\ Grace \in Nat /\ Backoff \in Nat /\ MaxRetries \in Nat
      /\ MaxElapsed \in Nat
      /\ D!TypeOK /\ (phase = "done" => verdict # "none") /\ OnTime
      /\ remote \in D!RemoteConfig /\ remote.total \in Nat
      /\ elapsed \in Nat /\ deadline \in Nat /\ until \in Nat /\ attempt \in 0 .. MaxRetries
  BY ServicesAssumption DEF RemoteInv, D!TypeOK, D!RemoteConfig
<1>f. D!_fail_result \in {"remote", "ALLOW", "BLOCK"}
  BY DEF D!_fail_result
<1>w. D!wait \in Nat /\ Grace <= D!wait /\ (remote.total # 0 => D!wait = Grace + remote.total)
  BY <1>0 DEF D!wait
<1>1. CASE D!Begin
  <2>1. /\ phase = "queued" /\ deadline' = elapsed + remote.total
        /\ UNCHANGED <<remote, attempt, elapsed, until, overrun>>
    BY <1>1 DEF D!Begin
  <2>2. CASE D!End("ALLOW")
    BY <1>0, <2>1, <2>2, RemoteEnd
  <2>3. CASE phase' = "resolving" /\ verdict' = verdict
    <3>1. D!TypeOK'
      BY <1>0, <2>1, <2>3 DEF D!TypeOK
    <3>2. D!wait' = D!wait
      BY <2>1 DEF D!wait
    <3>3. ASSUME remote.total # 0, ~overrun
          PROVE  elapsed < Grace /\ verdict # "raised" /\ elapsed < D!wait
                 /\ elapsed + remote.total < D!wait
      BY <1>0, <1>w, <2>1, <3>3 DEF OnTime
    <3>4. OnTime'
      BY <2>1, <2>3, <3>2, <3>3 DEF OnTime
    <3>5. QED
      BY <2>3, <3>1, <3>4 DEF RemoteInv
  <2>4. QED
    BY <1>1, <2>2, <2>3 DEF D!Begin
<1>2. CASE D!Resolved
  <2>1. /\ phase = "resolving"
        /\ UNCHANGED <<remote, attempt, elapsed, deadline, until, overrun>>
    BY <1>2 DEF D!Resolved
  <2>2. CASE D!End(D!_fail_result)
    BY <1>0, <1>f, <2>1, <2>2, RemoteEnd
  <2>3. CASE phase' = "ready" /\ verdict' = verdict
    <3>1. D!TypeOK'
      BY <1>0, <2>1, <2>3 DEF D!TypeOK
    <3>2. D!wait' = D!wait
      BY <2>1 DEF D!wait
    <3>3. OnTime'
      BY <1>0, <2>1, <2>3, <3>2 DEF OnTime
    <3>4. QED
      BY <2>3, <3>1, <3>3 DEF RemoteInv
  <2>4. QED
    BY <1>2, <2>2, <2>3 DEF D!Resolved
<1>3. CASE D!Send
  <2>1. /\ phase = "ready"
        /\ UNCHANGED <<remote, attempt, elapsed, deadline, overrun>>
    BY <1>3 DEF D!Send
  <2>2. CASE D!End(D!_fail_result) /\ until' = until
    BY <1>0, <1>f, <2>1, <2>2, RemoteEnd
  <2>3. CASE /\ ~D!OutOfTime /\ phase' = "sent"
             /\ until' = elapsed + D!Cut(Timeout) /\ verdict' = verdict
    <3>1. /\ D!Cut(Timeout) \in Nat
          /\ remote.total # 0 => elapsed + D!Cut(Timeout) <= deadline
      BY <1>0, <2>3, CutIs
    <3>2. until' \in Nat /\ elapsed <= until' /\ (remote.total # 0 => until' <= deadline)
      BY <1>0, <2>3, <3>1
    <3>3. D!TypeOK'
      BY <1>0, <2>1, <2>3, <3>2 DEF D!TypeOK
    <3>4. D!wait' = D!wait
      BY <2>1 DEF D!wait
    <3>5. OnTime'
      BY <1>0, <2>1, <2>3, <3>2, <3>4 DEF OnTime
    <3>6. QED
      BY <2>3, <3>3, <3>5 DEF RemoteInv
  <2>4. QED
    BY <1>3, <2>2, <2>3 DEF D!Send
<1>4. CASE D!Answered
  BY <1>0, <1>4, RemoteEnd DEF D!Answered
<1>5. CASE D!AttemptFails
  <2>1. phase = "sent" /\ UNCHANGED <<remote, elapsed, deadline, overrun>>
    BY <1>5 DEF D!AttemptFails
  <2>2. CASE D!End(D!_fail_result) /\ UNCHANGED <<attempt, until>>
    BY <1>0, <1>f, <2>1, <2>2, RemoteEnd
  <2>3. CASE /\ attempt < MaxRetries /\ ~D!OutOfTime
             /\ phase' = "backoff" /\ attempt' = attempt + 1
             /\ until' = elapsed + D!Cut(Backoff * 2 ^ attempt) /\ verdict' = verdict
    <3> DEFINE t == Backoff * 2 ^ attempt
    <3>1. t \in Nat
      BY <1>0, PowerOfTwo
    <3> HIDE DEF t
    <3>2. /\ D!Cut(t) \in Nat
          /\ remote.total # 0 => elapsed + D!Cut(t) <= deadline
      BY <2>3, <3>1, CutIs
    <3>3. until' = elapsed + D!Cut(t)
      BY <2>3 DEF t
    <3>4. until' \in Nat /\ elapsed <= until' /\ (remote.total # 0 => until' <= deadline)
      BY <1>0, <3>2, <3>3
    <3>5. attempt' \in 0 .. MaxRetries
      BY <1>0, <2>3
    <3>6. D!TypeOK'
      BY <1>0, <2>1, <2>3, <3>4, <3>5 DEF D!TypeOK
    <3>7. D!wait' = D!wait
      BY <2>1 DEF D!wait
    <3>8. phase' = "backoff" /\ verdict' = verdict
      BY <2>3
    <3>9. OnTime'
      BY <1>0, <2>1, <3>4, <3>7, <3>8 DEF OnTime
    <3>10. QED
      BY <3>6, <3>8, <3>9 DEF RemoteInv
  <2>4. QED
    BY <1>5, <2>2, <2>3 DEF D!AttemptFails
<1>6. CASE D!BackoffEnds
  <2>1. /\ phase = "backoff" /\ phase' = "ready"
        /\ UNCHANGED <<remote, attempt, elapsed, deadline, until, overrun, verdict>>
    BY <1>6 DEF D!BackoffEnds
  <2>2. D!TypeOK'
    BY <1>0, <2>1 DEF D!TypeOK
  <2>3. D!wait' = D!wait
    BY <2>1 DEF D!wait
  <2>4. OnTime'
    BY <1>0, <1>w, <2>1, <2>3 DEF OnTime
  <2>5. QED
    BY <2>1, <2>2, <2>4 DEF RemoteInv
<1>7. CASE D!SyncWaitExpires
  <2>1. /\ verdict = "none" /\ elapsed >= D!wait /\ verdict' = "raised"
        /\ UNCHANGED <<remote, phase, attempt, elapsed, deadline, until, overrun>>
    BY <1>7 DEF D!SyncWaitExpires
  <2>2. D!TypeOK'
    BY <1>0, <2>1 DEF D!TypeOK
  <2>3. remote.total = 0 \/ overrun
    <3>1. SUFFICES ASSUME remote.total # 0, ~overrun PROVE FALSE
      OBVIOUS
    <3>2. phase \in {"queued", "resolving", "ready", "sent", "backoff"}
      BY <1>0, <2>1 DEF D!TypeOK
    <3>3. elapsed < D!wait
      BY <1>0, <1>w, <3>1, <3>2 DEF OnTime
    <3>4. QED
      BY <1>0, <1>w, <2>1, <3>3
  <2>4. OnTime'
    BY <2>1, <2>3 DEF OnTime
  <2>5. QED
    BY <2>1, <2>2, <2>4 DEF RemoteInv
<1>8. CASE D!Tick
  <2>1. /\ phase \in {"queued", "resolving", "sent", "backoff"}
        /\ elapsed' = elapsed + 1
        /\ UNCHANGED <<remote, phase, attempt, deadline, until, verdict>>
    BY <1>8 DEF D!Tick
  <2>2. overrun' \in BOOLEAN
    BY <1>8 DEF D!Tick
  <2>3. ~overrun' => /\ ~overrun
                     /\ phase = "queued" => elapsed' < Grace
                     /\ phase = "resolving" => elapsed' < D!wait
                     /\ phase \in {"sent", "backoff"} => elapsed < until
    BY <1>0, <1>8, <1>w, <2>1 DEF D!Tick
  <2>4. D!TypeOK'
    BY <1>0, <2>1, <2>2 DEF D!TypeOK
  <2>5. D!wait' = D!wait
    BY <2>1 DEF D!wait
  <2>6. OnTime'
    BY <1>0, <1>w, <2>1, <2>3, <2>5 DEF OnTime
  <2>7. QED
    BY <1>0, <2>1, <2>4, <2>6 DEF RemoteInv
<1>9. QED
  BY <1>1, <1>2, <1>3, <1>4, <1>5, <1>6, <1>7, <1>8 DEF D!Next

(***************************************************************************)
(* The detectors that remember, each against the log of its session: c is  *)
(* the log, t the time.                                                    *)
(***************************************************************************)
Logged == [text : Text, time : Nat, hits : SUBSET T!Rule]
Usage == [tokens : Nat, first : Nat, states : Seq(Text \X Nat), on : BOOLEAN]

Timely(c, t) ==
    \A i \in 1 .. Len(c) : c[i].time <= t /\ \A j \in i .. Len(c) : c[i].time <= c[j].time

\* The last k calls are of one state, and of the present window.
Run(c, first, k) ==
    \A i \in Len(c) - k + 1 .. Len(c) : c[i].text = c[Len(c)].text /\ c[i].time >= first

Distinct(states) ==
    \A i, j \in 1 .. Len(states) : states[i][1] = states[j][1] => i = j

\* The newest entry of the table is the state of the last call; it counts every
\* run that ends there, and the call was told.  A session older than its window
\* has no call in the present.
LoopOK(c, u, t) ==
    /\ Distinct(u.states)
    /\ ~u.on => \A i \in 1 .. Len(c) : c[i].time < t
    /\ u.on =>
        /\ Len(c) > 0 /\ Len(u.states) > 0
        /\ \A i \in 1 .. Len(c) : c[i].time <= u.first + Window
        /\ LET m == u.states[Len(u.states)]
           IN  /\ m[1] = c[Len(c)].text
               /\ "loop" \in c[Len(c)].hits <=> m[2] >= RepeatAt
               /\ \A k \in 1 .. Len(c) : Run(c, u.first, k) => m[2] >= k

\* The deque holds the last calls; what it lacks of the last FloodMemory ones is
\* out of the window.
FloodOK(c, d, t) ==
    /\ Len(d) <= Len(c) /\ Len(d) <= FloodMemory
    /\ \A i \in 1 .. Len(d) :
          d[i][1] = c[Len(c) - Len(d) + i].text /\ d[i][2] = c[Len(c) - Len(d) + i].time
    /\ \A i \in 1 .. Len(c) :
          i <= Len(c) - Len(d) /\ i > Len(c) - FloodMemory => c[i].time + Window < t

\* The copies that count against call j.
Copies(c, j) ==
    {i \in 1 .. Len(c) : /\ i < j /\ i >= j - FloodMemory /\ c[i].text = c[j].text
                         /\ c[j].time - c[i].time <= Window}

FloodTold(c) ==
    \A j \in 1 .. Len(c) : "flood" \in c[j].hits <=> Cardinality(Copies(c, j)) >= FloodAt

\* A bucket's debt: calls let through since from, and the tokens it still has.
Let(c, from, to) ==
    {i \in 1 .. Len(c) : "rate" \notin c[i].hits /\ c[i].time \in from .. to}

BucketOK(c, b, t) ==
    /\ b.last <= t /\ b.tokens <= Rate * Window
    /\ \A i \in 1 .. Len(c) : c[i].time <= b.last
    /\ \A from \in Nat : from <= b.last =>
          Cardinality(Let(c, from, b.last)) + b.tokens <= Rate * Window + Rate * (b.last - from)
    /\ \A from, to \in Nat : from <= to =>
          Cardinality(Let(c, from, to)) <= Rate * Window + Rate * (to - from)

SessionTypes ==
    /\ now \in Nat
    /\ bucket \in [Session -> [tokens : Nat, last : Nat]]
    /\ prompts \in [Session -> Seq(Text \X Nat)]
    /\ usage \in [Session -> Usage]
    /\ log \in [Session -> Seq(Logged)]

SessionOK(s) ==
    /\ Timely(log[s], now)
    /\ LoopOK(log[s], usage[s], now)
    /\ FloodOK(log[s], prompts[s], now) /\ FloodTold(log[s])
    /\ BucketOK(log[s], bucket[s], now)

SessionInv == SessionTypes /\ \A s \in Session : SessionOK(s)

-----------------------------------------------------------------------------
\* A log that grows by one call.
LEMMA Grown ==
    ASSUME NEW c \in Seq(Logged), NEW e \in Logged
    PROVE  /\ Append(c, e) \in Seq(Logged) /\ Len(Append(c, e)) = Len(c) + 1
           /\ Len(c) \in Nat
           /\ Append(c, e)[Len(c) + 1] = e
           /\ \A i \in 1 .. Len(c) : Append(c, e)[i] = c[i] /\ c[i] \in Logged
  OBVIOUS

LEMMA TimelyStep ==
    ASSUME NEW c \in Seq(Logged), NEW e \in Logged, NEW t \in Nat, Timely(c, t), e.time = t
    PROVE  Timely(Append(c, e), t)
<1>1. /\ Len(Append(c, e)) = Len(c) + 1 /\ Len(c) \in Nat
      /\ Append(c, e)[Len(c) + 1] = e
      /\ \A i \in 1 .. Len(c) : Append(c, e)[i] = c[i] /\ c[i].time \in Nat
  BY Grown DEF Logged
<1> DEFINE d == Append(c, e)
<1>2. ASSUME NEW i \in 1 .. Len(d)
      PROVE  d[i].time <= t /\ \A j \in i .. Len(d) : d[i].time <= d[j].time
  <2>0. i \in 1 .. Len(c) + 1
    BY <1>1, <1>2
  <2> HIDE DEF d
  <2>1. \A j \in 1 .. Len(c) : d[j] = c[j] /\ d[j].time \in Nat /\ d[j].time <= t
    BY <1>1 DEF Timely, d
  <2>2. d[Len(c) + 1].time = t /\ Len(d) = Len(c) + 1
    BY <1>1 DEF d
  <2>3. d[i].time <= t
    <3>1. CASE i = Len(c) + 1
      BY <2>2, <3>1
    <3>2. CASE i \in 1 .. Len(c)
      BY <2>1, <3>2
    <3>3. QED
      BY <1>1, <2>0, <3>1, <3>2
  <2>4. ASSUME NEW j \in i .. Len(d) PROVE d[i].time <= d[j].time
    <3>1. CASE j = Len(c) + 1
      BY <2>2, <2>3, <3>1
    <3>2. CASE j \in 1 .. Len(c)
      <4>1. i \in 1 .. Len(c) /\ j \in i .. Len(c)
        BY <1>1, <2>0, <2>4, <3>2
      <4>2. QED
        BY <2>1, <4>1 DEF Timely
    <3>3. QED
      BY <1>1, <2>0, <2>2, <2>4, <3>1, <3>2
  <2>5. QED
    BY <2>3, <2>4
<1>3. QED
  BY <1>2 DEF Timely

-----------------------------------------------------------------------------
\* Taking one element out of a sequence.
LEMMA RemovedAt ==
    ASSUME NEW X, NEW q \in Seq(X), NEW n \in 1 .. Len(q)
    PROVE  /\ T!RemoveAt(q, n) \in Seq(X)
           /\ Len(T!RemoveAt(q, n)) = Len(q) - 1
           /\ \A i \in 1 .. Len(q) - 1 :
                 T!RemoveAt(q, n)[i] = q[IF i < n THEN i ELSE i + 1]
<1> DEFINE a == SubSeq(q, 1, n - 1)
           b == SubSeq(q, n + 1, Len(q))
<1>1. /\ a \in Seq(X) /\ Len(a) = n - 1
      /\ \A i \in 1 .. n - 1 : a[i] = q[i]
  OBVIOUS
<1>2. /\ b \in Seq(X) /\ Len(b) = Len(q) - n
      /\ \A i \in 1 .. Len(q) - n : b[i] = q[i + n]
  OBVIOUS
<1>3. T!RemoveAt(q, n) = a \o b
  BY DEF T!RemoveAt
<1> HIDE DEF a, b
<1>4. /\ a \o b \in Seq(X) /\ Len(a \o b) = Len(a) + Len(b)
      /\ \A i \in 1 .. Len(a) + Len(b) :
            (a \o b)[i] = IF i <= Len(a) THEN a[i] ELSE b[i - Len(a)]
  <2>1. a \in Seq(X) /\ b \in Seq(X)
    BY <1>1, <1>2
  <2>2. QED
    BY <2>1
<1>5. Len(q) \in Nat /\ Len(a) + Len(b) = Len(q) - 1
  BY <1>1, <1>2
<1>6. ASSUME NEW i \in 1 .. Len(q) - 1
      PROVE  (a \o b)[i] = q[IF i < n THEN i ELSE i + 1]
  <2>1. CASE i < n
    BY <1>1, <1>4, <1>5, <2>1
  <2>2. CASE ~(i < n)
    <3>1. i - (n - 1) \in 1 .. Len(q) - n /\ (i - (n - 1)) + n = i + 1
      BY <1>5, <2>2
    <3>2. (a \o b)[i] = b[i - (n - 1)]
      BY <1>1, <1>4, <1>5, <2>2
    <3>3. QED
      BY <1>2, <2>2, <3>1, <3>2
  <2>3. QED
    BY <2>1, <2>2
<1>7. QED
  BY <1>3, <1>4, <1>5, <1>6

LEMMA AppendedDistinct ==
    ASSUME NEW q \in Seq(Text \X Nat), Distinct(q), NEW e \in Text \X Nat,
           \A i \in 1 .. Len(q) : q[i][1] # e[1]
    PROVE  /\ Append(q, e) \in Seq(Text \X Nat) /\ Distinct(Append(q, e))
           /\ Len(Append(q, e)) > 0 /\ Append(q, e)[Len(Append(q, e))] = e
<1> DEFINE r == Append(q, e)
<1>1. /\ r \in Seq(Text \X Nat) /\ Len(r) = Len(q) + 1 /\ Len(q) \in Nat
      /\ r[Len(q) + 1] = e /\ \A i \in 1 .. Len(q) : r[i] = q[i]
  OBVIOUS
<1> HIDE DEF r
<1>2. ASSUME NEW i \in 1 .. Len(r), NEW j \in 1 .. Len(r), r[i][1] = r[j][1] PROVE i = j
  <2>1. CASE i = Len(q) + 1 /\ j = Len(q) + 1
    BY <2>1
  <2>2. CASE i = Len(q) + 1 /\ j \in 1 .. Len(q)
    BY <1>1, <1>2, <2>2
  <2>3. CASE i \in 1 .. Len(q) /\ j = Len(q) + 1
    BY <1>1, <1>2, <2>3
  <2>4. CASE i \in 1 .. Len(q) /\ j \in 1 .. Len(q)
    BY <1>1, <1>2, <2>4 DEF Distinct
  <2>5. QED
    BY <1>1, <2>1, <2>2, <2>3, <2>4
<1>3. Distinct(r)
  BY <1>2 DEF Distinct
<1>4. QED
  BY <1>1, <1>3 DEF r

\* The table of states: the state of the call comes last, with its count.
LEMMA CountedLast ==
    ASSUME NEW states \in Seq(Text \X Nat), Distinct(states), NEW x \in Text
    PROVE  LET new == T!Counted(states, x) IN
           /\ new \in Seq(Text \X Nat) /\ Distinct(new) /\ Len(new) > 0
           /\ T!Seen(states, x) \in Nat /\ T!Seen(states, x) >= 1
           /\ new[Len(new)] = <<x, T!Seen(states, x)>>
           /\ \A n \in 1 .. Len(states) :
                 states[n][1] = x => T!Seen(states, x) = states[n][2] + 1
<1> DEFINE new == T!Counted(states, x)
           seen == T!Seen(states, x)
           entry == <<x, seen>>
<1>0. Len(states) \in Nat /\ DOMAIN states = 1 .. Len(states)
      /\ \A i \in 1 .. Len(states) : states[i] \in Text \X Nat /\ states[i][2] \in Nat
  OBVIOUS
<1>1. CASE T!At(states, x) = {}
  <2>1. \A i \in 1 .. Len(states) : states[i][1] # x
    BY <1>0, <1>1 DEF T!At
  <2>2. seen = 1 /\ new = T!Admit(states, entry)
    BY <1>1 DEF T!Seen, T!Counted
  <2> DEFINE kept == IF Len(states) >= MaxStates THEN Tail(states) ELSE states
  <2>3. /\ kept \in Seq(Text \X Nat) /\ Distinct(kept)
        /\ \A i \in 1 .. Len(kept) : kept[i][1] # x
    <3>1. CASE Len(states) >= MaxStates
      <4>1. Len(states) > 0
        BY <1>0, <3>1, ServicesAssumption
      <4>2. /\ Tail(states) \in Seq(Text \X Nat) /\ Len(Tail(states)) = Len(states) - 1
            /\ \A i \in 1 .. Len(states) - 1 : Tail(states)[i] = states[i + 1]
        BY <4>1
      <4>3. QED
        BY <1>0, <2>1, <3>1, <4>1, <4>2 DEF Distinct
    <3>2. CASE ~(Len(states) >= MaxStates)
      BY <2>1, <3>2
    <3>3. QED
      BY <3>1, <3>2
  <2>4. new = Append(kept, entry)
    BY <2>2 DEF T!Admit
  <2> HIDE DEF kept, new, seen
  <2>5. entry \in Text \X Nat /\ entry[1] = x
    BY <2>2
  <2>6. /\ new \in Seq(Text \X Nat) /\ Distinct(new) /\ Len(new) > 0
        /\ new[Len(new)] = entry
    BY <2>3, <2>4, <2>5, AppendedDistinct
  <2>7. seen \in Nat /\ seen >= 1
    BY <2>2
  <2>8. \A i \in 1 .. Len(states) : states[i][1] = x => seen = states[i][2] + 1
    BY <2>1
  <2>9. QED
    BY <2>6, <2>7, <2>8 DEF new, seen
<1>2. CASE T!At(states, x) # {}
  <2> DEFINE n == CHOOSE i \in T!At(states, x) : TRUE
  <2>1. n \in 1 .. Len(states) /\ states[n][1] = x
    BY <1>0, <1>2 DEF T!At
  <2>2. seen = states[n][2] + 1 /\ new = Append(T!RemoveAt(states, n), entry)
    BY <1>2 DEF T!Seen, T!Counted
  <2> HIDE DEF n, new, seen
  <2>3. seen \in Nat /\ seen >= 1 /\ entry \in Text \X Nat /\ entry[1] = x
    BY <1>0, <2>1, <2>2
  <2>4. \A i \in 1 .. Len(states) : states[i][1] = x => i = n
    BY <2>1 DEF Distinct
  <2> DEFINE kept == T!RemoveAt(states, n)
  <2>5. /\ kept \in Seq(Text \X Nat) /\ Len(kept) = Len(states) - 1
        /\ \A i \in 1 .. Len(states) - 1 : kept[i] = states[IF i < n THEN i ELSE i + 1]
    BY <2>1, RemovedAt
  <2>6. new = Append(kept, entry)
    BY <2>2
  <2> HIDE DEF kept
  <2>7. ASSUME NEW i \in 1 .. Len(kept) PROVE kept[i][1] # x
    <3> DEFINE k == IF i < n THEN i ELSE i + 1
    <3>1. i \in 1 .. Len(states) - 1
      BY <2>5
    <3>2. k \in 1 .. Len(states) /\ k # n
      BY <1>0, <2>1, <3>1
    <3>3. kept[i] = states[k]
      BY <2>5, <3>1
    <3> HIDE DEF k
    <3>4. QED
      BY <2>4, <3>2, <3>3
  <2>8. ASSUME NEW i \in 1 .. Len(kept), NEW j \in 1 .. Len(kept), kept[i][1] = kept[j][1]
        PROVE  i = j
    <3> DEFINE f(k) == IF k < n THEN k ELSE k + 1
    <3>1. f(i) \in 1 .. Len(states) /\ f(j) \in 1 .. Len(states)
      BY <1>0, <2>1, <2>5
    <3>2. kept[i] = states[f(i)] /\ kept[j] = states[f(j)]
      BY <1>0, <2>5
    <3>3. f(i) = f(j)
      BY <2>8, <3>1, <3>2 DEF Distinct
    <3>4. QED
      BY <1>0, <2>1, <2>5, <3>3
  <2>9. /\ new \in Seq(Text \X Nat) /\ Distinct(new) /\ Len(new) > 0
        /\ new[Len(new)] = entry
    <3>1. Distinct(kept)
      BY <2>8 DEF Distinct
    <3>2. QED
      BY <2>3, <2>5, <2>6, <2>7, <3>1, AppendedDistinct
  <2>10. \A i \in 1 .. Len(states) : states[i][1] = x => seen = states[i][2] + 1
    BY <2>2, <2>4
  <2>11. QED
    BY <2>3, <2>9, <2>10 DEF new, seen
<1>3. QED
  BY <1>1, <1>2

\* The session of a call: as it was, or begun now, when no call is of the
\* present yet.
LEMMA CurrentIs ==
    ASSUME SessionTypes, NEW s \in Session,
           LoopOK(log[s], usage[s], now), Timely(log[s], now)
    PROVE  /\ T!Current(s) \in Usage /\ T!Current(s).on
           /\ Distinct(T!Current(s).states)
           /\ \/ T!Current(s) = usage[s] /\ usage[s].on /\ now <= usage[s].first + Window
              \/ /\ T!Current(s).first = now /\ T!Current(s).states = <<>>
                 /\ \A i \in 1 .. Len(log[s]) : log[s][i].time < now
<1>0. /\ usage[s] \in Usage /\ usage[s].first \in Nat /\ now \in Nat /\ Window \in Nat
      /\ log[s] \in Seq(Logged)
      /\ \A i \in 1 .. Len(log[s]) : log[s][i] \in Logged
  BY ServicesAssumption DEF SessionTypes, Usage
<1>1. CASE usage[s].on /\ now - usage[s].first <= Window
  <2>1. T!Current(s) = usage[s]
    BY <1>1 DEF T!Current
  <2>2. now <= usage[s].first + Window
    BY <1>0, <1>1
  <2>3. Distinct(usage[s].states)
    BY DEF LoopOK
  <2>4. QED
    BY <1>0, <1>1, <2>1, <2>2, <2>3
<1>2. CASE ~(usage[s].on /\ now - usage[s].first <= Window)
  <2>1. T!Current(s) = [tokens |-> 0, first |-> now, states |-> <<>>, on |-> TRUE]
    BY <1>2 DEF T!Current, T!NoSession
  <2>2. /\ T!Current(s) \in Usage /\ T!Current(s).on
        /\ T!Current(s).first = now /\ T!Current(s).states = <<>>
    BY <1>0, <2>1 DEF Usage
  <2>3. Distinct(<<>>)
    BY DEF Distinct
  <2>4. ASSUME NEW i \in 1 .. Len(log[s]) PROVE log[s][i].time < now
    <3>1. CASE ~usage[s].on
      BY <3>1 DEF LoopOK
    <3>2. CASE usage[s].on
      <4>1. log[s][i].time <= usage[s].first + Window /\ log[s][i].time \in Nat
        BY <1>0, <3>2 DEF LoopOK, Logged
      <4>2. QED
        BY <1>0, <1>2, <3>2, <4>1
    <3>3. QED
      BY <3>1, <3>2
  <2>5. QED
    BY <2>2, <2>3, <2>4
<1>3. QED
  BY <1>1, <1>2

LEMMA LoopStep ==
    ASSUME SessionTypes, NEW s \in Session, NEW x \in Text, NEW e \in Logged,
           LoopOK(log[s], usage[s], now), Timely(log[s], now),
           e.text = x, e.time = now,
           "loop" \in e.hits <=> T!agent_loop_state_repeat(s, x)
    PROVE  /\ T!detect_usage(s, x) \in Usage
           /\ LoopOK(Append(log[s], e), T!detect_usage(s, x), now)
<1> DEFINE c == log[s]
           d == Append(c, e)
           u == T!Current(s)
           v == T!detect_usage(s, x)
           seen == T!Seen(u.states, x)
<1>1. /\ u \in Usage /\ u.on /\ Distinct(u.states) /\ u.states \in Seq(Text \X Nat)
      /\ u.tokens \in Nat /\ u.first \in Nat
      /\ now \in Nat /\ Window \in Nat /\ RepeatAt \in Nat /\ c \in Seq(Logged)
  BY CurrentIs, ServicesAssumption DEF SessionTypes, Usage
<1>2. v = [u EXCEPT !.tokens = u.tokens + 1, !.states = T!Counted(u.states, x)]
  BY DEF T!detect_usage
<1>3. /\ T!Counted(u.states, x) \in Seq(Text \X Nat) /\ Distinct(T!Counted(u.states, x))
      /\ Len(T!Counted(u.states, x)) > 0
      /\ seen \in Nat /\ seen >= 1
      /\ T!Counted(u.states, x)[Len(T!Counted(u.states, x))] = <<x, seen>>
      /\ \A n \in 1 .. Len(u.states) : u.states[n][1] = x => seen = u.states[n][2] + 1
  BY <1>1, CountedLast
<1>4. "loop" \in e.hits <=> seen >= RepeatAt
  BY DEF T!agent_loop_state_repeat
<1>5. \/ u = usage[s] /\ usage[s].on /\ now <= usage[s].first + Window
      \/ /\ u.first = now /\ u.states = <<>>
         /\ \A i \in 1 .. Len(c) : c[i].time < now
  BY CurrentIs
<1> HIDE DEF u, v, seen
<1>6. /\ v \in Usage /\ v.on = u.on /\ v.first = u.first
      /\ v.states = T!Counted(u.states, x)
  <2> DEFINE k == T!Counted(u.states, x)
             n == u.tokens + 1
  <2>1. k \in Seq(Text \X Nat) /\ n \in Nat
    BY <1>1, <1>3
  <2>2. v = [u EXCEPT !.tokens = n, !.states = k]
    BY <1>2
  <2> HIDE DEF k, n
  <2>3. v = [tokens |-> n, first |-> u.first, states |-> k, on |-> u.on]
    BY <1>1, <2>2 DEF Usage
  <2>4. v \in Usage
    BY <1>1, <2>1, <2>3 DEF Usage
  <2>5. QED
    BY <2>3, <2>4 DEF k
<1>7. /\ Len(d) = Len(c) + 1 /\ Len(c) \in Nat /\ d[Len(c) + 1] = e
      /\ \A i \in 1 .. Len(c) : d[i] = c[i] /\ c[i].time \in Nat
  BY <1>1, Grown DEF Logged
<1> HIDE DEF c, d
<1>8. ASSUME NEW i \in 1 .. Len(d) PROVE d[i].time <= v.first + Window
  <2>1. CASE i = Len(c) + 1
    BY <1>1, <1>5, <1>6, <1>7, <2>1
  <2>2. CASE i \in 1 .. Len(c)
    <3>1. d[i] = c[i] /\ c[i].time \in Nat
      BY <1>7, <2>2
    <3>2. CASE u = usage[s] /\ usage[s].on
      BY <1>6, <2>2, <3>1, <3>2 DEF LoopOK, c
    <3>3. CASE u.first = now /\ \A k \in 1 .. Len(c) : c[k].time < now
      <4>1. c[i].time < now
        BY <2>2, <3>3
      <4>2. QED
        BY <1>1, <1>6, <3>1, <3>3, <4>1
    <3>4. QED
      BY <1>5, <3>2, <3>3
  <2>3. QED
    BY <1>7, <1>8, <2>1, <2>2
<1>9. ASSUME NEW k \in 1 .. Len(d), Run(d, v.first, k) PROVE seen >= k
  <2>1. CASE k = 1
    BY <1>3, <2>1
  <2>2. CASE k # 1
    <3>0. /\ k \in Nat /\ k - 1 \in 1 .. Len(c) /\ Len(c) \in 1 .. Len(c)
          /\ Len(c) \in Len(d) - k + 1 .. Len(d)
      BY <1>7, <2>2
    <3>1. \A i \in Len(c) - (k - 1) + 1 .. Len(c) :
            /\ i \in 1 .. Len(c) /\ i \in Len(d) - k + 1 .. Len(d)
      BY <1>7, <3>0
    <3>2. \A i \in Len(c) - (k - 1) + 1 .. Len(c) : c[i].text = x /\ c[i].time >= u.first
      BY <1>6, <1>7, <1>9, <3>1 DEF Run
    <3>3. c[Len(c)].text = x /\ c[Len(c)].time >= u.first
      BY <3>0, <3>2
    <3>4. u = usage[s] /\ usage[s].on
      <4>1. ~(u.first = now /\ c[Len(c)].time < now)
        BY <1>1, <1>7, <3>0, <3>3
      <4>2. QED
        BY <1>5, <3>0, <4>1
    <3>5. Run(c, u.first, k - 1)
      BY <3>2, <3>3 DEF Run
    <3>6. /\ Len(u.states) > 0 /\ u.states[Len(u.states)][1] = x
          /\ u.states[Len(u.states)][2] >= k - 1
      BY <3>0, <3>3, <3>4, <3>5 DEF LoopOK, c
    <3>7. Len(u.states) \in 1 .. Len(u.states) /\ u.states[Len(u.states)][2] \in Nat
      BY <1>1, <3>6
    <3>8. seen = u.states[Len(u.states)][2] + 1
      BY <1>3, <3>6, <3>7
    <3>9. QED
      BY <3>0, <3>6, <3>7, <3>8
  <2>3. QED
    BY <2>1, <2>2
<1>10. LoopOK(d, v, now)
  <2>1. v.states[Len(v.states)] = <<x, seen>> /\ Len(v.states) > 0 /\ Distinct(v.states)
    BY <1>3, <1>6
  <2>2. <<x, seen>>[1] = x /\ <<x, seen>>[2] = seen /\ d[Len(d)] = e /\ Len(d) > 0
    BY <1>7
  <2>3. QED
    BY <1>1, <1>4, <1>6, <1>8, <1>9, <2>1, <2>2 DEF LoopOK
<1>11. QED
  BY <1>6, <1>10 DEF c, d, v

-----------------------------------------------------------------------------
\* A set of naturals has a least element.
LEMMA LeastOf ==
    ASSUME NEW U, U \subseteq Nat, U # {}
    PROVE  T!Min(U) \in U /\ \A y \in U : T!Min(U) <= y
<1> DEFINE less == OpToRel(<, Nat)
<1>1. IsWellFoundedOn(less, Nat)
  BY NatLessThanWellFounded
<1>2. PICK x \in U : \A y \in U : ~(<<y, x>> \in less)
  <2> HIDE DEF less
  <2>1. QED
    BY <1>1, WFMin
<1>3. \A y \in U : ~(y < x)
  BY <1>2 DEF OpToRel
<1>4. \A y \in U : x <= y
  BY <1>3
<1>5. QED
  BY <1>4, Zenon DEF T!Min

LEMMA EndOf ==
    ASSUME NEW X, NEW q \in Seq(X), NEW m \in 1 .. Len(q)
    PROVE  /\ SubSeq(q, m, Len(q)) \in Seq(X)
           /\ Len(SubSeq(q, m, Len(q))) = Len(q) - m + 1
           /\ \A i \in 1 .. Len(q) - m + 1 : SubSeq(q, m, Len(q))[i] = q[m + i - 1]
  OBVIOUS

\* What popleft leaves of the deque is the calls of the session's log that are
\* in the window, FloodMemory of them at most.
LEMMA LiveIs ==
    ASSUME SessionTypes, NEW s \in Session,
           FloodOK(log[s], prompts[s], now), Timely(log[s], now)
    PROVE  LET c == log[s]  n == Len(log[s])  k == Len(T!Live(s)) IN
           /\ T!Live(s) \in Seq(Text \X Nat) /\ k <= n /\ k <= FloodMemory
           /\ \A i \in 1 .. k :
                 /\ T!Live(s)[i][1] = c[n - k + i].text
                 /\ T!Live(s)[i][2] = c[n - k + i].time
                 /\ now <= c[n - k + i].time + Window
           /\ \A i \in 1 .. n : i <= n - k /\ i > n - FloodMemory => c[i].time + Window < now
<1> DEFINE c == log[s]
           n == Len(c)
           d == prompts[s]
           l == Len(d)
           stays == {i \in DOMAIN d : now - d[i][2] <= Window}
           L == T!Live(s)
<1>0. /\ c \in Seq(Logged) /\ n \in Nat /\ d \in Seq(Text \X Nat) /\ l \in Nat
      /\ now \in Nat /\ Window \in Nat /\ FloodMemory \in Nat
      /\ DOMAIN d = 1 .. l /\ l <= n /\ l <= FloodMemory
      /\ \A i \in 1 .. n : c[i] \in Logged /\ c[i].time \in Nat
  <2>1. /\ c \in Seq(Logged) /\ n \in Nat /\ d \in Seq(Text \X Nat) /\ l \in Nat
        /\ now \in Nat /\ DOMAIN d = 1 .. l
    BY DEF SessionTypes
  <2>2. Window \in Nat /\ FloodMemory \in Nat
    BY ServicesAssumption
  <2>3. l <= n /\ l <= FloodMemory
    BY DEF FloodOK
  <2>4. \A i \in 1 .. n : c[i] \in Logged /\ c[i].time \in Nat
    <3>1. \A i \in 1 .. n : c[i] \in Logged
      BY <2>1
    <3>2. QED
      BY <3>1 DEF Logged
  <2>5. QED
    BY <2>1, <2>2, <2>3, <2>4
<1>00. /\ n \in Nat /\ l \in Nat /\ now \in Nat /\ Window \in Nat
       /\ FloodMemory \in Nat /\ l <= n /\ l <= FloodMemory
  BY <1>0
<1>1. L = T!From(d, stays)
  BY DEF T!Live
<1>2. \A i \in 1 .. l : /\ n - l + i \in 1 .. n
                        /\ d[i][1] = c[n - l + i].text /\ d[i][2] = c[n - l + i].time
  <2>1. \A i \in 1 .. l : d[i][1] = c[n - l + i].text /\ d[i][2] = c[n - l + i].time
    BY DEF FloodOK
  <2> HIDE DEF c, d, n, l
  <2>2. \A i \in 1 .. l : n - l + i \in 1 .. n
    BY <1>0
  <2>3. QED
    BY <2>1, <2>2
<1>3. \A i \in 1 .. n : i <= n - l /\ i > n - FloodMemory => c[i].time + Window < now
  BY <1>0 DEF FloodOK
<1>4. \A i \in 1 .. n : \A j \in i .. n : c[i].time <= c[j].time
  BY DEF Timely
<1>5. \A i \in 1 .. l : i \in stays <=> now <= c[n - l + i].time + Window
  <2> SUFFICES ASSUME NEW i \in 1 .. l
               PROVE  i \in stays <=> now <= c[n - l + i].time + Window
    OBVIOUS
  <2> HIDE DEF c, d, n, l
  <2>1. n - l + i \in 1 .. n /\ d[i][2] = c[n - l + i].time /\ i \in DOMAIN d
    BY <1>0, <1>2
  <2>2. c[n - l + i].time \in Nat
    BY <1>0, <2>1
  <2>3. i \in stays <=> now - c[n - l + i].time <= Window
    BY <2>1
  <2> DEFINE z == c[n - l + i].time
  <2>4. z \in Nat /\ (i \in stays <=> now - z <= Window)
    BY <2>2, <2>3
  <2> HIDE DEF z, stays
  <2>5. i \in stays <=> now <= z + Window
    BY <1>00, <2>4
  <2>6. QED
    BY <2>5 DEF z
<1>6. stays \subseteq 1 .. l
  BY <1>0
<1> HIDE DEF c, d, n, l, stays, L
<1>7. CASE stays = {}
  <2>1. L = <<>>
    BY <1>1, <1>7 DEF T!From
  <2>2. ASSUME NEW i \in 1 .. n, i > n - FloodMemory PROVE c[i].time + Window < now
    <3>1. CASE i <= n - l
      BY <1>3, <2>2, <3>1
    <3>2. CASE i > n - l
      <4>1. i - (n - l) \in 1 .. l /\ n - l + (i - (n - l)) = i
        BY <1>00, <3>2
      <4>2. ~(now <= c[i].time + Window)
        BY <1>5, <1>7, <4>1
      <4>3. QED
        BY <1>0, <4>2
    <3>3. QED
      BY <1>00, <3>1, <3>2
  <2>3. QED
    BY <1>0, <2>1, <2>2 DEF L, c, n
<1>8. CASE stays # {}
  <2> DEFINE m == T!Min(stays)
             k == l - m + 1
  <2>1. m \in stays /\ \A y \in stays : m <= y
    <3>1. stays \subseteq Nat
      BY <1>0, <1>6
    <3>2. QED
      BY <1>8, <3>1, LeastOf
  <2>2. m \in 1 .. l /\ now <= c[n - l + m].time + Window
    BY <1>5, <1>6, <2>1
  <2>3. L = SubSeq(d, m, l)
    BY <1>1, <1>8 DEF T!From, l
  <2> HIDE DEF m
  <2>4. /\ L \in Seq(Text \X Nat) /\ Len(L) = k
        /\ \A i \in 1 .. k : L[i] = d[m + i - 1]
    <3>1. m \in 1 .. Len(d) /\ l = Len(d) /\ d \in Seq(Text \X Nat)
      BY <1>0, <2>2 DEF l
    <3>2. /\ SubSeq(d, m, Len(d)) \in Seq(Text \X Nat)
          /\ Len(SubSeq(d, m, Len(d))) = Len(d) - m + 1
          /\ \A i \in 1 .. Len(d) - m + 1 : SubSeq(d, m, Len(d))[i] = d[m + i - 1]
      BY <3>1, EndOf
    <3>3. QED
      BY <2>3, <3>1, <3>2
  <2>5. k \in Nat /\ k <= l
    BY <1>00, <2>2
  <2>6. ASSUME NEW i \in 1 .. k
        PROVE  /\ L[i][1] = c[n - k + i].text /\ L[i][2] = c[n - k + i].time
               /\ now <= c[n - k + i].time + Window
    <3>0. /\ n \in Nat /\ l \in Nat /\ m \in Nat /\ 1 <= m /\ m <= l /\ l <= n
          /\ i \in Nat /\ 1 <= i /\ i <= l - m + 1
      BY <1>00, <2>2, <2>5
    <3>1. m + i - 1 \in 1 .. l /\ n - l + (m + i - 1) = n - k + i
      BY <3>0
    <3>2. L[i][1] = c[n - k + i].text /\ L[i][2] = c[n - k + i].time
      BY <1>2, <2>4, <3>1
    <3>3. n - l + m \in 1 .. n /\ n - k + i \in n - l + m .. n /\ n - k + i \in 1 .. n
      BY <3>0
    <3>4. c[n - l + m].time <= c[n - k + i].time
      BY <1>4, <3>3
    <3> DEFINE a == c[n - l + m].time
               z == c[n - k + i].time
    <3>5. a \in Nat /\ z \in Nat /\ a <= z /\ now <= a + Window
      BY <1>0, <2>2, <3>3, <3>4
    <3> HIDE DEF a, z
    <3>6. now <= z + Window
      BY <1>00, <3>5
    <3>7. QED
      BY <3>2, <3>6 DEF z
  <2>7. ASSUME NEW i \in 1 .. n, i <= n - k, i > n - FloodMemory
        PROVE  c[i].time + Window < now
    <3>1. CASE i <= n - l
      BY <1>3, <2>7, <3>1
    <3>2. CASE i > n - l
      <4>1. i - (n - l) \in 1 .. l /\ n - l + (i - (n - l)) = i /\ i - (n - l) < m
        BY <1>00, <2>2, <2>7, <3>2
      <4>2. i - (n - l) \notin stays
        BY <2>1, <2>2, <4>1
      <4>3. ~(now <= c[i].time + Window)
        BY <1>5, <4>1, <4>2
      <4>4. QED
        BY <1>0, <4>3
    <3>3. QED
      BY <1>00, <3>1, <3>2
  <2>8. k <= n /\ k <= FloodMemory
    BY <1>00, <2>5
  <2> HIDE DEF k
  <2>9. QED
    BY <2>4, <2>6, <2>7, <2>8 DEF L, c, n
<1>9. QED
  BY <1>7, <1>8

\* A set of numbers and the set moved by m are of one size.
LEMMA Shifted ==
    ASSUME NEW m \in Nat, NEW A, A \subseteq Nat, IsFiniteSet(A), NEW B_,
           \A i \in A : i + m \in B_, \A j \in B_ : \E i \in A : j = i + m
    PROVE  Cardinality(B_) = Cardinality(A)
<1> DEFINE f == [i \in A |-> i + m]
<1>1. f \in [A -> B_] /\ \A a, b \in A : f[a] = f[b] => a = b
  OBVIOUS
<1>2. \A j \in B_ : \E i \in A : f[i] = j
  OBVIOUS
<1> HIDE DEF f
<1>3. f \in Bijection(A, B_)
  BY <1>1, <1>2 DEF Bijection, Injection, Surjection, IsInjective
<1>4. QED
  BY <1>3, FS_Bijection DEF ExistsBijection

\* The copies that a call is told of are the copies that the log has.
LEMMA CopiesNow ==
    ASSUME SessionTypes, NEW s \in Session, NEW x \in Text, NEW e \in Logged,
           FloodOK(log[s], prompts[s], now), Timely(log[s], now),
           e.text = x, e.time = now
    PROVE  Cardinality({i \in DOMAIN T!Live(s) : T!Live(s)[i][1] = x})
              = Cardinality(Copies(Append(log[s], e), Len(log[s]) + 1))
<1> DEFINE c == log[s]
           n == Len(c)
           d == Append(c, e)
           L == T!Live(s)
           k == Len(L)
           m == n - k
           A == {i \in DOMAIN L : L[i][1] = x}
           C == Copies(d, n + 1)
<1>1. /\ L \in Seq(Text \X Nat) /\ k <= n /\ k <= FloodMemory
      /\ \A i \in 1 .. k : /\ L[i][1] = c[n - k + i].text
                           /\ now <= c[n - k + i].time + Window
      /\ \A i \in 1 .. n : i <= n - k /\ i > n - FloodMemory => c[i].time + Window < now
  BY LiveIs
<1>2. c \in Seq(Logged) /\ now \in Nat /\ Window \in Nat /\ FloodMemory \in Nat
  BY ServicesAssumption DEF SessionTypes
<1>3. /\ Len(d) = n + 1 /\ n \in Nat /\ d[n + 1] = e
      /\ \A i \in 1 .. n : d[i] = c[i] /\ c[i].time \in Nat
  BY <1>2, Grown DEF Logged
<1>4. k \in Nat /\ DOMAIN L = 1 .. k
  BY <1>1
<1> HIDE DEF c, n, d, L, k
<1>5. m \in Nat
  BY <1>1, <1>3, <1>4
<1>0. \A i : i \in C <=> /\ i \in 1 .. Len(d) /\ i < n + 1 /\ i >= (n + 1) - FloodMemory
                         /\ d[i].text = d[n + 1].text
                         /\ d[n + 1].time - d[i].time <= Window
  BY Zenon DEF Copies
<1> HIDE DEF C
<1>6. ASSUME NEW i \in A PROVE i + m \in C
  <2>1. i \in 1 .. k /\ L[i][1] = x /\ n - k + i = i + m
    BY <1>3, <1>4
  <2>2. i + m \in 1 .. n /\ i + m < n + 1 /\ i + m >= (n + 1) - FloodMemory
    BY <1>1, <1>2, <1>3, <1>4, <2>1
  <2>3. c[i + m].text = x /\ now <= c[i + m].time + Window
    BY <1>1, <2>1
  <2>4. d[i + m] = c[i + m] /\ c[i + m].time \in Nat
    BY <1>3, <2>2
  <2>5. now - d[i + m].time <= Window /\ d[i + m].text = x /\ i + m \in 1 .. Len(d)
    BY <1>2, <1>3, <2>2, <2>3, <2>4
  <2> HIDE DEF m
  <2>6. QED
    BY <1>0, <1>3, <2>2, <2>5
<1>7. ASSUME NEW j \in C PROVE \E i \in A : j = i + m
  <2>1. /\ j \in 1 .. Len(d) /\ j < n + 1 /\ j >= (n + 1) - FloodMemory
        /\ d[j].text = d[n + 1].text /\ d[n + 1].time - d[j].time <= Window
    BY <1>0, <1>7
  <2>2. j \in 1 .. n /\ j > n - FloodMemory
    BY <1>2, <1>3, <2>1
  <2>3. d[j] = c[j] /\ c[j].time \in Nat /\ c[j].text = x
    BY <1>3, <2>1, <2>2
  <2>4. ~(c[j].time + Window < now)
    BY <1>2, <1>3, <2>1, <2>3
  <2>5. ~(j <= n - k)
    BY <1>1, <2>2, <2>4
  <2>6. j - m \in 1 .. k /\ n - k + (j - m) = j /\ j = (j - m) + m
    BY <1>3, <1>4, <2>2, <2>5
  <2>7. L[j - m][1] = x
    BY <1>1, <2>3, <2>6
  <2> HIDE DEF m
  <2>8. j - m \in A
    BY <1>4, <2>6, <2>7
  <2>9. QED
    BY <2>6, <2>8
<1>8. A \subseteq 1 .. k /\ IsFiniteSet(1 .. k)
  BY <1>4, FS_Interval
<1>9. A \subseteq Nat /\ IsFiniteSet(A)
  BY <1>4, <1>8, FS_Subset
<1> HIDE DEF A, C, m
<1>10. Cardinality(C) = Cardinality(A)
  BY <1>5, <1>6, <1>7, <1>9, Shifted
<1>11. QED
  BY <1>10 DEF A, C, L, d, n, c

LEMMA CopiesBefore ==
    ASSUME NEW c \in Seq(Logged), NEW e \in Logged, NEW j \in 1 .. Len(c)
    PROVE  Copies(Append(c, e), j) = Copies(c, j)
<1> DEFINE d == Append(c, e)
<1>1. /\ Len(d) = Len(c) + 1 /\ Len(c) \in Nat
      /\ \A i \in 1 .. Len(c) : d[i] = c[i]
  BY Grown
<1> HIDE DEF d
<1>2. \A i \in 1 .. Len(d) : i < j => i \in 1 .. Len(c)
  BY <1>1
<1>3. \A i \in 1 .. Len(c) : i \in 1 .. Len(d)
  BY <1>1
<1>4. Copies(d, j) = Copies(c, j)
  BY <1>1, <1>2, <1>3 DEF Copies
<1>5. QED
  BY <1>4 DEF d

LEMMA FloodToldStep ==
    ASSUME SessionTypes, NEW s \in Session, NEW x \in Text, NEW e \in Logged,
           FloodOK(log[s], prompts[s], now), Timely(log[s], now), FloodTold(log[s]),
           e.text = x, e.time = now,
           "flood" \in e.hits <=> T!check_prompt_flood(s, x)
    PROVE  FloodTold(Append(log[s], e))
<1> DEFINE c == log[s]
           d == Append(c, e)
<1>1. c \in Seq(Logged)
  BY DEF SessionTypes
<1>2. /\ Len(d) = Len(c) + 1 /\ Len(c) \in Nat /\ d[Len(c) + 1] = e
      /\ \A i \in 1 .. Len(c) : d[i] = c[i]
  BY <1>1, Grown
<1>3. "flood" \in e.hits <=> Cardinality(Copies(d, Len(c) + 1)) >= FloodAt
  <2> DEFINE A == {i \in DOMAIN T!Live(s) : T!Live(s)[i][1] = x}
  <2>1. T!check_prompt_flood(s, x) <=> T!Cardinality(A) >= FloodAt
    BY DEF T!check_prompt_flood
  <2>2. Cardinality(A) = Cardinality(Copies(d, Len(c) + 1))
    BY CopiesNow
  <2> HIDE DEF A
  <2>3. T!Cardinality(A) = Cardinality(A)
    BY SameCardinality
  <2>4. QED
    BY <2>1, <2>2, <2>3
<1>4. \A j \in 1 .. Len(c) : Copies(d, j) = Copies(c, j)
  BY <1>1, CopiesBefore
<1> HIDE DEF d
<1>5. ASSUME NEW j \in 1 .. Len(d)
      PROVE  "flood" \in d[j].hits <=> Cardinality(Copies(d, j)) >= FloodAt
  <2>1. CASE j = Len(c) + 1
    BY <1>2, <1>3, <2>1
  <2>2. CASE j \in 1 .. Len(c)
    BY <1>2, <1>4, <2>2 DEF FloodTold
  <2>3. QED
    BY <1>2, <2>1, <2>2
<1>6. FloodTold(d)
  BY <1>5 DEF FloodTold
<1>7. QED
  BY <1>6 DEF d

LEMMA FloodStep ==
    ASSUME SessionTypes, NEW s \in Session, NEW x \in Text, NEW e \in Logged,
           FloodOK(log[s], prompts[s], now), Timely(log[s], now),
           e.text = x, e.time = now
    PROVE  /\ T!Remember(s, x) \in Seq(Text \X Nat)
           /\ FloodOK(Append(log[s], e), T!Remember(s, x), now)
<1> DEFINE c == log[s]
           n == Len(c)
           d == Append(c, e)
           L == T!Live(s)
           k == Len(L)
           p == Append(L, <<x, now>>)
           q == T!Remember(s, x)
<1>1. /\ L \in Seq(Text \X Nat) /\ k <= n /\ k <= FloodMemory
      /\ \A i \in 1 .. k : L[i][1] = c[n - k + i].text /\ L[i][2] = c[n - k + i].time
      /\ \A i \in 1 .. n : i <= n - k /\ i > n - FloodMemory => c[i].time + Window < now
  BY LiveIs
<1>2. /\ c \in Seq(Logged) /\ now \in Nat /\ Window \in Nat
      /\ FloodMemory \in Nat /\ FloodMemory >= 1
  BY ServicesAssumption DEF SessionTypes
<1>3. /\ Len(d) = n + 1 /\ n \in Nat /\ d[n + 1] = e
      /\ \A i \in 1 .. n : d[i] = c[i]
  BY <1>2, Grown
<1>4. k \in Nat
  BY <1>1
<1>5. /\ p \in Seq(Text \X Nat) /\ Len(p) = k + 1 /\ p[k + 1] = <<x, now>>
      /\ \A i \in 1 .. k : p[i] = L[i]
  BY <1>1, <1>2
<1>6. q = IF Len(p) > FloodMemory THEN Tail(p) ELSE p
  BY DEF T!Remember
<1> HIDE DEF c, n, d, L, k, p, q
<1>7. ASSUME NEW i \in 1 .. k + 1
      PROVE  /\ n - k + i \in 1 .. n + 1
             /\ p[i][1] = d[n - k + i].text /\ p[i][2] = d[n - k + i].time
  <2>0. n - k + i \in 1 .. n + 1
    BY <1>1, <1>3, <1>4
  <2>1. CASE i = k + 1
    <3>1. n - k + i = n + 1
      BY <1>3, <1>4, <2>1
    <3>2. QED
      BY <1>3, <1>5, <2>0, <2>1, <3>1
  <2>2. CASE i \in 1 .. k
    <3>1. n - k + i \in 1 .. n
      BY <1>1, <1>3, <1>4, <2>2
    <3>2. QED
      BY <1>1, <1>3, <1>5, <2>0, <2>2, <3>1
  <2>3. QED
    BY <1>4, <2>1, <2>2
<1>8. CASE Len(p) > FloodMemory
  <2>1. k = FloodMemory /\ k >= 1 /\ k <= n
    BY <1>1, <1>2, <1>4, <1>5, <1>8
  <2>2. q = Tail(p) /\ Len(p) # 0
    BY <1>4, <1>5, <1>6, <1>8
  <2>3. /\ q \in Seq(Text \X Nat) /\ Len(q) = k
        /\ \A i \in 1 .. k : q[i] = p[i + 1]
    BY <1>4, <1>5, <2>2
  <2>4. ASSUME NEW i \in 1 .. k
        PROVE  q[i][1] = d[n + 1 - k + i].text /\ q[i][2] = d[n + 1 - k + i].time
    <3>1. i + 1 \in 1 .. k + 1 /\ n - k + (i + 1) = n + 1 - k + i
      BY <1>3, <1>4
    <3>2. QED
      BY <1>7, <2>3, <3>1
  <2>5. \A i \in 1 .. Len(d) :
           ~(i <= Len(d) - k /\ i > Len(d) - FloodMemory)
    BY <1>3, <1>4, <2>1
  <2>6. FloodOK(d, q, now)
    <3>1. Len(d) = n + 1 /\ Len(q) = k /\ Len(q) <= Len(d) /\ Len(q) <= FloodMemory
      BY <1>3, <1>4, <2>1, <2>3
    <3>2. ASSUME NEW i \in 1 .. Len(q)
          PROVE  /\ q[i][1] = d[Len(d) - Len(q) + i].text
                 /\ q[i][2] = d[Len(d) - Len(q) + i].time
      <4>1. i \in 1 .. k /\ Len(d) - Len(q) + i = n + 1 - k + i
        BY <1>3, <1>4, <3>1
      <4>2. QED
        BY <2>4, <4>1
    <3>3. \A i \in 1 .. Len(d) : i <= Len(d) - Len(q) /\ i > Len(d) - FloodMemory =>
             d[i].time + Window < now
      BY <2>5, <3>1
    <3>4. QED
      BY <3>1, <3>2, <3>3, Zenon DEF FloodOK
  <2>7. QED
    BY <2>3, <2>6 DEF d, q, c
<1>9. CASE ~(Len(p) > FloodMemory)
  <2>1. q = p /\ k + 1 <= FloodMemory /\ k + 1 <= n + 1
    BY <1>1, <1>2, <1>3, <1>4, <1>5, <1>6, <1>9
  <2>2. ASSUME NEW i \in 1 .. k + 1
        PROVE  q[i][1] = d[n + 1 - (k + 1) + i].text /\ q[i][2] = d[n + 1 - (k + 1) + i].time
    <3>1. n + 1 - (k + 1) + i = n - k + i
      BY <1>3, <1>4
    <3>2. QED
      BY <1>7, <2>1, <3>1
  <2>3. ASSUME NEW i \in 1 .. Len(d), i <= Len(d) - (k + 1), i > Len(d) - FloodMemory
        PROVE  d[i].time + Window < now
    <3>1. i \in 1 .. n /\ i <= n - k /\ i > n - FloodMemory
      BY <1>2, <1>3, <1>4, <2>3
    <3>2. QED
      BY <1>1, <1>3, <3>1
  <2>4. FloodOK(d, q, now)
    <3>1. /\ Len(d) = n + 1 /\ Len(q) = k + 1
          /\ Len(q) <= Len(d) /\ Len(q) <= FloodMemory
      BY <1>3, <1>5, <2>1
    <3>2. ASSUME NEW i \in 1 .. Len(q)
          PROVE  /\ q[i][1] = d[Len(d) - Len(q) + i].text
                 /\ q[i][2] = d[Len(d) - Len(q) + i].time
      <4>1. i \in 1 .. k + 1 /\ Len(d) - Len(q) + i = n + 1 - (k + 1) + i
        BY <1>3, <1>4, <3>1
      <4>2. QED
        BY <2>2, <4>1
    <3>3. \A i \in 1 .. Len(d) : i <= Len(d) - Len(q) /\ i > Len(d) - FloodMemory =>
             d[i].time + Window < now
      BY <2>3, <3>1
    <3>4. QED
      BY <3>1, <3>2, <3>3, Zenon DEF FloodOK
  <2>5. QED
    BY <1>5, <2>1, <2>4 DEF d, q, c
<1>10. QED
  BY <1>8, <1>9

-----------------------------------------------------------------------------
LEMMA Spread ==
    ASSUME NEW r \in Nat, NEW a \in Nat, NEW b \in Nat
    PROVE  /\ r * a \in Nat /\ r * b \in Nat /\ r * (a + b) \in Nat
           /\ r * (a + b) = r * a + r * b /\ b * r = r * b
  BY SMT

\* What the bucket lets through: a call that is refused adds nothing, any other
\* itself.
LEMMA LetGrows ==
    ASSUME NEW c \in Seq(Logged), NEW e \in Logged, NEW from \in Nat, NEW to \in Nat
    PROVE  /\ IsFiniteSet(Let(c, from, to)) /\ Cardinality(Let(c, from, to)) \in Nat
           /\ "rate" \notin e.hits /\ e.time \in from .. to =>
                 Cardinality(Let(Append(c, e), from, to)) = Cardinality(Let(c, from, to)) + 1
           /\ "rate" \in e.hits \/ e.time \notin from .. to =>
                 Cardinality(Let(Append(c, e), from, to)) = Cardinality(Let(c, from, to))
<1> DEFINE n == Len(c)
           d == Append(c, e)
           A == Let(c, from, to)
           E == Let(d, from, to)
<1>1. /\ Len(d) = n + 1 /\ n \in Nat /\ d[n + 1] = e
      /\ \A i \in 1 .. n : d[i] = c[i]
  BY Grown
<1>2. A \subseteq 1 .. n /\ n + 1 \notin A
  BY <1>1 DEF Let
<1>3. IsFiniteSet(A) /\ Cardinality(A) \in Nat
  <2>1. IsFiniteSet(1 .. n)
    BY <1>1, FS_Interval
  <2> HIDE DEF A, n
  <2>2. IsFiniteSet(A)
    BY <1>2, <2>1, FS_Subset
  <2>3. QED
    BY <2>2, FS_CardinalityType
<1>4. \A i : i \in 1 .. Len(d) <=> i \in 1 .. n \/ i = n + 1
  BY <1>1
<1> HIDE DEF n, d
<1>5. CASE "rate" \notin e.hits /\ e.time \in from .. to
  <2>1. E = A \cup {n + 1}
    BY <1>1, <1>4, <1>5 DEF Let, n
  <2> HIDE DEF A, E
  <2>2. Cardinality(E) = Cardinality(A) + 1
    BY <1>2, <1>3, <2>1, FS_AddElement
  <2>3. QED
    BY <1>3, <1>5, <2>2 DEF A, E, d
<1>6. CASE ~("rate" \notin e.hits /\ e.time \in from .. to)
  <2>1. E = A
    BY <1>1, <1>4, <1>6 DEF Let, n
  <2>2. QED
    BY <1>3, <1>6, <2>1 DEF d
<1>7. QED
  BY <1>5, <1>6

LEMMA LetClipped ==
    ASSUME NEW c \in Seq(Logged), NEW from \in Nat, NEW to \in Nat, NEW last \in Nat,
           last <= to, \A i \in 1 .. Len(c) : c[i].time <= last
    PROVE  Let(c, from, to) = Let(c, from, last)
<1>1. \A i \in 1 .. Len(c) : c[i].time \in Nat
  <2>1. \A i \in 1 .. Len(c) : c[i] \in Logged
    OBVIOUS
  <2>2. QED
    BY <2>1 DEF Logged
<1>2. \A i \in 1 .. Len(c) : c[i].time \in from .. to <=> c[i].time \in from .. last
  BY <1>1
<1>3. QED
  BY <1>2 DEF Let

LEMMA BucketStep ==
    ASSUME SessionTypes, NEW s \in Session, NEW e \in Logged,
           BucketOK(log[s], bucket[s], now),
           e.time = now, "rate" \in e.hits <=> T!check_rate_limit(s)
    PROVE  /\ T!consume(s) \in [tokens : Nat, last : Nat]
           /\ BucketOK(Append(log[s], e), T!consume(s), now)
<1> DEFINE c == log[s]
           d == Append(c, e)
           b == bucket[s]
           r == T!Refilled(b)
           full == Rate * Window
           v == T!consume(s)
<1>1. /\ c \in Seq(Logged) /\ b.tokens \in Nat /\ b.last \in Nat /\ now \in Nat
      /\ Rate \in Nat /\ Window \in Nat
  BY ServicesAssumption DEF SessionTypes
<1>2. full \in Nat
  BY <1>1, Spread
<1>3. /\ b.last <= now /\ b.tokens <= full
      /\ \A i \in 1 .. Len(c) : c[i].time <= b.last
  BY DEF BucketOK
<1>4. \A from \in Nat : from <= b.last =>
         Cardinality(Let(c, from, b.last)) + b.tokens <= full + Rate * (b.last - from)
  BY DEF BucketOK
<1>5. \A from, to \in Nat : from <= to =>
         Cardinality(Let(c, from, to)) <= full + Rate * (to - from)
  BY DEF BucketOK
<1>6. now - b.last \in Nat /\ (now - b.last) * Rate = Rate * (now - b.last)
      /\ Rate * (now - b.last) \in Nat
  BY <1>1, <1>3, Spread
<1>7. r = IF full < b.tokens + Rate * (now - b.last) THEN full
          ELSE b.tokens + Rate * (now - b.last)
  BY <1>6 DEF T!Refilled, T!Least
<1>8. v = [tokens |-> IF r >= 1 THEN r - 1 ELSE r, last |-> now]
  BY DEF T!consume
<1>9. "rate" \in e.hits <=> r < 1
  BY DEF T!check_rate_limit
<1>10. /\ Len(d) = Len(c) + 1 /\ Len(c) \in Nat /\ d[Len(c) + 1] = e
       /\ \A i \in 1 .. Len(c) : d[i] = c[i] /\ c[i].time \in Nat
  BY <1>1, Grown DEF Logged
<1>11. d \in Seq(Logged)
  BY <1>1, Grown
<1> HIDE DEF full, r, v, c, d, b
<1>12. r \in Nat /\ r <= full /\ r <= b.tokens + Rate * (now - b.last)
  <2> DEFINE gain == Rate * (now - b.last)
             had == b.tokens
  <2>1. had \in Nat /\ gain \in Nat /\ full \in Nat
        /\ r = IF full < had + gain THEN full ELSE had + gain
    BY <1>1, <1>2, <1>6, <1>7
  <2> HIDE DEF gain, had
  <2>2. r \in Nat /\ r <= full /\ r <= had + gain
    BY <2>1
  <2>3. QED
    BY <2>2 DEF gain, had
<1>13. v.last = now /\ v.tokens = (IF r >= 1 THEN r - 1 ELSE r)
  BY <1>8
<1>14. v \in [tokens : Nat, last : Nat] /\ v.tokens \in Nat /\ v.tokens <= full
  BY <1>1, <1>2, <1>8, <1>12, <1>13
<1>15. \A i \in 1 .. Len(d) : d[i].time <= now
  <2>1. ASSUME NEW i \in 1 .. Len(d) PROVE d[i].time <= now
    <3>1. CASE i = Len(c) + 1
      BY <1>1, <1>10, <3>1
    <3>2. CASE i \in 1 .. Len(c)
      BY <1>1, <1>3, <1>10, <3>2
    <3>3. QED
      BY <1>10, <3>1, <3>2
  <2>2. QED
    BY <2>1
<1>16. ASSUME NEW from \in Nat, from <= now
       PROVE  Cardinality(Let(d, from, now)) + v.tokens <= full + Rate * (now - from)
  <2> DEFINE X == Cardinality(Let(c, from, now))
             Y == Cardinality(Let(d, from, now))
  <2>1. X \in Nat /\ Y = (IF "rate" \notin e.hits THEN X + 1 ELSE X)
    <3>1. e.time \in from .. now
      BY <1>1, <1>16
    <3>2. X \in Nat
      BY <1>1, LetGrows
    <3>3. "rate" \notin e.hits => Y = X + 1
      BY <1>1, <3>1, LetGrows DEF d
    <3>4. "rate" \in e.hits => Y = X
      BY <1>1, <3>1, LetGrows DEF d
    <3> HIDE DEF X, Y
    <3>5. QED
      BY <3>2, <3>3, <3>4
  <2>2. X + r <= full + Rate * (now - from)
    <3>1. CASE from <= b.last
      <4>1. Let(c, from, now) = Let(c, from, b.last)
        <5> DEFINE last == b.last
        <5>1. last \in Nat /\ last <= now /\ \A i \in 1 .. Len(c) : c[i].time <= last
          BY <1>1, <1>3
        <5> HIDE DEF last
        <5>2. Let(c, from, now) = Let(c, from, last)
          BY <1>1, <5>1, LetClipped
        <5>3. QED
          BY <5>2 DEF last
      <4>2. X + b.tokens <= full + Rate * (b.last - from)
        BY <1>4, <3>1, <4>1
      <4>3. /\ b.last - from \in Nat
            /\ (b.last - from) + (now - b.last) = now - from
        BY <1>1, <1>3, <3>1
      <4>4. /\ Rate * (now - from) = Rate * (b.last - from) + Rate * (now - b.last)
            /\ Rate * (b.last - from) \in Nat
        <5> DEFINE p == b.last - from
                   q == now - b.last
        <5>1. p \in Nat /\ q \in Nat /\ p + q = now - from
          BY <1>6, <4>3
        <5> HIDE DEF p, q
        <5>2. Rate * (p + q) = Rate * p + Rate * q /\ Rate * p \in Nat
          BY <1>1, <5>1, Spread
        <5>3. Rate * (now - from) = Rate * p + Rate * q
          BY <5>1, <5>2
        <5>4. QED
          BY <5>2, <5>3 DEF p, q
      <4> DEFINE P == Rate * (b.last - from)
                 Q == Rate * (now - b.last)
                 Z == Rate * (now - from)
      <4>5. P \in Nat /\ Q \in Nat /\ Z = P + Q /\ X + b.tokens <= full + P
            /\ r <= b.tokens + Q
        BY <1>6, <1>12, <4>2, <4>4
      <4> HIDE DEF X, P, Q, Z
      <4>6. X + r <= full + Z
        BY <1>1, <1>2, <1>12, <2>1, <4>5
      <4>7. QED
        BY <4>6 DEF Z, X
    <3>2. CASE ~(from <= b.last)
      <4>1. \A i \in 1 .. Len(c) : ~(c[i].time \in from .. now)
        BY <1>1, <1>3, <1>10, <3>2
      <4>2. Let(c, from, now) = {}
        BY <4>1 DEF Let
      <4>3. X = 0
        BY <4>2, FS_EmptySet
      <4>4. now - from \in Nat /\ Rate * (now - from) \in Nat
        BY <1>1, <1>16, Spread
      <4> HIDE DEF X
      <4>5. QED
        BY <1>2, <1>12, <4>3, <4>4
    <3>3. QED
      BY <3>1, <3>2
  <2>3. now - from \in Nat /\ Rate * (now - from) \in Nat
    BY <1>1, <1>16, Spread
  <2> HIDE DEF X, Y
  <2>4. Y + v.tokens <= full + Rate * (now - from)
    BY <1>2, <1>9, <1>12, <1>13, <2>1, <2>2, <2>3
  <2>5. QED
    BY <2>4 DEF Y
<1>17. ASSUME NEW from \in Nat, NEW to \in Nat, from <= to
       PROVE  Cardinality(Let(d, from, to)) <= full + Rate * (to - from)
  <2>1. CASE now \in from .. to
    <3>1. Let(d, from, to) = Let(d, from, now)
      BY <1>1, <1>11, <1>15, <2>1, LetClipped
    <3>2. Cardinality(Let(d, from, now)) + v.tokens <= full + Rate * (now - from)
      BY <1>16, <2>1
    <3>3. Cardinality(Let(d, from, now)) \in Nat
      BY <1>1, <1>11, LetGrows
    <3>4. now - from \in Nat /\ to - now \in Nat /\ (now - from) + (to - now) = to - from
      BY <1>1, <2>1
    <3>5. /\ Rate * (to - from) = Rate * (now - from) + Rate * (to - now)
          /\ Rate * (now - from) \in Nat /\ Rate * (to - now) \in Nat
      BY <1>1, <3>4, Spread
    <3>6. QED
      BY <1>2, <1>14, <3>1, <3>2, <3>3, <3>5
  <2>2. CASE now \notin from .. to
    <3>1. Cardinality(Let(d, from, to)) = Cardinality(Let(c, from, to))
      <4>1. e.time \notin from .. to
        BY <2>2
      <4> DEFINE X == Cardinality(Let(c, from, to))
                 Y == Cardinality(Let(Append(c, e), from, to))
      <4>2. "rate" \in e.hits \/ e.time \notin from .. to => Y = X
        BY <1>1, LetGrows
      <4>3. QED
        BY <4>1, <4>2 DEF d
    <3>2. QED
      BY <1>5, <1>17, <3>1
  <2>3. QED
    BY <2>1, <2>2
<1>18. BucketOK(d, v, now)
  BY <1>1, <1>13, <1>14, <1>15, <1>16, <1>17 DEF BucketOK, full
<1>19. QED
  BY <1>14, <1>18 DEF d, v, c

-----------------------------------------------------------------------------
LEMMA SessionInit == T!Init => SessionInv
<1> SUFFICES ASSUME T!Init PROVE SessionInv
  OBVIOUS
<1>1. /\ Rate \in Nat /\ Window \in Nat /\ FloodAt \in Nat /\ FloodMemory \in Nat
      /\ Rate * Window \in Nat
  BY ServicesAssumption, Spread
<1>2. SessionTypes
  BY <1>1 DEF T!Init, T!NoSession, SessionTypes, Usage
<1>3. ASSUME NEW s \in Session PROVE SessionOK(s)
  <2>1. /\ log[s] = <<>> /\ prompts[s] = <<>> /\ usage[s].states = <<>> /\ ~usage[s].on
        /\ bucket[s].tokens = Rate * Window /\ bucket[s].last = 0 /\ now = 0
    BY DEF T!Init, T!NoSession
  <2>2. Timely(log[s], now) /\ FloodTold(log[s])
    BY <2>1 DEF Timely, FloodTold
  <2>3. LoopOK(log[s], usage[s], now)
    BY <2>1 DEF LoopOK, Distinct
  <2>4. FloodOK(log[s], prompts[s], now)
    BY <1>1, <2>1 DEF FloodOK
  <2>5. \A from, to \in Nat : Let(log[s], from, to) = {}
    BY <2>1 DEF Let
  <2>6. ASSUME NEW from \in Nat, NEW to \in Nat, from <= to
        PROVE  Cardinality(Let(log[s], from, to)) = 0 /\ Rate * (to - from) \in Nat
    BY <1>1, <2>5, <2>6, FS_EmptySet, Spread
  <2>7. BucketOK(log[s], bucket[s], now)
    <3>1. \A i \in 1 .. Len(log[s]) : log[s][i].time <= bucket[s].last
      BY <2>1
    <3>2. ASSUME NEW from \in Nat, NEW to \in Nat, from <= to
          PROVE  /\ Cardinality(Let(log[s], from, to)) <= Rate * Window + Rate * (to - from)
                 /\ Cardinality(Let(log[s], from, to)) + bucket[s].tokens
                       <= Rate * Window + Rate * (to - from)
      <4> DEFINE X == Rate * (to - from)
                 Y == Rate * Window
                 C == Cardinality(Let(log[s], from, to))
      <4>1. X \in Nat /\ Y \in Nat /\ C = 0 /\ bucket[s].tokens = Y
        BY <1>1, <2>1, <2>6, <3>2
      <4> HIDE DEF X, Y, C
      <4>2. C <= Y + X /\ C + bucket[s].tokens <= Y + X
        BY <4>1
      <4>3. QED
        BY <4>2 DEF X, Y, C
    <3>3. /\ bucket[s].last \in Nat /\ bucket[s].last <= now
          /\ bucket[s].tokens <= Rate * Window
      BY <1>1, <2>1
    <3>4. QED
      BY <3>1, <3>2, <3>3, Zenon DEF BucketOK
  <2>8. QED
    BY <2>2, <2>3, <2>4, <2>7 DEF SessionOK
<1>4. QED
  BY <1>2, <1>3 DEF SessionInv

\* The log, the deque, the bucket and the table are of the present as long as
\* time goes forward.
LEMMA TimePasses ==
    ASSUME NEW c \in Seq(Logged), NEW d, NEW u, NEW b, b.last \in Nat,
           NEW t \in Nat, NEW later \in Nat, t <= later
    PROVE  /\ Timely(c, t) => Timely(c, later)
           /\ LoopOK(c, u, t) => LoopOK(c, u, later)
           /\ FloodOK(c, d, t) => FloodOK(c, d, later)
           /\ BucketOK(c, b, t) => BucketOK(c, b, later)
<1>1. \A i \in 1 .. Len(c) : c[i].time \in Nat
  <2>1. \A i \in 1 .. Len(c) : c[i] \in Logged
    OBVIOUS
  <2>2. QED
    BY <2>1 DEF Logged
<1>2. Timely(c, t) => Timely(c, later)
  BY <1>1 DEF Timely
<1>3. LoopOK(c, u, t) => LoopOK(c, u, later)
  <2>1. \A i \in 1 .. Len(c) : c[i].time < t => c[i].time < later
    BY <1>1
  <2>2. QED
    BY <2>1, Zenon DEF LoopOK
<1>4. FloodOK(c, d, t) => FloodOK(c, d, later)
  <2>1. \A i \in 1 .. Len(c) : c[i].time + Window < t => c[i].time + Window < later
    BY <1>1, ServicesAssumption
  <2>2. QED
    BY <2>1, Zenon DEF FloodOK
<1>5. BucketOK(c, b, t) => BucketOK(c, b, later)
  <2>1. b.last <= t => b.last <= later
    OBVIOUS
  <2>2. QED
    BY <2>1, Zenon DEF BucketOK
<1>6. QED
  BY <1>2, <1>3, <1>4, <1>5

\* A step that leaves a session's memory alone keeps what is said of it.
LEMMA SessionLeft ==
    ASSUME SessionTypes, SessionTypes', NEW s \in Session, SessionOK(s), now <= now',
           log'[s] = log[s], prompts'[s] = prompts[s],
           usage'[s] = usage[s], bucket'[s] = bucket[s]
    PROVE  SessionOK(s)'
<1>1. /\ log[s] \in Seq(Logged) /\ bucket[s].last \in Nat
      /\ now \in Nat /\ now' \in Nat
  BY DEF SessionTypes
<1>2. /\ Timely(log[s], now') /\ LoopOK(log[s], usage[s], now')
      /\ FloodOK(log[s], prompts[s], now') /\ BucketOK(log[s], bucket[s], now')
  BY <1>1, TimePasses DEF SessionOK
<1>3. /\ Timely(log'[s], now') /\ LoopOK(log'[s], usage'[s], now')
      /\ FloodOK(log'[s], prompts'[s], now') /\ BucketOK(log'[s], bucket'[s], now')
      /\ FloodTold(log'[s])
  BY <1>2 DEF SessionOK
<1>4. QED
  BY <1>3 DEF SessionOK

LEMMA SessionTicks == SessionInv /\ T!Tick => SessionInv'
<1> SUFFICES ASSUME SessionInv, T!Tick PROVE SessionInv'
  OBVIOUS
<1>1. /\ now \in Nat /\ now' = now + 1 /\ bucket' = bucket /\ prompts' = prompts
      /\ usage' = usage /\ log' = log
  BY DEF SessionInv, SessionTypes, T!Tick
<1>2. SessionTypes'
  BY <1>1 DEF SessionInv, SessionTypes
<1>3. \A s \in Session : SessionOK(s)'
  BY <1>1, <1>2, SessionLeft DEF SessionInv
<1>4. QED
  BY <1>2, <1>3 DEF SessionInv

\* _cleanup forgets a session only when no call is of the present.
LEMMA SessionCleaned ==
    ASSUME SessionInv, NEW s \in Session, T!_cleanup(s)
    PROVE  SessionInv'
<1>1. /\ usage[s].on /\ now - usage[s].first > Window
      /\ usage' = [usage EXCEPT ![s] = T!NoSession]
      /\ now' = now /\ bucket' = bucket /\ prompts' = prompts /\ log' = log
  BY DEF T!_cleanup
<1>2. /\ now \in Nat /\ usage \in [Session -> Usage] /\ usage[s].first \in Nat
      /\ log[s] \in Seq(Logged) /\ Window \in Nat
  BY ServicesAssumption DEF SessionInv, SessionTypes, Usage
<1>3. T!NoSession \in Usage /\ ~T!NoSession.on /\ T!NoSession.states = <<>>
  BY DEF T!NoSession, Usage
<1>4. SessionTypes'
  BY <1>1, <1>2, <1>3 DEF SessionInv, SessionTypes
<1>5. ASSUME NEW q \in Session PROVE SessionOK(q)'
  <2>1. CASE q # s
    <3>1. usage'[q] = usage[q]
      BY <1>1, <1>2, <2>1
    <3>2. QED
      BY <1>1, <1>2, <1>4, <3>1, SessionLeft DEF SessionInv
  <2>2. CASE q = s
    <3>1. usage'[s] = T!NoSession
      BY <1>1, <1>2
    <3>2. SessionOK(s)
      BY DEF SessionInv
    <3>3. \A i \in 1 .. Len(log[s]) : log[s][i].time < now
      <4>1. \A i \in 1 .. Len(log[s]) : log[s][i] \in Logged
        BY <1>2
      <4>2. ASSUME NEW i \in 1 .. Len(log[s])
            PROVE  log[s][i].time \in Nat /\ log[s][i].time <= usage[s].first + Window
        BY <1>1, <3>2, <4>1 DEF SessionOK, LoopOK, Logged
      <4>3. QED
        BY <1>1, <1>2, <4>2
    <3>4. LoopOK(log[s], T!NoSession, now)
      BY <1>3, <3>3 DEF LoopOK, Distinct
    <3>5. LoopOK(log'[s], usage'[s], now')
      BY <1>1, <3>1, <3>4
    <3>6. QED
      BY <1>1, <2>2, <3>2, <3>5 DEF SessionOK
  <2>3. QED
    BY <2>1, <2>2
<1>6. QED
  BY <1>4, <1>5 DEF SessionInv

LEMMA SessionDetects ==
    ASSUME SessionInv, NEW s \in Session, NEW x \in Text, T!detect(s, x)
    PROVE  SessionInv'
<1> DEFINE e == [text |-> x, time |-> now, hits |-> T!Hits(s, x)]
<1>1. /\ log' = [log EXCEPT ![s] = Append(log[s], e)]
      /\ bucket' = [bucket EXCEPT ![s] = T!consume(s)]
      /\ prompts' = [prompts EXCEPT ![s] = T!Remember(s, x)]
      /\ usage' = [usage EXCEPT ![s] = T!detect_usage(s, x)]
      /\ now' = now
  BY DEF T!detect
<1>2. /\ now \in Nat /\ log \in [Session -> Seq(Logged)] /\ SessionTypes
      /\ bucket \in [Session -> [tokens : Nat, last : Nat]]
      /\ prompts \in [Session -> Seq(Text \X Nat)]
      /\ usage \in [Session -> Usage]
  BY DEF SessionInv, SessionTypes
<1>3. SessionOK(s)
  BY DEF SessionInv
<1>4. e.text = x /\ e.time = now /\ e.hits = T!Hits(s, x)
  OBVIOUS
<1>5. e \in Logged
  <2>1. T!Hits(s, x) \in SUBSET T!Rule
    BY DEF T!Hits
  <2>2. QED
    BY <1>2, <2>1 DEF Logged
<1>6. /\ "rate" \in e.hits <=> T!check_rate_limit(s)
      /\ "flood" \in e.hits <=> T!check_prompt_flood(s, x)
      /\ "loop" \in e.hits <=> T!agent_loop_state_repeat(s, x)
  BY <1>4 DEF T!Hits, T!Rule
<1> HIDE DEF e
<1>7. Append(log[s], e) \in Seq(Logged) /\ Timely(Append(log[s], e), now)
  BY <1>2, <1>3, <1>4, <1>5, Grown, TimelyStep DEF SessionOK
<1>8. /\ T!detect_usage(s, x) \in Usage
      /\ LoopOK(Append(log[s], e), T!detect_usage(s, x), now)
  BY <1>2, <1>3, <1>4, <1>5, <1>6, LoopStep DEF SessionOK
<1>9. /\ T!Remember(s, x) \in Seq(Text \X Nat)
      /\ FloodOK(Append(log[s], e), T!Remember(s, x), now)
  BY <1>2, <1>3, <1>4, <1>5, FloodStep DEF SessionOK
<1>10. FloodTold(Append(log[s], e))
  BY <1>2, <1>3, <1>4, <1>5, <1>6, FloodToldStep DEF SessionOK
<1>11. /\ T!consume(s) \in [tokens : Nat, last : Nat]
       /\ BucketOK(Append(log[s], e), T!consume(s), now)
  BY <1>2, <1>3, <1>4, <1>5, <1>6, BucketStep DEF SessionOK
<1>12. SessionTypes'
  BY <1>1, <1>2, <1>7, <1>8, <1>9, <1>11 DEF SessionTypes
<1>13. ASSUME NEW q \in Session PROVE SessionOK(q)'
  <2>1. CASE q # s
    <3>1. /\ log'[q] = log[q] /\ prompts'[q] = prompts[q]
          /\ usage'[q] = usage[q] /\ bucket'[q] = bucket[q]
      BY <1>1, <1>2, <2>1
    <3>2. QED
      BY <1>1, <1>2, <1>12, <3>1, SessionLeft DEF SessionInv
  <2>2. CASE q = s
    <3>1. /\ log'[s] = Append(log[s], e) /\ prompts'[s] = T!Remember(s, x)
          /\ usage'[s] = T!detect_usage(s, x) /\ bucket'[s] = T!consume(s)
      BY <1>1, <1>2
    <3>2. /\ Timely(log'[s], now') /\ LoopOK(log'[s], usage'[s], now')
          /\ FloodOK(log'[s], prompts'[s], now') /\ BucketOK(log'[s], bucket'[s], now')
          /\ FloodTold(log'[s])
      BY <1>1, <1>7, <1>8, <1>9, <1>10, <1>11, <3>1
    <3>3. QED
      BY <2>2, <3>2 DEF SessionOK
  <2>3. QED
    BY <2>1, <2>2
<1>14. QED
  BY <1>12, <1>13 DEF SessionInv

LEMMA SessionSame ==
    SessionInv /\ UNCHANGED <<now, bucket, prompts, usage, log>> => SessionInv'
<1> SUFFICES ASSUME SessionInv, UNCHANGED <<now, bucket, prompts, usage, log>>
             PROVE  SessionInv'
  OBVIOUS
<1>1. SessionTypes' /\ now <= now'
  BY DEF SessionInv, SessionTypes
<1>2. \A s \in Session : SessionOK(s)'
  BY <1>1, SessionLeft DEF SessionInv
<1>3. QED
  BY <1>1, <1>2 DEF SessionInv

LEMMA SessionNext == SessionInv /\ T!Next => SessionInv'
<1> SUFFICES ASSUME SessionInv, T!Next PROVE SessionInv'
  OBVIOUS
<1>1. CASE T!Tick
  BY <1>1, SessionTicks
<1>2. ASSUME NEW s \in Session, T!_cleanup(s) PROVE SessionInv'
  BY <1>2, SessionCleaned
<1>3. ASSUME NEW s \in Session, NEW x \in Text, T!detect(s, x) PROVE SessionInv'
  BY <1>3, SessionDetects
<1>4. QED
  BY <1>1, <1>2, <1>3 DEF T!Next

LEMMA SessionLoops == SessionInv => LoopCaught
<1> SUFFICES ASSUME SessionInv, NEW s \in Session,
                    Len(log[s]) >= RepeatAt, usage[s].on,
                    Run(log[s], usage[s].first, RepeatAt)
             PROVE  "loop" \in log[s][Len(log[s])].hits
  BY DEF LoopCaught, T!LoopCaught, Run
<1>1. LoopOK(log[s], usage[s], now) /\ log[s] \in Seq(Logged)
      /\ usage[s].states \in Seq(Text \X Nat)
  BY DEF SessionInv, SessionTypes, SessionOK, Usage
<1>2. RepeatAt \in 1 .. Len(log[s])
  BY <1>1, ServicesAssumption
<1>3. usage[s].states[Len(usage[s].states)][2] >= RepeatAt
  BY <1>1, <1>2 DEF LoopOK
<1>4. QED
  BY <1>1, <1>3 DEF LoopOK

LEMMA SessionAbuse == SessionInv => AbuseMatchesLog
<1> SUFFICES ASSUME SessionInv, NEW s \in Session, NEW j \in 1 .. Len(log[s])
             PROVE  /\ "flood" \in log[s][j].hits
                          <=> T!Cardinality(Copies(log[s], j)) >= FloodAt
                    /\ T!Cardinality(Let(log[s], log[s][j].time,
                                         log[s][j].time + Window - 1)) <= 2 * Rate * Window
  BY Zenon DEF AbuseMatchesLog, T!AbuseMatchesLog, Copies, Let
<1> DEFINE c == log[s]
           from == c[j].time
           to == from + Window - 1
           C == Copies(c, j)
           P == Let(c, from, to)
<1>1. /\ c \in Seq(Logged) /\ FloodTold(c) /\ BucketOK(c, bucket[s], now)
      /\ Rate \in Nat /\ Window \in Nat
  BY ServicesAssumption DEF SessionInv, SessionTypes, SessionOK
<1>2. from \in Nat
  <2>1. c[j] \in Logged
    BY <1>1
  <2>2. QED
    BY <2>1 DEF Logged
<1>3. T!Cardinality(C) = Cardinality(C) /\ T!Cardinality(P) = Cardinality(P)
  BY SameCardinality
<1>4. "flood" \in c[j].hits <=> Cardinality(C) >= FloodAt
  BY <1>1 DEF FloodTold
<1>5. Cardinality(P) <= 2 * Rate * Window
  <2>1. CASE Window = 0
    <3>1. \A t : t \notin from .. to
      BY <1>2, <2>1
    <3>2. P = {}
      BY <3>1 DEF Let
    <3>3. Cardinality(P) = 0
      BY <3>2, FS_EmptySet
    <3>4. QED
      BY <1>1, <2>1, <3>3
  <2>2. CASE Window # 0
    <3>1. to \in Nat /\ from <= to /\ to - from = Window - 1 /\ Window - 1 \in Nat
      BY <1>1, <1>2, <2>2
    <3> DEFINE X == Rate * Window
               Y == Rate * (Window - 1)
               Z == Cardinality(P)
    <3>2. Z <= X + Rate * (to - from)
      BY <1>1, <1>2, <3>1 DEF BucketOK
    <3>3. Z <= X + Y
      BY <3>1, <3>2
    <3>4. X = Y + Rate /\ X \in Nat /\ Y \in Nat
      <4> DEFINE w == Window - 1
      <4>1. w \in Nat /\ w + 1 = Window
        BY <1>1, <3>1
      <4> HIDE DEF w
      <4>2. Rate * (w + 1) = Rate * w + Rate * 1 /\ Rate * w \in Nat
        BY <1>1, <4>1, Spread
      <4>3. Rate * 1 = Rate
        BY <1>1
      <4>4. QED
        BY <1>1, <4>1, <4>2, <4>3 DEF w
    <3>5. 2 * Rate * Window = X + X
      <4> DEFINE r == Rate + Rate
      <4>1. r \in Nat /\ 2 * Rate = r
        BY <1>1
      <4>2. Window * (Rate + Rate) = Window * Rate + Window * Rate /\ Window * Rate = X
        BY <1>1, Spread
      <4> HIDE DEF r
      <4>3. r * Window = Window * r
        BY <1>1, <4>1, Spread
      <4>4. QED
        BY <4>1, <4>2, <4>3 DEF r
    <3>6. Z \in Nat
      <4>0. c[j] \in Logged
        BY <1>1
      <4>1. IsFiniteSet(P)
        BY <1>1, <1>2, <3>1, <4>0, LetGrows
      <4>2. QED
        BY <4>1, FS_CardinalityType
    <3> HIDE DEF X, Y, Z
    <3>7. Z <= X + X
      BY <1>1, <3>3, <3>4, <3>6
    <3>8. QED
      BY <3>5, <3>7 DEF Z
  <2>3. QED
    BY <2>1, <2>2
<1>6. QED
  BY <1>3, <1>4, <1>5

-----------------------------------------------------------------------------
\* The memories keep to their bounds.
LEMMA CountedBounded ==
    ASSUME NEW states \in Seq(Text \X Nat), Len(states) <= MaxStates, NEW x \in Text,
           Distinct(states)
    PROVE  Len(T!Counted(states, x)) <= MaxStates
<1> DEFINE entry == <<x, T!Seen(states, x)>>
<1>0. Len(states) \in Nat /\ MaxStates \in Nat /\ MaxStates >= 1
  BY ServicesAssumption
<1>1. CASE T!At(states, x) = {}
  <2>1. T!Counted(states, x) = T!Admit(states, entry) /\ T!Seen(states, x) = 1
    BY <1>1 DEF T!Counted, T!Seen
  <2>2. entry \in Text \X Nat
    BY <2>1
  <2> HIDE DEF entry
  <2>3. CASE Len(states) >= MaxStates
    <3>1. Tail(states) \in Seq(Text \X Nat) /\ Len(Tail(states)) = Len(states) - 1
      BY <1>0, <2>3
    <3>2. T!Admit(states, entry) = Append(Tail(states), entry)
      BY <2>3 DEF T!Admit
    <3>3. Len(Append(Tail(states), entry)) = Len(Tail(states)) + 1
      BY <2>2, <3>1
    <3>4. QED
      BY <1>0, <2>1, <3>1, <3>2, <3>3
  <2>4. CASE ~(Len(states) >= MaxStates)
    <3>1. T!Admit(states, entry) = Append(states, entry)
      BY <2>4 DEF T!Admit
    <3>2. Len(Append(states, entry)) = Len(states) + 1
      BY <2>2
    <3>3. QED
      BY <1>0, <2>1, <2>4, <3>1, <3>2
  <2>5. QED
    BY <2>3, <2>4
<1>2. CASE T!At(states, x) # {}
  <2> DEFINE n == CHOOSE i \in T!At(states, x) : TRUE
  <2>1. n \in 1 .. Len(states)
    BY <1>2 DEF T!At
  <2>2. T!Counted(states, x) = Append(T!RemoveAt(states, n), entry)
    BY <1>2 DEF T!Counted
  <2>3. entry \in Text \X Nat
    BY CountedLast
  <2> HIDE DEF n, entry
  <2>4. T!RemoveAt(states, n) \in Seq(Text \X Nat)
        /\ Len(T!RemoveAt(states, n)) = Len(states) - 1
    BY <2>1, RemovedAt
  <2>5. Len(Append(T!RemoveAt(states, n), entry)) = Len(states) - 1 + 1
    BY <2>3, <2>4
  <2>6. QED
    BY <1>0, <2>2, <2>5
<1>3. QED
  BY <1>1, <1>2

LEMMA SessionTypeInit == T!Init => T!TypeOK
<1> SUFFICES ASSUME T!Init PROVE T!TypeOK
  OBVIOUS
<1>1. Rate * Window \in Nat /\ FloodMemory \in Nat /\ MaxStates \in Nat
      /\ MaxTime \in Nat /\ MaxCalls \in Nat
  BY ServicesAssumption, Spread
<1>2. ASSUME NEW s \in Session
      PROVE  /\ bucket[s].tokens \in 0 .. Rate * Window
             /\ Len(prompts[s]) <= FloodMemory /\ Len(usage[s].states) <= MaxStates
  <2>1. /\ bucket[s].tokens = Rate * Window /\ prompts[s] = <<>>
        /\ usage[s].states = <<>>
    BY DEF T!Init, T!NoSession
  <2>2. QED
    BY <1>1, <2>1
<1>3. now \in 0 .. MaxTime /\ asked \in 0 .. MaxCalls
  BY <1>1 DEF T!Init
<1>4. QED
  BY <1>2, <1>3 DEF T!TypeOK

\* The bounds that SessionInv does not speak of.
Bounded ==
    /\ now <= MaxTime /\ asked \in 0 .. MaxCalls
    /\ \A s \in Session : Len(usage[s].states) <= MaxStates

LEMMA BoundedTypes == SessionInv => (T!TypeOK <=> Bounded)
<1> SUFFICES ASSUME SessionInv PROVE T!TypeOK <=> Bounded
  OBVIOUS
<1>1. now \in Nat /\ MaxTime \in Nat
  BY ServicesAssumption DEF SessionInv, SessionTypes
<1>2. ASSUME NEW s \in Session
      PROVE  bucket[s].tokens \in 0 .. Rate * Window /\ Len(prompts[s]) <= FloodMemory
  <2> DEFINE full == Rate * Window
  <2>1. /\ bucket[s].tokens \in Nat /\ full \in Nat
    BY ServicesAssumption, Spread DEF SessionInv, SessionTypes
  <2>2. bucket[s].tokens <= full
    BY DEF SessionInv, SessionOK, BucketOK
  <2>3. Len(prompts[s]) <= FloodMemory
    BY DEF SessionInv, SessionOK, FloodOK
  <2> HIDE DEF full
  <2>4. bucket[s].tokens \in 0 .. full
    BY <2>1, <2>2
  <2>5. QED
    BY <2>3, <2>4 DEF full
<1>3. now \in 0 .. MaxTime <=> now <= MaxTime
  BY <1>1
<1>4. QED
  BY <1>2, <1>3, Zenon DEF T!TypeOK, Bounded

LEMMA SessionTypeNext ==
    ASSUME SessionInv, SessionInv', T!TypeOK, T!Next
    PROVE  T!TypeOK'
<1>0. Bounded
  BY BoundedTypes
<1>1. SUFFICES Bounded'
  <2>1. (SessionInv => (T!TypeOK <=> Bounded))'
    BY BoundedTypes, PTL
  <2>2. QED
    BY <1>1, <2>1
<1>2. now \in Nat /\ MaxTime \in Nat /\ MaxCalls \in Nat /\ MaxStates \in Nat
      /\ usage \in [Session -> Usage]
  BY ServicesAssumption DEF SessionInv, SessionTypes
<1>3. CASE T!Tick
  BY <1>0, <1>2, <1>3 DEF T!Tick, Bounded
<1>4. ASSUME NEW s \in Session, T!_cleanup(s) PROVE Bounded'
  <2>1. /\ usage' = [usage EXCEPT ![s] = T!NoSession]
        /\ UNCHANGED <<now, asked>>
    BY <1>4 DEF T!_cleanup
  <2>2. Len(T!NoSession.states) <= MaxStates
    BY <1>2 DEF T!NoSession
  <2>3. \A q \in Session : Len(usage'[q].states) <= MaxStates
    BY <1>0, <1>2, <2>1, <2>2 DEF Bounded
  <2>4. QED
    BY <1>0, <2>1, <2>3 DEF Bounded
<1>5. ASSUME NEW s \in Session, NEW x \in Text, T!detect(s, x) PROVE Bounded'
  <2>1. /\ usage' = [usage EXCEPT ![s] = T!detect_usage(s, x)]
        /\ now' = now /\ asked < MaxCalls /\ asked' = asked + 1
    BY <1>5 DEF T!detect
  <2>2. asked' \in 0 .. MaxCalls /\ now' <= MaxTime
    BY <1>0, <1>2, <2>1 DEF Bounded
  <2> DEFINE u == T!Current(s)
  <2>3. /\ u \in Usage /\ Distinct(u.states) /\ u.states \in Seq(Text \X Nat)
        /\ u = usage[s] \/ u.states = <<>>
    BY CurrentIs DEF SessionInv, SessionOK, Usage
  <2>4. Len(u.states) <= MaxStates
    BY <1>0, <1>2, <2>3 DEF Bounded
  <2>5. T!detect_usage(s, x).states = T!Counted(u.states, x)
    <3>1. T!detect_usage(s, x) =
             [u EXCEPT !.tokens = u.tokens + 1, !.states = T!Counted(u.states, x)]
      BY DEF T!detect_usage
    <3> DEFINE k == T!Counted(u.states, x)
               n == u.tokens + 1
    <3> HIDE DEF k, n, u
    <3>2. [u EXCEPT !.tokens = n, !.states = k].states = k
      BY <2>3 DEF Usage
    <3>3. QED
      BY <3>1, <3>2 DEF k, n
  <2> HIDE DEF u
  <2>6. Len(T!detect_usage(s, x).states) <= MaxStates
    BY <2>3, <2>4, <2>5, CountedBounded
  <2>7. ASSUME NEW q \in Session PROVE Len(usage'[q].states) <= MaxStates
    <3>1. CASE q = s
      BY <1>2, <2>1, <2>6, <3>1
    <3>2. CASE q # s
      BY <1>0, <1>2, <2>1, <3>2 DEF Bounded
    <3>3. QED
      BY <3>1, <3>2
  <2>8. QED
    BY <2>2, <2>7 DEF Bounded
<1>6. QED
  BY <1>3, <1>4, <1>5 DEF T!Next

(***************************************************************************)
(* The services together: a step is of one of them and leaves the others   *)
(* as they are.                                                            *)
(***************************************************************************)
Inv == BenchInv /\ SpoolInv /\ LimiterInv /\ RemoteInv /\ SessionInv /\ T!TypeOK

LEMMA BenchSame == BenchInv /\ UNCHANGED benchmarkVars => BenchInv'
  BY DEF BenchInv, benchmarkVars, B!TypeOK, Behind, B!CompletedIsWhole

LEMMA SpoolSame == SpoolInv /\ UNCHANGED spoolVars => SpoolInv'
<1> SUFFICES ASSUME SpoolInv, UNCHANGED spoolVars PROVE SpoolInv'
  OBVIOUS
<1>1. lines' = lines /\ fate' = fate /\ torn' = torn
  BY DEF spoolVars
<1>2. Lost' = Lost /\ Open' = Open /\ S!TypeOK'
  BY <1>1 DEF SpoolInv, Lost, Recorded, Open, S!read_all, S!TypeOK
<1>3. QED
  BY <1>1, <1>2 DEF SpoolInv

LEMMA LimiterSame == LimiterInv /\ UNCHANGED limiterVars => LimiterInv'
<1> SUFFICES ASSUME LimiterInv, UNCHANGED limiterVars PROVE LimiterInv'
  OBVIOUS
<1>1. /\ clock' = clock /\ recent' = recent /\ counted' = counted
      /\ came' = came /\ keyed' = keyed /\ passed' = passed
  BY DEF limiterVars
<1>2. R!TypeOK'
  BY <1>1 DEF LimiterInv, R!TypeOK
<1>3. ASSUME NEW k \in R!Kind PROVE WithinRedis(k)'
  BY <1>1 DEF LimiterInv, WithinRedis, Slot
<1>4. ASSUME NEW k \in R!Kind, NEW by \in R!Backend PROVE Numbered(k, by)'
  BY <1>1 DEF LimiterInv, Numbered
<1>5. ASSUME NEW k \in R!Kind, NEW p \in Pod PROVE Mirrored(k, p)' /\ WithinMemory(k, p)'
  BY <1>1, SameMemory
<1>6. QED
  BY <1>1, <1>2, <1>3, <1>4, <1>5 DEF LimiterInv

LEMMA RemoteSame == RemoteInv /\ UNCHANGED remoteVars => RemoteInv'
<1> SUFFICES ASSUME RemoteInv, UNCHANGED remoteVars PROVE RemoteInv'
  OBVIOUS
<1>1. /\ remote' = remote /\ phase' = phase /\ attempt' = attempt /\ elapsed' = elapsed
      /\ deadline' = deadline /\ until' = until /\ overrun' = overrun /\ verdict' = verdict
  BY DEF remoteVars
<1>2. D!TypeOK' /\ (phase' = "done" => verdict' # "none")
  BY <1>1 DEF RemoteInv, D!TypeOK
<1>3. OnTime'
  BY <1>1 DEF RemoteInv, OnTime, D!wait
<1>4. QED
  BY <1>2, <1>3 DEF RemoteInv

LEMMA SessionsSame ==
    SessionInv /\ T!TypeOK /\ UNCHANGED sessionVars => SessionInv' /\ T!TypeOK'
<1> SUFFICES ASSUME SessionInv, T!TypeOK, UNCHANGED sessionVars
             PROVE  SessionInv' /\ T!TypeOK'
  OBVIOUS
<1>1. UNCHANGED <<now, bucket, prompts, usage, log>> /\ asked' = asked
  BY DEF sessionVars
<1>2. SessionInv'
  BY <1>1, SessionSame
<1>3. T!TypeOK'
  BY <1>1 DEF T!TypeOK
<1>4. QED
  BY <1>2, <1>3

LEMMA Inductive == Spec => []Inv
<1>1. Init => Inv
  BY BenchInit, SpoolInit, LimiterInit, RemoteInit, SessionInit, SessionTypeInit
     DEF Init, Inv
<1>2. Inv /\ [Next]_vars => Inv'
  <2> SUFFICES ASSUME Inv, [Next]_vars PROVE Inv'
    OBVIOUS
  <2>1. CASE Benchmark(B!Next)
    BY <2>1, BenchNext, SpoolSame, LimiterSame, RemoteSame, SessionsSame DEF Inv, Benchmark
  <2>2. CASE S!Next /\ UNCHANGED <<benchmarkVars, limiterVars, remoteVars, sessionVars>>
    BY <2>2, BenchSame, SpoolNext, LimiterSame, RemoteSame, SessionsSame DEF Inv
  <2>3. CASE R!Next /\ UNCHANGED <<benchmarkVars, spoolVars, remoteVars, sessionVars>>
    BY <2>3, BenchSame, SpoolSame, LimiterNext, RemoteSame, SessionsSame DEF Inv
  <2>4. CASE D!Next /\ UNCHANGED <<benchmarkVars, spoolVars, limiterVars, sessionVars>>
    BY <2>4, BenchSame, SpoolSame, LimiterSame, RemoteNext, SessionsSame DEF Inv
  <2>5. CASE T!Next /\ UNCHANGED <<benchmarkVars, spoolVars, limiterVars, remoteVars>>
    <3>1. SessionInv'
      BY <2>5, SessionNext DEF Inv
    <3>2. T!TypeOK'
      BY <2>5, <3>1, SessionTypeNext DEF Inv
    <3>3. QED
      BY <2>5, <3>1, <3>2, BenchSame, SpoolSame, LimiterSame, RemoteSame DEF Inv
  <2>6. CASE UNCHANGED <<benchmarkVars, spoolVars, limiterVars, remoteVars, sessionVars>>
    BY <2>6, BenchSame, SpoolSame, LimiterSame, RemoteSame, SessionsSame DEF Inv
  <2>7. QED
    BY <2>1, <2>2, <2>3, <2>4, <2>5, <2>6 DEF Next, vars
<1>3. QED
  BY <1>1, <1>2, PTL DEF Spec

\* The variables of the benchmark workers (benchmark_worker.py), the audit spool
\* (audit_sink.py), the rate limiter (rate_limit.py), a remote detector
\* (remote.py) and the detectors that remember keep their types and their
\* bounds: no worker runs past its last page, no key check is waited for by more
\* requests than came, no deque, bucket or table of states grows past its cap.
THEOREM TypeCorrect ==
    Spec => [](B!TypeOK /\ S!TypeOK /\ R!TypeOK /\ D!TypeOK /\ T!TypeOK)
<1>1. Inv => B!TypeOK /\ S!TypeOK /\ R!TypeOK /\ D!TypeOK /\ T!TypeOK
  BY DEF Inv, BenchInv, SpoolInv, LimiterInv, RemoteInv
<1>2. QED
  BY <1>1, Inductive, PTL

\* Whatever calls fail, are repeated or taken over by another runtime, a run
\* that _complete reports without an error has the results of every page with
\* samples (benchmark_worker.py, _run and _complete).
THEOREM CompletedRunIsWhole == Spec => []CompletedIsWhole
<1>1. Inv => CompletedIsWhole
  BY DEF Inv, BenchInv, CompletedIsWhole
<1>2. QED
  BY <1>1, Inductive, PTL

\* The drain (read_all) misses no more of the calls that left the boundary than
\* the spool has had torn writes, in either fail mode (audit_sink.py).
THEOREM LossIsBounded == Spec => []LossBounded
<1>1. Inv => LossBounded
  BY SpoolLoss DEF Inv
<1>2. QED
  BY <1>1, Inductive, PTL

\* No pod's memory lets more than the limit through any window, Redis not more
\* than the limit through one of its own windows and twice that through any
\* (rate_limit.py), for any number of pods and requests, any window and limit.
THEOREM RateIsBounded == Spec => []RateBounded
<1>1. Inv => RateBounded
  BY LimiterBounds DEF Inv
<1>2. QED
  BY <1>1, Inductive, PTL

\* Unless the shared loop, the resolver or the transport overran, a caller of
\* detect whose detector has a total deadline gets a verdict before its wait is
\* over (remote.py, detect and _detect_async): an attempt and a backoff never
\* outlive the budget that remains, and the grace covers what the loop may take.
THEOREM CallsKeepTheirDeadline == Spec => []ReturnsByDeadline
<1>1. Inv => ReturnsByDeadline
  BY DEF Inv, RemoteInv, OnTime, ReturnsByDeadline, D!ReturnsByDeadline
<1>2. QED
  BY <1>1, Inductive, PTL

\* The table of agent states is bounded, but a loop that runs now is caught all
\* the same: the state of the last call is the newest entry and counts the whole
\* run, whatever other states filled the table before, so RepeatAt calls on one
\* state in one window report agent_loop_state_repeat
\* (unbounded_consumption.py, "Eviction costs history, never detection of an
\* active loop").
THEOREM LoopIsCaught == Spec => []LoopCaught
<1>1. Inv => LoopCaught
  BY SessionLoops DEF Inv
<1>2. QED
  BY <1>1, Inductive, PTL

\* The bounded memories of the abuse detector answer as the whole log of the
\* session demands: _check_prompt_flood reports a prompt exactly when enough of
\* the last FloodMemory ones are copies inside the window, and the token bucket
\* lets no more than two buckets through a window (abuse.py).
THEOREM AbuseIsMatched == Spec => []AbuseMatchesLog
<1>1. Inv => AbuseMatchesLog
  BY SessionAbuse DEF Inv
<1>2. QED
  BY <1>1, Inductive, PTL
=============================================================================
