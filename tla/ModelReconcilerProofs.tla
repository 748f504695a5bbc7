----------------------- MODULE ModelReconcilerProofs -----------------------
(***************************************************************************)
(* Proofs about ModelReconciler, for every set of tasks, models, revisions *)
(* and handlers, every pin set a policy may state and every install.       *)
(***************************************************************************)
EXTENDS ModelReconciler, TLAPS

\* The lock of the reconciler: one handler at a time is inside.
Mutex ==
    \A g, h \in Handler : pc[g] \in Holding /\ pc[h] \in Holding => g = h

\* What the handler that holds the lock still has to apply and to evict covers
\* whatever is loaded and not pinned by its push.
Accounted(h) ==
    /\ lastPins = pins[h]
    /\ pc[h] # "evict" =>
          /\ todo[h] \subseteq Pinned(pins[h])
          /\ \A t \in Task, p \in Pin :
                variant[t][p] # "unloaded" => p \in {pins[h][t], previous[h][t]}
    /\ pc[h] \in {"fetch", "verify", "read"} => at[h] \in todo[h]
    /\ pc[h] = "evict" =>
          /\ todo[h] \subseteq Pinned(previous[h])
          /\ \A t \in Task, p \in Pin :
                variant[t][p] # "unloaded" =>
                    p = pins[h][t] \/ (p = previous[h][t] /\ t \in todo[h])

Ledger ==
    /\ VariantsArePinned
    /\ \A h \in Handler : pc[h] \in Holding => Accounted(h)

PinInv == TypeOK /\ Mutex /\ Ledger

\* With digests, a load carries the digest of its pin, and from the check of the
\* digest to the read of the weights the directory stays as it was checked,
\* unless the operator installs that model by hand.
Verified ==
    Digests =>
        \A h \in Handler :
            LET p == pins[h][at[h]] IN
            /\ pc[h] \in {"verify", "read"} => digest[h] = p.revision
            /\ pc[h] = "read" /\ ~Installs(p.model) => disk[p.model] = p.revision

WeightInv ==
    /\ PinInv
    /\ Verified
    /\ job \in Installable \cup {NoPin}
    /\ RightWeights

-----------------------------------------------------------------------------
\* A pin of a task is a pin.
LEMMA PinnedIsPin ==
    ASSUME NEW map \in PinMap, NEW t \in Pinned(map)
    PROVE  t \in Task /\ map[t] \in Pin /\ map[t].model \in Model /\ map[t].revision \in Revision
  BY DEF PinMap, Pinned, Pin

LEMMA NoPinsType == NoPins \in PinMap
  BY DEF NoPins, PinMap

\* A handler between its fetch and its read is at one of its pinned tasks.
LEMMA AtPin ==
    ASSUME PinInv, NEW h \in Handler, pc[h] \in {"fetch", "verify", "read"}
    PROVE  /\ at[h] \in Task /\ at[h] \in todo[h]
           /\ pins[h][at[h]] \in Pin
           /\ pins[h][at[h]].model \in Model /\ pins[h][at[h]].revision \in Revision
<1>1. pc[h] \in Holding /\ pc[h] # "evict"
  BY DEF Holding
<1>2. at[h] \in todo[h] /\ todo[h] \subseteq Pinned(pins[h])
  BY <1>1 DEF PinInv, Ledger, Accounted
<1>3. pins[h] \in PinMap
  BY DEF PinInv, TypeOK
<1>4. QED
  BY <1>2, <1>3, PinnedIsPin

LEMMA InitInv == Init => WeightInv
<1> SUFFICES ASSUME Init PROVE WeightInv
  OBVIOUS
<1>1. TypeOK
  BY NoPinsType, ReconcilerAssumption
  DEF Init, TypeOK, Holding, Content, NothingLoaded
<1>2. Mutex /\ Ledger
  BY DEF Init, Mutex, Ledger, Holding, VariantsArePinned, NothingLoaded
<1>3. Verified /\ job \in Installable \cup {NoPin}
  BY DEF Init, Verified
<1>4. RightWeights
  BY DEF Init, RightWeights, Loaded, NothingLoaded
<1>5. QED
  BY <1>1, <1>2, <1>3, <1>4 DEF WeightInv, PinInv

-----------------------------------------------------------------------------
\* Every step keeps the types.
LEMMA TypeStep == PinInv /\ [Next]_vars => TypeOK'
<1> SUFFICES ASSUME PinInv, [Next]_vars PROVE TypeOK'
  OBVIOUS
<1> USE DEF Holding
<1>t. TypeOK
  BY DEF PinInv
<1>1. ASSUME NEW d \in PinMaps \cup {Unstated}, Publish(d) PROVE TypeOK'
  BY <1>t, <1>1, ReconcilerAssumption DEF TypeOK, Publish, locals
<1>2. ASSUME NEW h \in Handler, Push(h) PROVE TypeOK'
  BY <1>t, <1>2 DEF TypeOK, Push, PushNeeded
<1>3. ASSUME NEW h \in Handler, Acquire(h) PROVE TypeOK'
  BY <1>t, <1>3 DEF TypeOK, Acquire, runtime, Pinned
<1>4. ASSUME NEW h \in Handler, FetchEnds(h) PROVE TypeOK'
  <2>1. pins[h][at[h]].model \in Model /\ pins[h][at[h]].revision \in Revision
    BY <1>4, AtPin DEF FetchEnds
  <2>2. PICK content \in Fetched(pins[h][at[h]].revision,
                                 job = NoPin \/ job.model # pins[h][at[h]].model) :
          /\ disk' = [disk EXCEPT ![pins[h][at[h]].model] = content]
          /\ \/ /\ pc' = [pc EXCEPT ![h] = "verify"]
                /\ digest' = [digest EXCEPT ![h] = content]
                /\ UNCHANGED <<pins, previous, todo, at>>
             \/ NextPin(h, at[h])
    BY <1>4 DEF FetchEnds
  <2>3. content \in Content
    BY <2>1, <2>2 DEF Fetched, Content
  <2>4. UNCHANGED <<runtime, lastPins, variant, job>>
    BY <1>4 DEF FetchEnds
  <2>5. CASE NextPin(h, at[h])
    BY <1>t, <2>1, <2>2, <2>3, <2>4, <2>5 DEF TypeOK, NextPin, runtime, Content
  <2>6. CASE /\ pc' = [pc EXCEPT ![h] = "verify"]
             /\ digest' = [digest EXCEPT ![h] = content]
             /\ UNCHANGED <<pins, previous, todo, at>>
    BY <1>t, <2>1, <2>2, <2>3, <2>4, <2>6 DEF TypeOK, runtime
  <2>7. QED
    BY <2>2, <2>5, <2>6
<1>5. ASSUME NEW h \in Handler, FetchFails(h) PROVE TypeOK'
  BY <1>t, <1>5 DEF TypeOK, FetchFails, NextPin, runtime, Content
<1>6. ASSUME NEW h \in Handler, Verify(h) PROVE TypeOK'
  <2>1. at[h] \in Task /\ pins[h][at[h]] \in Pin
    BY <1>6, AtPin DEF Verify
  <2>2. CASE UNCHANGED <<variant, pins, previous, todo, at, digest>>
    BY <1>t, <1>6, <2>2 DEF TypeOK, Verify, NextPin, runtime, Content
  <2>3. CASE SetVariant(h, "failed") /\ NextPin(h, at[h])
    <3>1. variant' \in [Task -> [Pin -> {"unloaded", "failed"} \cup Weights]]
      BY <1>t, <2>1, <2>3 DEF TypeOK, SetVariant
    <3>2. UNCHANGED <<runtime, lastPins, disk, job>>
      BY <1>6 DEF Verify
    <3>3. QED
      BY <1>t, <2>3, <3>1, <3>2 DEF TypeOK, NextPin, runtime, Content
  <2>4. QED
    BY <1>6, <2>2, <2>3 DEF Verify
<1>7. ASSUME NEW h \in Handler, Read(h) PROVE TypeOK'
  <2>1. at[h] \in Task /\ pins[h][at[h]] \in Pin /\ pins[h][at[h]].model \in Model
    BY <1>7, AtPin DEF Read
  <2>2. disk[pins[h][at[h]].model] \in Content
    BY <1>t, <2>1 DEF TypeOK
  <2>3. PICK w \in {"failed"} \cup Weights : SetVariant(h, w)
    BY <1>7, <2>2 DEF Read, Content, Weights
  <2>4. variant' \in [Task -> [Pin -> {"unloaded", "failed"} \cup Weights]]
    BY <1>t, <2>1, <2>3 DEF TypeOK, SetVariant
  <2>5. QED
    BY <1>t, <1>7, <2>4 DEF TypeOK, Read, NextPin, runtime, Content
<1>8. ASSUME NEW h \in Handler, Applied(h) PROVE TypeOK'
  BY <1>t, <1>8 DEF TypeOK, Applied, runtime, Removed, Pinned
<1>9. ASSUME NEW h \in Handler, Answer(h) PROVE TypeOK'
  BY <1>t, <1>9, NoPinsType DEF TypeOK, Answer
<1>10. ASSUME NEW h \in Handler, NEW t \in Task, Apply(h, t) PROVE TypeOK'
  <2>1. pins[h][t] \in Pin
    <3>1. t \in Pinned(pins[h]) /\ pins[h] \in PinMap
      BY <1>t, <1>10 DEF Apply, PinInv, Ledger, Accounted, TypeOK
    <3>2. QED
      BY <3>1, PinnedIsPin
  <2>2. ExpectedWhenCached(pins[h][t]) \in Content
    BY <2>1 DEF ExpectedWhenCached, Content, Pin
  <2>3. CASE NextPin(h, t)
    BY <1>t, <1>10, <2>3 DEF TypeOK, Apply, NextPin, runtime, Content
  <2>4. CASE ~NextPin(h, t)
    <3>1. /\ \/ pc' = [pc EXCEPT ![h] = "verify"] \/ pc' = [pc EXCEPT ![h] = "fetch"]
          /\ at' = [at EXCEPT ![h] = t]
          /\ \/ digest' = digest
             \/ digest' = [digest EXCEPT ![h] = ExpectedWhenCached(pins[h][t])]
          /\ UNCHANGED <<pins, previous, todo, desired, reported, call,
                         lastPins, variant, disk, job>>
      BY <1>10, <2>4 DEF Apply, runtime
    <3>2. pc' \in [Handler -> {"idle", "queued"} \cup Holding]
      BY <1>t, <3>1 DEF TypeOK, Holding
    <3>3. at' \in [Handler -> Task \cup {NoPin}] /\ digest' \in [Handler -> Content]
      BY <1>t, <2>2, <3>1 DEF TypeOK
    <3>4. QED
      BY <1>t, <3>1, <3>2, <3>3 DEF TypeOK
  <2>5. QED
    BY <2>3, <2>4
<1>11. ASSUME NEW h \in Handler, NEW t \in Task, Evict(h, t) PROVE TypeOK'
  <2>1. previous[h][t] \in Pin
    <3>1. t \in Pinned(previous[h]) /\ previous[h] \in PinMap
      BY <1>t, <1>11 DEF Evict, PinInv, Ledger, Accounted, TypeOK
    <3>2. QED
      BY <3>1, PinnedIsPin
  <2>2. variant' \in [Task -> [Pin -> {"unloaded", "failed"} \cup Weights]]
    BY <1>t, <1>11, <2>1 DEF TypeOK, Evict
  <2>3. QED
    BY <1>t, <1>11, <2>2 DEF TypeOK, Evict, runtime
<1>12. ASSUME PushFails \/ RuntimeRestarts PROVE TypeOK'
  BY <1>t, <1>12 DEF TypeOK, PushFails, RuntimeRestarts, locals
<1>13. ASSUME SidecarRestarts PROVE TypeOK'
  BY <1>t, <1>13, NoPinsType
  DEF TypeOK, SidecarRestarts, NothingLoaded, Content
<1>14. ASSUME NEW m \in Model, DownloadWrites(m) PROVE TypeOK'
  BY <1>t, <1>14 DEF TypeOK, DownloadWrites, runtime, locals, Content
<1>15. ASSUME NEW p \in Installable, Install(p) PROVE TypeOK'
  BY <1>t, <1>15, ReconcilerAssumption DEF TypeOK, Install, runtime, locals
<1>16. ASSUME InstallEnds PROVE TypeOK'
  <2>1. job \in Pin
    BY <1>t, <1>16 DEF TypeOK, InstallEnds
  <2>2. job.model \in Model /\ job.revision \in Revision
    BY <2>1 DEF Pin
  <2>3. PICK content \in Content : disk' = [disk EXCEPT ![job.model] = content]
    BY <1>t, <1>16, <2>2 DEF TypeOK, InstallEnds, Fetched, Content
  <2>4. QED
    BY <1>t, <1>16, <2>2, <2>3 DEF TypeOK, InstallEnds, runtime, locals
<1>17. ASSUME UNCHANGED vars PROVE TypeOK'
  BY <1>t, <1>17 DEF TypeOK, vars, runtime, locals
<1>18. QED
  BY <1>1, <1>2, <1>3, <1>4, <1>5, <1>6, <1>7, <1>8, <1>9, <1>10, <1>11, <1>12,
     <1>13, <1>14, <1>15, <1>16, <1>17 DEF Next, HandlerStep

-----------------------------------------------------------------------------
(***************************************************************************)
(* The ledger: what is loaded is pinned, or known to the handler that      *)
(* holds the lock.                                                         *)
(***************************************************************************)

\* Steps that touch no handler, no pin and no variant.
LEMMA LedgerQuiet ==
    ASSUME Mutex, Ledger,
           UNCHANGED <<pc, pins, previous, todo, at, lastPins, variant>>
    PROVE  Mutex' /\ Ledger'
  BY DEF Mutex, Ledger, VariantsArePinned, LockFree, Accounted, Pinned

\* Steps of a handler outside of the lock that takes no lock.
LEMMA LedgerOutside ==
    ASSUME TypeOK, Mutex, Ledger, NEW h \in Handler, pc[h] \notin Holding,
           NEW w \in {"idle", "queued"}, pc' = [pc EXCEPT ![h] = w],
           NEW q, pins' = [pins EXCEPT ![h] = q],
           UNCHANGED <<previous, todo, at, lastPins, variant>>
    PROVE  Mutex' /\ Ledger'
<1>1. pc'[h] \notin Holding /\ \A g \in Handler \ {h} : pc'[g] = pc[g] /\ pins'[g] = pins[g]
  BY DEF TypeOK, Holding
<1>2. \A g \in Handler : pc'[g] \in Holding <=> pc[g] \in Holding
  BY <1>1
<1>3. Mutex' /\ VariantsArePinned'
  BY <1>2 DEF Mutex, Ledger, VariantsArePinned, LockFree, Holding
<1>4. ASSUME NEW g \in Handler, pc'[g] \in Holding PROVE Accounted(g)'
  BY <1>1, <1>4 DEF Ledger, Accounted, Pinned
<1>5. QED
  BY <1>3, <1>4 DEF Ledger, Holding

\* Steps of the handler that holds the lock and keeps it.
LEMMA LedgerInside ==
    ASSUME TypeOK, Mutex, Ledger, NEW h \in Handler,
           pc[h] \in Holding, NEW w \in Holding, pc' = [pc EXCEPT ![h] = w],
           Accounted(h)'
    PROVE  Mutex' /\ Ledger'
<1>1. \A g \in Handler : pc'[g] \in Holding => g = h
  BY DEF TypeOK, Mutex, Holding
<1>2. pc'[h] \in Holding
  BY DEF TypeOK, Holding
<1>3. ~LockFree'
  BY <1>2 DEF LockFree, Holding
<1>4. QED
  BY <1>1, <1>3 DEF Mutex, Ledger, VariantsArePinned, Holding

\* The handler goes on to its next pin, having set at most the variant of the
\* pin it was at.
LEMMA LedgerNextPin ==
    ASSUME PinInv, NEW h \in Handler, pc[h] \in Holding, pc[h] # "evict",
           NEW t \in todo[h], NextPin(h, t), UNCHANGED lastPins,
           \A u \in Task, p \in Pin : \/ variant'[u][p] = variant[u][p]
                                      \/ p = pins[h][u]
    PROVE  Mutex' /\ Ledger'
<1>1. Accounted(h)
  BY DEF PinInv, Ledger
<1>2. pc'[h] = "apply" /\ todo'[h] = todo[h] \ {t}
  BY DEF PinInv, TypeOK, NextPin
<1>3. Accounted(h)'
  BY <1>1, <1>2 DEF Accounted, NextPin, Pinned
<1>4. QED
  BY <1>3, LedgerInside DEF PinInv, NextPin, Holding

\* SetVariant sets the variant of the handler's present pin and no other.
LEMMA SetVariantOnly ==
    ASSUME TypeOK, NEW h \in Handler, at[h] \in Task, pins[h][at[h]] \in Pin,
           NEW w, SetVariant(h, w)
    PROVE  /\ variant'[at[h]][pins[h][at[h]]] = w
           /\ \A u \in Task, p \in Pin : \/ variant'[u][p] = variant[u][p]
                                         \/ u = at[h] /\ p = pins[h][at[h]]
  BY DEF TypeOK, SetVariant

LEMMA LedgerStep == PinInv /\ [Next]_vars => Mutex' /\ Ledger'
<1> SUFFICES ASSUME PinInv, [Next]_vars PROVE Mutex' /\ Ledger'
  OBVIOUS
<1>i. TypeOK /\ Mutex /\ Ledger
  BY DEF PinInv
<1>1. ASSUME NEW d \in PinMaps \cup {Unstated}, Publish(d) PROVE Mutex' /\ Ledger'
  BY <1>i, <1>1, LedgerQuiet DEF Publish, locals
<1>2. ASSUME NEW h \in Handler, Push(h) PROVE Mutex' /\ Ledger'
  BY <1>i, <1>2, LedgerOutside DEF Push, Holding
<1>3. ASSUME NEW h \in Handler, Acquire(h) PROVE Mutex' /\ Ledger'
  <2>1. pc'[h] = "apply" /\ \A g \in Handler \ {h} : pc'[g] = pc[g] /\ pc[g] \notin Holding
    BY <1>i, <1>3 DEF TypeOK, Acquire, LockFree
  <2>2. Accounted(h)'
    BY <1>i, <1>3, <2>1
    DEF Accounted, Acquire, TypeOK, Ledger, VariantsArePinned, Pinned
  <2>3. ~LockFree'
    BY <2>1 DEF LockFree, Holding
  <2>4. QED
    BY <2>1, <2>2, <2>3 DEF Mutex, Ledger, VariantsArePinned, Holding
<1>4. ASSUME NEW h \in Handler, FetchEnds(h) \/ FetchFails(h) PROVE Mutex' /\ Ledger'
  <2>1. pc[h] = "fetch" /\ at[h] \in todo[h]
    BY <1>4, AtPin DEF FetchEnds, FetchFails
  <2>2. CASE NextPin(h, at[h])
    BY <1>4, <2>1, <2>2, LedgerNextPin DEF FetchEnds, FetchFails, Holding
  <2>3. CASE /\ pc' = [pc EXCEPT ![h] = "verify"]
             /\ UNCHANGED <<pins, previous, todo, at>>
    <3>1. Accounted(h)'
      BY <1>i, <1>4, <2>1, <2>3
      DEF Accounted, Ledger, TypeOK, FetchEnds, FetchFails, Holding, Pinned
    <3>2. QED
      BY <1>i, <2>1, <2>3, <3>1, LedgerInside DEF Holding
  <2>4. QED
    BY <1>4, <2>2, <2>3 DEF FetchEnds, FetchFails
<1>5. ASSUME NEW h \in Handler, Verify(h) \/ Read(h) PROVE Mutex' /\ Ledger'
  <2>1. /\ pc[h] \in {"verify", "read"} /\ at[h] \in todo[h]
        /\ at[h] \in Task /\ pins[h][at[h]] \in Pin
    BY <1>5, AtPin DEF Verify, Read
  <2>2. UNCHANGED lastPins
    BY <1>5 DEF Verify, Read
  <2>3. ASSUME NEW w, SetVariant(h, w), NextPin(h, at[h]) PROVE Mutex' /\ Ledger'
    <3>1. \A u \in Task, p \in Pin : variant'[u][p] = variant[u][p] \/ p = pins[h][u]
      BY <1>i, <2>1, <2>3, SetVariantOnly
    <3>2. QED
      BY <2>1, <2>2, <2>3, <3>1, LedgerNextPin DEF Holding
  <2>4. CASE /\ pc' = [pc EXCEPT ![h] = "read"]
             /\ UNCHANGED <<variant, pins, previous, todo, at, digest>>
    <3>1. Accounted(h)'
      BY <1>i, <2>1, <2>2, <2>4 DEF Accounted, Ledger, TypeOK, Holding, Pinned
    <3>2. QED
      BY <1>i, <2>1, <2>4, <3>1, LedgerInside DEF Holding
  <2>5. QED
    BY <1>5, <2>3, <2>4 DEF Verify, Read
<1>6. ASSUME NEW h \in Handler, Applied(h) PROVE Mutex' /\ Ledger'
  <2>1. Accounted(h)'
    BY <1>i, <1>6, ReconcilerAssumption
    DEF Accounted, Ledger, Applied, TypeOK, Holding, Pinned, Removed
  <2>2. QED
    BY <1>i, <1>6, <2>1, LedgerInside DEF Applied, Holding
<1>7. ASSUME NEW h \in Handler, Answer(h) PROVE Mutex' /\ Ledger'
  <2>1. pc[h] \in Holding /\ Accounted(h)
    BY <1>i, <1>7 DEF Answer, Ledger, Holding
  <2>2. \A g \in Handler : pc'[g] \notin Holding
    BY <1>i, <1>7, <2>1 DEF TypeOK, Mutex, Answer, Holding
  <2>3. \A t \in Task, p \in Pin : variant'[t][p] # "unloaded" => lastPins'[t] = p
    BY <1>7, <2>1 DEF Answer, Accounted
  <2>4. QED
    BY <2>2, <2>3 DEF Mutex, Ledger, VariantsArePinned, Holding
<1>8. ASSUME NEW h \in Handler, NEW t \in Task, Apply(h, t) PROVE Mutex' /\ Ledger'
  <2>1. pc[h] = "apply" /\ t \in todo[h] /\ UNCHANGED <<lastPins, variant>>
    BY <1>8 DEF Apply
  <2>2. CASE NextPin(h, t)
    BY <2>1, <2>2, LedgerNextPin DEF Holding
  <2>3. CASE /\ pc' = [pc EXCEPT ![h] = "verify"] \/ pc' = [pc EXCEPT ![h] = "fetch"]
             /\ at' = [at EXCEPT ![h] = t]
             /\ UNCHANGED <<pins, previous, todo>>
    <3>1. Accounted(h)'
      BY <1>i, <2>1, <2>3 DEF Accounted, Ledger, TypeOK, Holding, Pinned
    <3>2. QED
      BY <1>i, <2>1, <2>3, <3>1, LedgerInside DEF Holding
  <2>4. QED
    BY <1>8, <2>2, <2>3 DEF Apply
<1>9. ASSUME NEW h \in Handler, NEW t \in Task, Evict(h, t) PROVE Mutex' /\ Ledger'
  <2>1. pc[h] = "evict" /\ t \in todo[h] /\ Accounted(h)
    BY <1>i, <1>9 DEF Evict, Ledger, Holding
  <2>2. previous[h][t] \in Pin
    BY <1>i, <2>1, PinnedIsPin DEF Accounted, TypeOK
  <2>3. /\ variant'[t][previous[h][t]] = "unloaded"
        /\ \A u \in Task, p \in Pin : \/ variant'[u][p] = variant[u][p]
                                      \/ u = t /\ p = previous[h][t]
    BY <1>i, <1>9, <2>2 DEF TypeOK, Evict
  <2>4. todo'[h] = todo[h] \ {t} /\ UNCHANGED <<pc, pins, previous, at, lastPins>>
    BY <1>i, <1>9 DEF TypeOK, Evict
  <2>5. Accounted(h)'
    BY <2>1, <2>3, <2>4 DEF Accounted, Pinned
  <2>6. pc' = [pc EXCEPT ![h] = "evict"]
    BY <1>i, <2>1, <2>4 DEF TypeOK
  <2>7. QED
    BY <1>i, <2>1, <2>5, <2>6, LedgerInside DEF Holding
<1>10. ASSUME PushFails \/ RuntimeRestarts \/ InstallEnds PROVE Mutex' /\ Ledger'
  BY <1>i, <1>10, LedgerQuiet DEF PushFails, RuntimeRestarts, InstallEnds, locals
<1>11. ASSUME SidecarRestarts PROVE Mutex' /\ Ledger'
  BY <1>11 DEF SidecarRestarts, Mutex, Ledger, VariantsArePinned, NothingLoaded, Holding
<1>12. ASSUME NEW m \in Model, DownloadWrites(m) PROVE Mutex' /\ Ledger'
  BY <1>i, <1>12, LedgerQuiet DEF DownloadWrites, locals
<1>13. ASSUME NEW p \in Installable, Install(p) PROVE Mutex' /\ Ledger'
  BY <1>i, <1>13, LedgerQuiet DEF Install, locals
<1>14. ASSUME UNCHANGED vars PROVE Mutex' /\ Ledger'
  BY <1>i, <1>14, LedgerQuiet DEF vars, locals
<1>15. QED
  BY <1>1, <1>2, <1>3, <1>4, <1>5, <1>6, <1>7, <1>8, <1>9, <1>10, <1>11, <1>12,
     <1>13, <1>14 DEF Next, HandlerStep

-----------------------------------------------------------------------------
(***************************************************************************)
(* The weights: between the check of a directory and its read nobody but   *)
(* an install by hand writes it.                                           *)
(***************************************************************************)

\* Steps that load nothing, after which no more handlers load than before.
LEMMA WeightsQuiet ==
    ASSUME WeightInv, UNCHANGED <<pins, at, digest, variant>>,
           \A h \in Handler : pc'[h] \in {"verify", "read"} => pc'[h] = pc[h],
           \A h \in Handler : pc[h] = "read" =>
               \/ Installs(pins[h][at[h]].model)
               \/ disk'[pins[h][at[h]].model] = disk[pins[h][at[h]].model]
    PROVE  Verified' /\ RightWeights'
  BY DEF WeightInv, Verified, RightWeights, Loaded, Installs

\* The only handler in the lock goes on to its next pin and the weights it has
\* set, if any, are those of the pin.
LEMMA WeightsNextPin ==
    ASSUME WeightInv, NEW h \in Handler, pc[h] \in Holding, NEW t, NextPin(h, t),
           Digests => \A u \in Task, p \in Pin :
               \/ variant'[u][p] = variant[u][p]
               \/ variant'[u][p] = "failed"
               \/ variant'[u][p] = p.revision
               \/ Installs(p.model)
    PROVE  Verified' /\ RightWeights'
<1>1. \A g \in Handler : pc'[g] \notin {"verify", "read"}
  BY DEF WeightInv, PinInv, TypeOK, Mutex, NextPin, Holding
<1>2. QED
  BY <1>1 DEF WeightInv, Verified, RightWeights, Loaded, Installs

\* The only handler in the lock begins to load a pin, with its digest.
LEMMA WeightsBegin ==
    ASSUME WeightInv, NEW h \in Handler, pc[h] \in Holding,
           pc' = [pc EXCEPT ![h] = "verify"], UNCHANGED <<pins, variant>>,
           Digests => digest'[h] = pins[h][at'[h]].revision
    PROVE  Verified' /\ RightWeights'
<1>1. \A g \in Handler : /\ pc'[g] # "read"
                         /\ pc'[g] = "verify" => g = h
  BY DEF WeightInv, PinInv, TypeOK, Mutex, Holding
<1>2. QED
  BY <1>1 DEF WeightInv, Verified, RightWeights, Loaded, Installs

LEMMA WeightStep ==
    WeightInv /\ [Next]_vars => Verified' /\ RightWeights' /\ job' \in Installable \cup {NoPin}
<1> SUFFICES ASSUME WeightInv, [Next]_vars
             PROVE  Verified' /\ RightWeights' /\ job' \in Installable \cup {NoPin}
  OBVIOUS
<1> DEFINE Goal == Verified' /\ RightWeights' /\ job' \in Installable \cup {NoPin}
<1>i. PinInv /\ TypeOK /\ Mutex /\ job \in Installable \cup {NoPin}
  BY DEF WeightInv, PinInv
<1>1. ASSUME NEW d \in PinMaps \cup {Unstated}, Publish(d) PROVE Goal
  BY <1>i, <1>1, WeightsQuiet DEF Publish, locals
<1>2. ASSUME NEW h \in Handler, Push(h) PROVE Goal
  <2>1. \A g \in Handler : pc'[g] \in {"verify", "read"} => pc'[g] = pc[g] /\ g # h
    BY <1>i, <1>2 DEF TypeOK, Push
  <2>2. \A g \in Handler : g # h => pins'[g] = pins[g]
    BY <1>i, <1>2 DEF TypeOK, Push
  <2>3. QED
    BY <1>i, <1>2, <2>1, <2>2 DEF Push, WeightInv, Verified, RightWeights, Loaded, Installs
<1>3. ASSUME NEW h \in Handler, Acquire(h) \/ Applied(h) PROVE Goal
  BY <1>i, <1>3, WeightsQuiet DEF Acquire, Applied, TypeOK
<1>4. ASSUME NEW h \in Handler, FetchEnds(h) PROVE Goal
  <2>1. pc[h] \in Holding /\ UNCHANGED <<variant, job>>
    BY <1>4 DEF FetchEnds, Holding
  <2>2. CASE NextPin(h, at[h])
    BY <1>i, <2>1, <2>2, WeightsNextPin
  <2>3. CASE ~NextPin(h, at[h])
    <3>1. /\ pc' = [pc EXCEPT ![h] = "verify"] /\ UNCHANGED <<pins, at>>
          /\ Digests => digest' = [digest EXCEPT ![h] = pins[h][at[h]].revision]
      BY <1>4, <2>3 DEF FetchEnds, DigestAccepted
    <3>2. QED
      BY <1>i, <2>1, <3>1, WeightsBegin DEF TypeOK
  <2>4. QED
    BY <2>2, <2>3
<1>5. ASSUME NEW h \in Handler, FetchFails(h) PROVE Goal
  BY <1>i, <1>5, WeightsNextPin DEF FetchFails, Holding
<1>6. ASSUME NEW h \in Handler, Verify(h) PROVE Goal
  <2>1. /\ pc[h] = "verify" /\ at[h] \in Task /\ pins[h][at[h]] \in Pin
        /\ pins[h][at[h]].revision \in Revision
    BY <1>i, <1>6, AtPin DEF Verify
  <2>2. UNCHANGED <<disk, job>>
    BY <1>6 DEF Verify
  <2>3. CASE SetVariant(h, "failed") /\ NextPin(h, at[h])
    <3>1. \A u \in Task, p \in Pin : variant'[u][p] \in {variant[u][p], "failed"}
      BY <1>i, <2>1, <2>3, SetVariantOnly
    <3>2. QED
      BY <1>i, <2>1, <2>2, <2>3, <3>1, WeightsNextPin DEF Holding
  <2>4. CASE /\ pc' = [pc EXCEPT ![h] = "read"]
             /\ digest[h] \in {Absent, disk[pins[h][at[h]].model]}
             /\ UNCHANGED <<variant, pins, previous, todo, at, digest>>
    <3>1. Digests => digest[h] = pins[h][at[h]].revision
      BY <2>1 DEF WeightInv, Verified
    <3>2. Digests => disk[pins[h][at[h]].model] = pins[h][at[h]].revision
      BY <2>1, <2>4, <3>1, ReconcilerAssumption
    <3>3. \A g \in Handler : pc'[g] \in {"verify", "read"} => g = h
      BY <1>i, <2>1, <2>4 DEF TypeOK, Mutex, Holding
    <3>4. Verified'
      BY <2>2, <2>4, <3>1, <3>2, <3>3 DEF Verified, Installs
    <3>5. QED
      BY <1>i, <2>2, <2>4, <3>4 DEF WeightInv, RightWeights, Loaded, Installs
  <2>5. QED
    BY <1>6, <2>3, <2>4 DEF Verify
<1>7. ASSUME NEW h \in Handler, Read(h) PROVE Goal
  <2> DEFINE pin == pins[h][at[h]]
  <2>1. pc[h] = "read" /\ at[h] \in Task /\ pin \in Pin
    BY <1>i, <1>7, AtPin DEF Read
  <2>2. PICK w \in {"failed", disk[pin.model]} : SetVariant(h, w)
    BY <1>7 DEF Read
  <2>3. Digests /\ ~Installs(pin.model) => disk[pin.model] = pin.revision
    BY <2>1 DEF WeightInv, Verified
  <2>4. \A u \in Task, p \in Pin :
            variant'[u][p] = variant[u][p] \/ (p = pin /\ variant'[u][p] = w)
    BY <1>i, <2>1, <2>2, SetVariantOnly
  <2>5. NextPin(h, at[h]) /\ UNCHANGED job
    BY <1>7 DEF Read
  <2>6. Digests => \A u \in Task, p \in Pin :
            \/ variant'[u][p] = variant[u][p]
            \/ variant'[u][p] = "failed"
            \/ variant'[u][p] = p.revision
            \/ Installs(p.model)
    BY <2>2, <2>3, <2>4
  <2>7. Verified' /\ RightWeights'
    BY <2>1, <2>5, <2>6, WeightsNextPin DEF Holding
  <2>8. QED
    BY <1>i, <2>5, <2>7
<1>8. ASSUME NEW h \in Handler, Answer(h) PROVE Goal
  <2>1. \A g \in Handler : pc'[g] \notin {"verify", "read"}
    BY <1>i, <1>8 DEF TypeOK, Mutex, Answer, Holding
  <2>2. QED
    BY <1>i, <1>8, <2>1 DEF Answer, WeightInv, Verified, RightWeights, Loaded, Installs
<1>9. ASSUME NEW h \in Handler, NEW t \in Task, Apply(h, t) PROVE Goal
  <2>1. pc[h] \in Holding /\ UNCHANGED <<variant, disk, job>>
    BY <1>9 DEF Apply, Holding
  <2>2. CASE NextPin(h, t)
    BY <1>i, <2>1, <2>2, WeightsNextPin
  <2>3. CASE /\ pc' = [pc EXCEPT ![h] = "verify"]
             /\ at' = [at EXCEPT ![h] = t]
             /\ digest' = [digest EXCEPT ![h] = ExpectedWhenCached(pins[h][t])]
             /\ UNCHANGED pins
    BY <1>i, <2>1, <2>3, WeightsBegin DEF TypeOK, ExpectedWhenCached
  <2>4. CASE /\ pc' = [pc EXCEPT ![h] = "fetch"] /\ UNCHANGED pins
    <3>1. \A g \in Handler : pc'[g] \notin {"verify", "read"}
      BY <1>i, <2>1, <2>4 DEF TypeOK, Mutex, Holding
    <3>2. QED
      BY <1>i, <2>1, <3>1 DEF WeightInv, Verified, RightWeights, Loaded, Installs
  <2>5. QED
    BY <1>9, <2>2, <2>3, <2>4 DEF Apply
<1>10. ASSUME NEW h \in Handler, NEW t \in Task, Evict(h, t) PROVE Goal
  <2>1. previous[h][t] \in Pin
    <3>1. t \in Pinned(previous[h]) /\ previous[h] \in PinMap
      BY <1>i, <1>10 DEF Evict, PinInv, Ledger, Accounted, TypeOK, Holding
    <3>2. QED
      BY <3>1, PinnedIsPin
  <2>2. \A u \in Task, p \in Pin : variant'[u][p] \in {variant[u][p], "unloaded"}
    BY <1>i, <1>10, <2>1 DEF TypeOK, Evict
  <2>3. QED
    BY <1>i, <1>10, <2>2 DEF Evict, WeightInv, Verified, RightWeights, Loaded, Installs
<1>11. ASSUME PushFails \/ RuntimeRestarts PROVE Goal
  BY <1>i, <1>11, WeightsQuiet DEF PushFails, RuntimeRestarts, locals
<1>12. ASSUME SidecarRestarts PROVE Goal
  BY <1>12 DEF SidecarRestarts, Verified, RightWeights, Loaded, NothingLoaded
<1>13. ASSUME NEW m \in Model, DownloadWrites(m) PROVE Goal
  <2>1. ASSUME NEW h \in Handler, pc[h] = "read"
        PROVE  \/ Installs(pins[h][at[h]].model)
               \/ disk'[pins[h][at[h]].model] = disk[pins[h][at[h]].model]
    <3>1. Writers(m) = {}
      BY <1>i, <2>1 DEF Writers, Mutex, Holding
    <3>2. job \in Installable /\ job.model = m
      BY <1>i, <1>13, <3>1 DEF DownloadWrites
    <3>3. Installs(m)
      BY <3>2 DEF Installs
    <3>4. QED
      BY <1>i, <1>13, <3>3 DEF DownloadWrites, TypeOK
  <2>2. QED
    BY <1>i, <1>13, <2>1, WeightsQuiet DEF DownloadWrites, locals
<1>14. ASSUME NEW p \in Installable, Install(p) PROVE Goal
  BY <1>i, <1>14, WeightsQuiet DEF Install, locals
<1>15. ASSUME InstallEnds PROVE Goal
  <2>1. job \in Installable
    BY <1>i, <1>15 DEF InstallEnds
  <2>2. \A n : Installs(n) \/ disk'[n] = disk[n] \/ n \notin Model
    BY <1>i, <1>15, <2>1 DEF InstallEnds, TypeOK, Installs
  <2>3. \A h \in Handler : pc[h] = "read" => pins[h][at[h]].model \in Model
    BY <1>i, AtPin
  <2>4. QED
    BY <1>i, <1>15, <2>2, <2>3, WeightsQuiet DEF InstallEnds, locals
<1>16. ASSUME UNCHANGED vars PROVE Goal
  BY <1>i, <1>16, WeightsQuiet DEF vars, locals
<1>17. QED
  BY <1>1, <1>2, <1>3, <1>4, <1>5, <1>6, <1>7, <1>8, <1>9, <1>10, <1>11, <1>12,
     <1>13, <1>14, <1>15, <1>16 DEF Next, HandlerStep

-----------------------------------------------------------------------------
LEMMA Invariance == Spec => []WeightInv
<1>1. WeightInv /\ [Next]_vars => WeightInv'
  BY TypeStep, LedgerStep, WeightStep DEF WeightInv, PinInv
<1>2. QED
  BY InitInv, <1>1, PTL DEF Spec

\* The state of the runtime, the handlers, the directories and the variants has
\* its type whatever pins are pushed: in particular a handler that fetches,
\* verifies or reads has a pin to do it for.
THEOREM TypeCorrect == Spec => []TypeOK
<1>1. WeightInv => TypeOK
  BY DEF WeightInv, PinInv
<1>2. QED
  BY <1>1, Invariance, PTL

\* For any number of tasks, pins and queued pushes: when no reconcile is under
\* way, nothing is loaded that the last push did not pin, although eviction
\* only compares the last two pushes.
THEOREM PinnedOnly == Spec => []VariantsArePinned
<1>1. WeightInv => VariantsArePinned
  BY DEF WeightInv, PinInv, Ledger
<1>2. QED
  BY <1>1, Invariance, PTL

\* With digests in the pins, a model that is not installed by hand is loaded
\* from the artifact its pin names, whatever downloads left behind.
THEOREM WeightsRight == Spec => []RightWeights
<1>1. WeightInv => RightWeights
  BY DEF WeightInv
<1>2. QED
  BY <1>1, Invariance, PTL
=============================================================================
