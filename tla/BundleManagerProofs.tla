------------------------ MODULE BundleManagerProofs ------------------------
(***************************************************************************)
(* Proofs about BundleManager, for every set of bundles, every mode and    *)
(* fail mode, with or without required signatures, every number of boot    *)
(* attempts, with or without disk faults and with whatever an outsider     *)
(* leaves in the cache file.                                               *)
(***************************************************************************)
EXTENDS BundleManager, TLAPS

(***************************************************************************)
(* The inductive invariant.                                                *)
(***************************************************************************)

\* Where every bundle in memory, in flight or on disk comes from.
Provenance ==
    /\ published \in history \cup {None}
    /\ policyFile \in Policy => policyFile \in history
    /\ reply \in history \cup {None}
    /\ bundle \in (Valid \cap (history \cup planted)) \cup {None}
    /\ cache \in Valid => cache \in history \cup planted
    /\ config.require_signed => planted \subseteq history
    /\ resolver # None => resolver \in history

\* What the control state says of the memory.
Phases ==
    /\ pc \in {"off", "dead"} =>
          bundle = None /\ etag = None /\ resolver = None /\ fetch = "idle"
    /\ pc = "fallback" => fetch = "idle"
    /\ fetch # "idle" => config.mode = "managed"
    /\ pc = "fallback" => config.mode = "managed"
    /\ pc = "booting" => resolver = None
    /\ pc = "booting" /\ config.mode = "local" => bundle = None /\ etag = None
    /\ resolver # None => config.mode = "local" /\ bundle = None
    /\ fetch \in Saving => reply \in Valid /\ bundle = reply
    /\ fetch = "replied" /\ reply = None => etag # None
    /\ etag # None => bundle # None

\* What holds besides when no file operation fails: a boot that has not yet
\* reached a save knows no bundle and no etag.
FaultFree ==
    ~config.disk_fails =>
        /\ pc \in {"booting", "fallback"} /\ fetch \notin Saving =>
              bundle = None /\ etag = None
        /\ EtagNamesBundle
        /\ RestartServesSame

IInv == TypeOK /\ Provenance /\ Phases /\ FailClosedHasPolicy /\ FaultFree

USE ConstantAssumption DEF Policy, Config, Special, Saving, vars, server, disk, fetcher,
                           memory, cycles

\* The initial states satisfy the invariant.
LEMMA InitIInv == Init => IInv
  BY DEF Init, IInv, TypeOK, Provenance, Phases, FailClosedHasPolicy, is_ready,
         FaultFree, EtagNamesBundle, RestartServesSame

\* Every step preserves the types.
LEMMA TypeStep ==
    TypeOK /\ [Next]_vars => TypeOK'
<1> SUFFICES ASSUME TypeOK, [Next]_vars PROVE TypeOK'
  OBVIOUS
<1> USE DEF TypeOK
<1>1. TypeOK'
  <2>1. CASE Start
    BY <2>1 DEF Start
  <2>2. CASE LoadLocal
    BY <2>2 DEF LoadLocal, BootSucceeds, BootRaises, ApplyFailMode, spawn_cycle
  <2>3. CASE LoadCached
    BY <2>3 DEF LoadCached, CacheUsable, BootSucceeds, BootRaises, ApplyFailMode, spawn_cycle
  <2>4. CASE FetchSend
    BY <2>4 DEF FetchSend
  <2>5. CASE FetchFails
    BY <2>5 DEF FetchFails, FetchEnds, AttemptsLeft, BootSucceeds, spawn_cycle
  <2>6. CASE FetchApplies
    BY <2>6 DEF FetchApplies, RejectReply, FetchEnds, AttemptsLeft, BootSucceeds, spawn_cycle
  <2>7. CASE SaveBackup
    BY <2>7 DEF SaveBackup
  <2>8. CASE SaveWriteTemp
    BY <2>8 DEF SaveWriteTemp
  <2>9. CASE SaveReplace
    BY <2>9 DEF SaveReplace, FetchEnds, AttemptsLeft, BootSucceeds, spawn_cycle
  <2>10. CASE SaveFails
    BY <2>10 DEF SaveFails, FetchEnds, AttemptsLeft, BootSucceeds, spawn_cycle
  <2>11. CASE CycleStart
    BY <2>11 DEF CycleStart, active_policy_for_listeners
  <2>12. CASE CycleEnd
    BY <2>12 DEF CycleEnd
  <2>13. CASE Stop
    BY <2>13 DEF Stop, MemoryLost
  <2>14. CASE Crash
    BY <2>14 DEF Crash, MemoryLost
  <2>15. CASE ServerReplies
    BY <2>15 DEF ServerReplies
  <2>16. ASSUME NEW b \in Bundle, Publish(b) PROVE TypeOK'
    BY <2>16 DEF Publish
  <2>17. ASSUME NEW v \in Damage, DamageCache(v) PROVE TypeOK'
    BY <2>17 DEF DamageCache
  <2>18. ASSUME NEW f \in PolicyFiles, EditPolicyFile(f) PROVE TypeOK'
    BY <2>18 DEF EditPolicyFile
  <2>19. CASE UNCHANGED vars
    BY <2>19
  <2>20. QED
    BY <2>1, <2>2, <2>3, <2>4, <2>5, <2>6, <2>7, <2>8, <2>9, <2>10, <2>11, <2>12, <2>13, <2>14, <2>15, <2>16, <2>17, <2>18, <2>19 DEF Next
<1>2. QED BY <1>1

\* Every step keeps bundles to those that were published and validated.
LEMMA ProvenanceStep ==
    TypeOK /\ Provenance /\ Phases /\ [Next]_vars => Provenance'
<1> SUFFICES ASSUME TypeOK /\ Provenance /\ Phases, [Next]_vars PROVE Provenance'
  OBVIOUS
<1> USE DEF TypeOK, Provenance, Phases
<1>1. Provenance'
  <2>1. CASE Start
    BY <2>1 DEF Start
  <2>2. CASE LoadLocal
    BY <2>2 DEF LoadLocal, BootSucceeds, BootRaises, ApplyFailMode, spawn_cycle
  <2>3. CASE LoadCached
    BY <2>3 DEF LoadCached, CacheUsable, BootSucceeds, BootRaises, ApplyFailMode, spawn_cycle
  <2>4. CASE FetchSend
    BY <2>4 DEF FetchSend
  <2>5. CASE FetchFails
    BY <2>5 DEF FetchFails, FetchEnds, AttemptsLeft, BootSucceeds, spawn_cycle
  <2>6. CASE FetchApplies
    BY <2>6 DEF FetchApplies, RejectReply, FetchEnds, AttemptsLeft, BootSucceeds, spawn_cycle
  <2>7. CASE SaveBackup
    BY <2>7 DEF SaveBackup
  <2>8. CASE SaveWriteTemp
    BY <2>8 DEF SaveWriteTemp
  <2>9. CASE SaveReplace
    BY <2>9 DEF SaveReplace, FetchEnds, AttemptsLeft, BootSucceeds, spawn_cycle
  <2>10. CASE SaveFails
    BY <2>10 DEF SaveFails, FetchEnds, AttemptsLeft, BootSucceeds, spawn_cycle
  <2>11. CASE CycleStart
    BY <2>11 DEF CycleStart, active_policy_for_listeners
  <2>12. CASE CycleEnd
    BY <2>12 DEF CycleEnd
  <2>13. CASE Stop
    BY <2>13 DEF Stop, MemoryLost
  <2>14. CASE Crash
    BY <2>14 DEF Crash, MemoryLost
  <2>15. CASE ServerReplies
    BY <2>15 DEF ServerReplies
  <2>16. ASSUME NEW b \in Bundle, Publish(b) PROVE Provenance'
    BY <2>16 DEF Publish
  <2>17. ASSUME NEW v \in Damage, DamageCache(v) PROVE Provenance'
    BY <2>17 DEF DamageCache
  <2>18. ASSUME NEW f \in PolicyFiles, EditPolicyFile(f) PROVE Provenance'
    BY <2>18 DEF EditPolicyFile
  <2>19. CASE UNCHANGED vars
    BY <2>19
  <2>20. QED
    BY <2>1, <2>2, <2>3, <2>4, <2>5, <2>6, <2>7, <2>8, <2>9, <2>10, <2>11, <2>12, <2>13, <2>14, <2>15, <2>16, <2>17, <2>18, <2>19 DEF Next
<1>2. QED BY <1>1

\* Every step keeps the memory in line with the control state.
LEMMA PhasesStep ==
    TypeOK /\ Provenance /\ Phases /\ [Next]_vars => Phases'
<1> SUFFICES ASSUME TypeOK /\ Provenance /\ Phases, [Next]_vars PROVE Phases'
  OBVIOUS
<1> USE DEF TypeOK, Provenance, Phases
<1>1. Phases'
  <2>1. CASE Start
    BY <2>1 DEF Start
  <2>2. CASE LoadLocal
    BY <2>2 DEF LoadLocal, BootSucceeds, BootRaises, ApplyFailMode, spawn_cycle
  <2>3. CASE LoadCached
    BY <2>3 DEF LoadCached, CacheUsable, BootSucceeds, BootRaises, ApplyFailMode, spawn_cycle
  <2>4. CASE FetchSend
    BY <2>4 DEF FetchSend
  <2>5. CASE FetchFails
    BY <2>5 DEF FetchFails, FetchEnds, AttemptsLeft, BootSucceeds, spawn_cycle
  <2>6. CASE FetchApplies
    BY <2>6 DEF FetchApplies, RejectReply, FetchEnds, AttemptsLeft, BootSucceeds, spawn_cycle
  <2>7. CASE SaveBackup
    BY <2>7 DEF SaveBackup
  <2>8. CASE SaveWriteTemp
    BY <2>8 DEF SaveWriteTemp
  <2>9. CASE SaveReplace
    BY <2>9 DEF SaveReplace, FetchEnds, AttemptsLeft, BootSucceeds, spawn_cycle
  <2>10. CASE SaveFails
    BY <2>10 DEF SaveFails, FetchEnds, AttemptsLeft, BootSucceeds, spawn_cycle
  <2>11. CASE CycleStart
    BY <2>11 DEF CycleStart, active_policy_for_listeners
  <2>12. CASE CycleEnd
    BY <2>12 DEF CycleEnd
  <2>13. CASE Stop
    BY <2>13 DEF Stop, MemoryLost
  <2>14. CASE Crash
    BY <2>14 DEF Crash, MemoryLost
  <2>15. CASE ServerReplies
    BY <2>15 DEF ServerReplies
  <2>16. ASSUME NEW b \in Bundle, Publish(b) PROVE Phases'
    BY <2>16 DEF Publish
  <2>17. ASSUME NEW v \in Damage, DamageCache(v) PROVE Phases'
    BY <2>17 DEF DamageCache
  <2>18. ASSUME NEW f \in PolicyFiles, EditPolicyFile(f) PROVE Phases'
    BY <2>18 DEF EditPolicyFile
  <2>19. CASE UNCHANGED vars
    BY <2>19
  <2>20. QED
    BY <2>1, <2>2, <2>3, <2>4, <2>5, <2>6, <2>7, <2>8, <2>9, <2>10, <2>11, <2>12, <2>13, <2>14, <2>15, <2>16, <2>17, <2>18, <2>19 DEF Next
<1>2. QED BY <1>1

\* Every step that ends a boot under fail-closed has found a policy.
LEMMA FailClosedStep ==
    TypeOK /\ Provenance /\ Phases /\ FailClosedHasPolicy /\ [Next]_vars => FailClosedHasPolicy'
<1> SUFFICES ASSUME TypeOK /\ Provenance /\ Phases /\ FailClosedHasPolicy, [Next]_vars PROVE FailClosedHasPolicy'
  OBVIOUS
<1> USE DEF TypeOK, Provenance, Phases, FailClosedHasPolicy, is_ready
<1>1. FailClosedHasPolicy'
  <2>1. CASE Start
    BY <2>1 DEF Start
  <2>2. CASE LoadLocal
    BY <2>2 DEF LoadLocal, BootSucceeds, BootRaises, ApplyFailMode, spawn_cycle
  <2>3. CASE LoadCached
    BY <2>3 DEF LoadCached, CacheUsable, BootSucceeds, BootRaises, ApplyFailMode, spawn_cycle
  <2>4. CASE FetchSend
    BY <2>4 DEF FetchSend
  <2>5. CASE FetchFails
    BY <2>5 DEF FetchFails, FetchEnds, AttemptsLeft, BootSucceeds, spawn_cycle
  <2>6. CASE FetchApplies
    BY <2>6 DEF FetchApplies, RejectReply, FetchEnds, AttemptsLeft, BootSucceeds, spawn_cycle
  <2>7. CASE SaveBackup
    BY <2>7 DEF SaveBackup
  <2>8. CASE SaveWriteTemp
    BY <2>8 DEF SaveWriteTemp
  <2>9. CASE SaveReplace
    BY <2>9 DEF SaveReplace, FetchEnds, AttemptsLeft, BootSucceeds, spawn_cycle
  <2>10. CASE SaveFails
    BY <2>10 DEF SaveFails, FetchEnds, AttemptsLeft, BootSucceeds, spawn_cycle
  <2>11. CASE CycleStart
    BY <2>11 DEF CycleStart, active_policy_for_listeners
  <2>12. CASE CycleEnd
    BY <2>12 DEF CycleEnd
  <2>13. CASE Stop
    BY <2>13 DEF Stop, MemoryLost
  <2>14. CASE Crash
    BY <2>14 DEF Crash, MemoryLost
  <2>15. CASE ServerReplies
    BY <2>15 DEF ServerReplies
  <2>16. ASSUME NEW b \in Bundle, Publish(b) PROVE FailClosedHasPolicy'
    BY <2>16 DEF Publish
  <2>17. ASSUME NEW v \in Damage, DamageCache(v) PROVE FailClosedHasPolicy'
    BY <2>17 DEF DamageCache
  <2>18. ASSUME NEW f \in PolicyFiles, EditPolicyFile(f) PROVE FailClosedHasPolicy'
    BY <2>18 DEF EditPolicyFile
  <2>19. CASE UNCHANGED vars
    BY <2>19
  <2>20. QED
    BY <2>1, <2>2, <2>3, <2>4, <2>5, <2>6, <2>7, <2>8, <2>9, <2>10, <2>11, <2>12, <2>13, <2>14, <2>15, <2>16, <2>17, <2>18, <2>19 DEF Next
<1>2. QED BY <1>1

\* Without disk faults every step keeps etag, bundle and cache together.
LEMMA FaultFreeStep ==
    TypeOK /\ Provenance /\ Phases /\ FaultFree /\ [Next]_vars => FaultFree'
<1> SUFFICES ASSUME TypeOK /\ Provenance /\ Phases /\ FaultFree, [Next]_vars PROVE FaultFree'
  OBVIOUS
<1> USE DEF TypeOK, Provenance, Phases, FaultFree, EtagNamesBundle, RestartServesSame
<1>1. FaultFree'
  <2>1. CASE Start
    BY <2>1 DEF Start
  <2>2. CASE LoadLocal
    BY <2>2 DEF LoadLocal, BootSucceeds, BootRaises, ApplyFailMode, spawn_cycle
  <2>3. CASE LoadCached
    BY <2>3 DEF LoadCached, CacheUsable, BootSucceeds, BootRaises, ApplyFailMode, spawn_cycle
  <2>4. CASE FetchSend
    BY <2>4 DEF FetchSend
  <2>5. CASE FetchFails
    BY <2>5 DEF FetchFails, FetchEnds, AttemptsLeft, BootSucceeds, spawn_cycle
  <2>6. CASE FetchApplies
    BY <2>6 DEF FetchApplies, RejectReply, FetchEnds, AttemptsLeft, BootSucceeds, spawn_cycle
  <2>7. CASE SaveBackup
    BY <2>7 DEF SaveBackup
  <2>8. CASE SaveWriteTemp
    BY <2>8 DEF SaveWriteTemp
  <2>9. CASE SaveReplace
    BY <2>9 DEF SaveReplace, FetchEnds, AttemptsLeft, BootSucceeds, spawn_cycle
  <2>10. CASE SaveFails
    BY <2>10 DEF SaveFails, FetchEnds, AttemptsLeft, BootSucceeds, spawn_cycle
  <2>11. CASE CycleStart
    BY <2>11 DEF CycleStart, active_policy_for_listeners
  <2>12. CASE CycleEnd
    BY <2>12 DEF CycleEnd
  <2>13. CASE Stop
    BY <2>13 DEF Stop, MemoryLost
  <2>14. CASE Crash
    BY <2>14 DEF Crash, MemoryLost
  <2>15. CASE ServerReplies
    BY <2>15 DEF ServerReplies
  <2>16. ASSUME NEW b \in Bundle, Publish(b) PROVE FaultFree'
    BY <2>16 DEF Publish
  <2>17. ASSUME NEW v \in Damage, DamageCache(v) PROVE FaultFree'
    BY <2>17 DEF DamageCache
  <2>18. ASSUME NEW f \in PolicyFiles, EditPolicyFile(f) PROVE FaultFree'
    BY <2>18 DEF EditPolicyFile
  <2>19. CASE UNCHANGED vars
    BY <2>19
  <2>20. QED
    BY <2>1, <2>2, <2>3, <2>4, <2>5, <2>6, <2>7, <2>8, <2>9, <2>10, <2>11, <2>12, <2>13, <2>14, <2>15, <2>16, <2>17, <2>18, <2>19 DEF Next
<1>2. QED BY <1>1

\* The inductive invariant holds in every reachable state.
THEOREM Invariance == Spec => []IInv
<1>1. Init => IInv
  BY InitIInv
<1>2. IInv /\ [Next]_vars => IInv'
  BY TypeStep, ProvenanceStep, PhasesStep, FailClosedStep, FaultFreeStep DEF IInv
<1>3. QED
  BY <1>1, <1>2, PTL DEF Spec

\* Type correctness of the bundle manager.
THEOREM TypeCorrect == Spec => []TypeOK
<1>1. IInv => TypeOK
  BY DEF IInv
<1>2. QED
  BY <1>1, Invariance, PTL

\* Whatever is left in the cache file and whenever the process crashes, the
\* bundle in memory passed validate_bundle and was published or, in a
\* deployment that does not require signatures, planted in the cache file.
THEOREM OnlyPublished == Spec => []ServesOnlyPublished
<1>1. IInv => ServesOnlyPublished
  BY DEF IInv, TypeOK, Provenance, ServesOnlyPublished, Offered, get_policy
<1>2. QED
  BY <1>1, Invariance, PTL

\* A fail-closed process never serves without a policy.
THEOREM FailClosed == Spec => []FailClosedHasPolicy
<1>1. IInv => FailClosedHasPolicy
  BY DEF IInv
<1>2. QED
  BY <1>1, Invariance, PTL

\* Without disk faults a 304 answer is about the bundle being served.
THEOREM EtagSound == Spec => []EtagNamesBundle
<1>1. IInv => EtagNamesBundle
  BY DEF IInv, FaultFree, EtagNamesBundle
<1>2. QED
  BY <1>1, Invariance, PTL

\* Without disk faults a restart from the cache serves the same bundle.
THEOREM RestartSound == Spec => []RestartServesSame
<1>1. IInv => RestartServesSame
  BY DEF IInv, FaultFree, RestartServesSame
<1>2. QED
  BY <1>1, Invariance, PTL

\* Every boot, poll, save, crash and publication maps to a step of PolicySource
\* or leaves what requests see alone.
LEMMA SourceStep ==
    IInv /\ IInv' /\ [Next]_vars => [Source!Next]_(Source!vars)
<1> SUFFICES ASSUME IInv, IInv', [Next]_vars
             PROVE  Source!Next \/ UNCHANGED Source!vars
  OBVIOUS
<1> USE DEF IInv, TypeOK, Provenance, Phases, Source!vars,
            active_policy_for_listeners, Offered
<1>1. CASE Start
  BY <1>1 DEF Start
<1>2. CASE LoadLocal
  BY <1>2 DEF LoadLocal, BootSucceeds, BootRaises, ApplyFailMode, spawn_cycle, Source!Next, Source!Serve, Source!Halt, FailClosedHasPolicy, is_ready
<1>3. CASE LoadCached
  BY <1>3 DEF LoadCached, CacheUsable, BootSucceeds, BootRaises, ApplyFailMode, spawn_cycle, Source!Next, Source!Serve, Source!Halt, FailClosedHasPolicy, is_ready
<1>4. CASE FetchSend
  BY <1>4 DEF FetchSend
<1>5. CASE FetchFails
  BY <1>5 DEF FetchFails, FetchEnds, AttemptsLeft, BootSucceeds, spawn_cycle
<1>6. CASE FetchApplies
  BY <1>6 DEF FetchApplies, RejectReply, FetchEnds, AttemptsLeft, BootSucceeds, spawn_cycle, Source!Next, Source!Serve, Source!Adopt, FailClosedHasPolicy, is_ready
<1>7. CASE SaveBackup
  BY <1>7 DEF SaveBackup
<1>8. CASE SaveWriteTemp
  BY <1>8 DEF SaveWriteTemp
<1>9. CASE SaveReplace
  BY <1>9 DEF SaveReplace, FetchEnds, AttemptsLeft, BootSucceeds, spawn_cycle, Source!Next, Source!Serve, FailClosedHasPolicy, is_ready
<1>10. CASE SaveFails
  BY <1>10 DEF SaveFails, FetchEnds, AttemptsLeft, BootSucceeds, spawn_cycle
<1>11. CASE CycleStart
  BY <1>11 DEF CycleStart
<1>12. CASE CycleEnd
  BY <1>12 DEF CycleEnd
<1>13. CASE Stop
  BY <1>13 DEF Stop, MemoryLost, Source!Halt, Source!Next
<1>14. CASE Crash
  BY <1>14 DEF Crash, MemoryLost, Source!Halt, Source!Next
<1>15. CASE ServerReplies
  BY <1>15 DEF ServerReplies
<1>16. ASSUME NEW b \in Bundle, Publish(b)
      PROVE  Source!Next \/ UNCHANGED Source!vars
  BY <1>16 DEF Publish, Source!Next, Source!Offer
<1>17. ASSUME NEW v \in Damage, DamageCache(v)
      PROVE  Source!Next \/ UNCHANGED Source!vars
  BY <1>17 DEF DamageCache, Source!Next, Source!Offer
<1>18. ASSUME NEW f \in PolicyFiles, EditPolicyFile(f)
      PROVE  Source!Next \/ UNCHANGED Source!vars
  BY <1>18 DEF EditPolicyFile, Source!Next, Source!Offer
<1>19. CASE UNCHANGED vars
  BY <1>19
<1>20. QED
  BY <1>1, <1>2, <1>3, <1>4, <1>5, <1>6, <1>7, <1>8, <1>9, <1>10, <1>11, <1>12, <1>13, <1>14, <1>15, <1>16, <1>17, <1>18, <1>19 DEF Next

\* The bundle manager implements PolicySource: crashes, disk faults, lost and
\* late answers and a damaged or planted cache file included.
THEOREM Refinement == Spec => ImplementsPolicySource
<1>1. Init => Source!Init
  BY DEF Init, Source!Init, active_policy_for_listeners, Offered
<1>2. IInv /\ IInv' /\ [Next]_vars => [Source!Next]_(Source!vars)
  BY SourceStep
<1>3. QED
  BY <1>1, <1>2, Invariance, PTL DEF Spec, ImplementsPolicySource, Source!Spec

\* Only a whole, validated, published bundle ever reaches the cache file from
\* the process: the file changes in os.replace alone.
THEOREM CacheWrites == Spec => CacheWritesWhole
<1>1. IInv /\ [Next]_vars =>
        [cache' # cache /\ pc \notin {"off", "dead"}
           => cache' \in Valid \cap history]_vars
  <2> SUFFICES ASSUME IInv, Next, cache' # cache, pc \notin {"off", "dead"}
               PROVE  cache' \in Valid \cap history
    OBVIOUS
  <2>1. SaveReplace
    BY DEF Next, Start, LoadLocal, LoadCached, FetchSend, FetchFails, FetchApplies,
           SaveBackup, SaveWriteTemp, SaveFails, CycleStart, CycleEnd, Stop, Crash,
           ServerReplies, Publish, DamageCache, EditPolicyFile
  <2>2. QED
    BY <2>1 DEF IInv, Provenance, Phases, SaveReplace
<1>2. QED
  BY <1>1, Invariance, PTL DEF Spec, CacheWritesWhole
=============================================================================
