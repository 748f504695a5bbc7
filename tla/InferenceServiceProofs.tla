----------------------- MODULE InferenceServiceProofs -----------------------
(***************************************************************************)
(* Proofs about InferenceService, for any number of requests, reloads,     *)
(* models and re-installs and any cache size: the types, that a pin is     *)
(* answered by its own model, that what active slots put in the batched    *)
(* part of the cache is as fresh as the slot of now, and that the stub     *)
(* does not answer for real weights.                                       *)
(***************************************************************************)
EXTENDS InferenceService, TLAPS

(***************************************************************************)
(* The inductive invariant.  The slots say what they hold; a reload that   *)
(* overlaps no other leaves the active slot empty while it stops and its   *)
(* information right afterwards, and the only batchers left running are    *)
(* the two slots' own.                                                     *)
(***************************************************************************)
SlotsInv ==
    /\ active # 0 /\ info.available => built[active].spec = info.spec
    /\ variant # 0 => built[variant].spec.model = Variant /\ built[variant].variant

Alone ==
    /\ \A o, p \in Operator :
          reload[o] = "stopping" /\ reload[p] = "stopping" => o = p
    /\ (\E o \in Operator : reload[o] = "stopping") => active = 0
    /\ active # 0 => info.available
    /\ \A i \in 1 .. Len(built) : built[i].running => i \in {active, variant}

AloneInv == ~overlap => Alone

\* A call waits for a batcher that was built for its pin, under its key.
Waits(r) ==
    /\ call[r].batcher \in 1 .. Len(built)
    /\ call[r].key.scope = built[call[r].batcher].spec
    /\ call[r].pin # NoPin => built[call[r].batcher].spec.model = call[r].pin
    /\ ~overlap /\ ~AllowStub /\ call[r].pin = NoPin => ~call[r].stubbed

CallInv == \A r \in Request : call[r].at = "waiting" => Waits(r)

IInv == TypeOK /\ SlotsInv /\ AloneInv /\ CallInv
Safe == PinnedRightModel /\ BatchedCacheFresh /\ StubNeverFabricates

-----------------------------------------------------------------------------
\* A batcher that is built keeps its place, its spec and its weights; only
\* whether it runs may change, and a new one is appended at the end.
Kept ==
    /\ Len(built') >= Len(built)
    /\ \A i \in 1 .. Len(built) :
          built'[i].spec = built[i].spec /\ built'[i].gen = built[i].gen

LEMMA Appended ==
    ASSUME TypeOK, NEW s \in TaskSpec, NEW v \in BOOLEAN
    PROVE  /\ Built(s, v) \in Seq(Batcher) /\ Len(Built(s, v)) = Len(built) + 1
           /\ Built(s, v)[Len(built) + 1] = NewBatcher(s, v)
           /\ \A i \in 1 .. Len(built) : Built(s, v)[i] = built[i]
<1>1. NewBatcher(s, v) \in Batcher
  BY DEF TypeOK, Batcher, NewBatcher
<1>2. QED
  BY <1>1 DEF TypeOK, Built

LEMMA StoppedOnly ==
    ASSUME TypeOK, NEW i \in 0 .. Len(built)
    PROVE  /\ Stopped(i) \in Seq(Batcher) /\ Len(Stopped(i)) = Len(built)
           /\ i # 0 => ~Stopped(i)[i].running
           /\ \A j \in 1 .. Len(built) :
                 /\ Stopped(i)[j].spec = built[j].spec
                 /\ Stopped(i)[j].gen = built[j].gen
                 /\ Stopped(i)[j].variant = built[j].variant
                 /\ Stopped(i)[j].running => built[j].running
<1>1. CASE i = 0
  BY <1>1 DEF TypeOK, Stopped
<1>2. CASE i # 0
  <2>1. i \in 1 .. Len(built) /\ built[i] \in Batcher
    BY <1>2 DEF TypeOK
  <2>2. [built[i] EXCEPT !.running = FALSE] \in Batcher
    BY <2>1 DEF Batcher
  <2>3. Stopped(i) = [built EXCEPT ![i] = [built[i] EXCEPT !.running = FALSE]]
    BY <1>2 DEF Stopped
  <2>4. QED
    BY <1>2, <2>1, <2>2, <2>3 DEF TypeOK, Batcher
<1>3. QED
  BY <1>1, <1>2

\* What the cache operations leave in the store was there, or is the new entry.
LEMMA WithoutKeeps ==
    ASSUME TypeOK, NEW k
    PROVE  /\ Without(k) \in Seq(Entry)
           /\ \A i \in 1 .. Len(Without(k)) :
                 \E j \in 1 .. Len(cache) : Without(k)[i] = cache[j]
<1>1. CASE At(k) = {}
  BY <1>1 DEF TypeOK, Without
<1>2. CASE At(k) # {}
  <2> DEFINE n == CHOOSE i \in At(k) : TRUE
  <2>1. n \in 1 .. Len(cache)
    BY <1>2 DEF At, TypeOK
  <2>2. Without(k) = SubSeq(cache, 1, n - 1) \o SubSeq(cache, n + 1, Len(cache))
    BY <1>2 DEF Without, RemoveAt
  <2> HIDE DEF n
  <2> DEFINE a == SubSeq(cache, 1, n - 1)
             b == SubSeq(cache, n + 1, Len(cache))
  <2>3. /\ a \in Seq(Entry) /\ Len(a) = n - 1
        /\ \A i \in 1 .. n - 1 : a[i] = cache[i]
    BY <2>1 DEF TypeOK
  <2>4. /\ b \in Seq(Entry) /\ Len(b) = Len(cache) - n
        /\ \A i \in 1 .. Len(cache) - n : b[i] = cache[n + i]
    BY <2>1 DEF TypeOK
  <2>5. Without(k) = a \o b
    BY <2>2
  <2> HIDE DEF a, b
  <2>6. /\ a \o b \in Seq(Entry) /\ Len(a \o b) = Len(a) + Len(b)
        /\ \A i \in 1 .. Len(a) + Len(b) :
              (a \o b)[i] = IF i <= Len(a) THEN a[i] ELSE b[i - Len(a)]
    BY <2>3, <2>4
  <2>7. ASSUME NEW i \in 1 .. Len(a \o b)
        PROVE  \E j \in 1 .. Len(cache) : (a \o b)[i] = cache[j]
    <3>1. Len(cache) \in Nat
      BY DEF TypeOK
    <3>2. CASE i <= Len(a)
      BY <2>1, <2>3, <2>4, <2>6, <3>1, <3>2
    <3>3. CASE ~(i <= Len(a))
      <4>1. i - Len(a) \in 1 .. Len(cache) - n /\ n + (i - Len(a)) \in 1 .. Len(cache)
        BY <2>1, <2>3, <2>4, <2>6, <3>1, <3>3
      <4>2. QED
        BY <2>4, <2>6, <3>3, <4>1, <2>3, <3>1
    <3>4. QED
      BY <3>2, <3>3
  <2>8. QED
    BY <2>5, <2>6, <2>7
<1>3. QED
  BY <1>1, <1>2

LEMMA AppendKeeps ==
    ASSUME TypeOK, NEW k, NEW e \in Entry
    PROVE  /\ Append(Without(k), e) \in Seq(Entry)
           /\ ToSet(Append(Without(k), e)) \subseteq ToSet(cache) \cup {e}
<1>1. Without(k) \in Seq(Entry)
  BY WithoutKeeps
<1>2. \A i \in 1 .. Len(Without(k)) : \E j \in 1 .. Len(cache) : Without(k)[i] = cache[j]
  BY WithoutKeeps
<1> DEFINE w == Without(k)
<1>3. ASSUME NEW i \in 1 .. Len(Append(w, e))
      PROVE  Append(w, e)[i] \in ToSet(cache) \cup {e}
  <2>1. CASE i = Len(w) + 1
    BY <1>1, <2>1
  <2>2. CASE i # Len(w) + 1
    <3>1. i \in 1 .. Len(w) /\ Append(w, e)[i] = w[i]
      BY <1>1, <2>2
    <3>2. PICK j \in 1 .. Len(cache) : w[i] = cache[j]
      BY <1>2, <3>1
    <3>3. cache[j] \in ToSet(cache)
      BY DEF ToSet, TypeOK
    <3>4. QED
      BY <3>1, <3>2, <3>3
  <2>3. QED
    BY <2>1, <2>2
<1>4. Append(w, e) \in Seq(Entry)
  BY <1>1
<1> HIDE DEF w
<1>5. ToSet(Append(w, e)) \subseteq ToSet(cache) \cup {e}
  BY <1>3, <1>4 DEF ToSet
<1>6. QED
  BY <1>4, <1>5 DEF w

LEMMA PutKeeps ==
    ASSUME TypeOK, NEW k \in Key, NEW b \in Batcher, put(k, b)
    PROVE  /\ cache' \in Seq(Entry)
           /\ ToSet(cache') \subseteq
                 ToSet(cache) \cup {[key |-> k, gen |-> b.gen, variant |-> b.variant]}
<1> DEFINE e == [key |-> k, gen |-> b.gen, variant |-> b.variant]
           c == Append(Without(k), e)
<1>1. e \in Entry
  BY DEF Entry, Batcher
<1>2. cache' = IF Len(c) > CacheSize THEN Tail(c) ELSE c
  BY DEF put
<1> HIDE DEF e
<1>3. c \in Seq(Entry) /\ ToSet(c) \subseteq ToSet(cache) \cup {e}
  BY <1>1, AppendKeeps
<1> HIDE DEF c
<1>4. ASSUME Len(c) > CacheSize
      PROVE  cache' \in Seq(Entry) /\ ToSet(cache') \subseteq ToSet(cache) \cup {e}
  <2>1. c # <<>> /\ cache' = Tail(c)
    BY <1>2, <1>3, <1>4, ServiceAssumption
  <2>2. Tail(c) \in Seq(Entry) /\ ToSet(Tail(c)) \subseteq ToSet(c)
    BY <1>3, <2>1 DEF ToSet
  <2>3. QED
    BY <1>3, <2>1, <2>2
<1>5. ASSUME ~(Len(c) > CacheSize)
      PROVE  cache' \in Seq(Entry) /\ ToSet(cache') \subseteq ToSet(cache) \cup {e}
  BY <1>2, <1>3, <1>5
<1>6. cache' \in Seq(Entry) /\ ToSet(cache') \subseteq ToSet(cache) \cup {e}
  BY <1>4, <1>5
<1>7. QED
  BY <1>6 DEF e

-----------------------------------------------------------------------------
\* The batcher that _resolve_batcher chooses is of the pinned model; for a call
\* without a pin it is not the stub beside real weights, when reloads do not
\* overlap.  Its key carries its model.
LEMMA ResolveRight ==
    ASSUME IInv, NEW pin \in Models \cup {NoPin}, NEW params \in BOOLEAN,
           _resolve_batcher(pin) # 0
    PROVE  LET b == _resolve_batcher(pin) IN
           /\ b \in 1 .. Len(built) /\ built[b] \in Batcher
           /\ content_key(b, params) \in Key
           /\ content_key(b, params).scope = built[b].spec
           /\ pin # NoPin => built[b].spec.model = pin
           /\ ~overlap /\ ~AllowStub /\ pin = NoPin =>
                 ~(built[b].spec.stub /\ real_variants)
<1> DEFINE b == _resolve_batcher(pin)
<1>1. b \in {active, variant} /\ b # 0
  BY DEF _resolve_batcher, Unpinned, get_for
<1>2. b \in 1 .. Len(built) /\ built[b] \in Batcher
  BY <1>1 DEF IInv, TypeOK
<1>3. /\ built[b].spec \in TaskSpec /\ built[b].spec.model \in Models
      /\ info.spec.model \in Models
  BY <1>2 DEF Batcher, TaskSpec, IInv, TypeOK
<1>4. model_version(b) \in Models \cup {"unknown"}
  BY <1>3 DEF model_version
<1>5. content_key(b, params) \in Key
  BY <1>3, <1>4 DEF content_key, Key
<1>6. content_key(b, params).scope = built[b].spec
  BY DEF content_key
<1>7. ASSUME pin # NoPin PROVE built[b].spec.model = pin
  BY <1>1, <1>7 DEF IInv, SlotsInv, _resolve_batcher, get_for, _matches
<1>8. ASSUME ~overlap, ~AllowStub, pin = NoPin
      PROVE  ~(built[b].spec.stub /\ real_variants)
  <2>1. b = active /\ ~(info.spec.stub /\ real_variants)
    BY <1>1, <1>8 DEF _resolve_batcher, Unpinned
  <2>2. built[active].spec = info.spec
    BY <1>1, <1>8, <2>1 DEF IInv, SlotsInv, AloneInv, Alone
  <2>3. QED
    BY <2>1, <2>2
<1>9. QED
  BY <1>2, <1>5, <1>6, <1>7, <1>8

\* A step that keeps the batchers and the calls keeps what is said of calls.
LEMMA CallsKept ==
    ASSUME TypeOK, CallInv, PinnedRightModel, StubNeverFabricates,
           Kept, call' = call, overlap => overlap', Len(built') \in Nat
    PROVE  CallInv' /\ PinnedRightModel' /\ StubNeverFabricates'
<1>1. CallInv'
  <2>1. SUFFICES ASSUME NEW r \in Request, call[r].at = "waiting" PROVE Waits(r)'
    BY DEF CallInv
  <2>2. Waits(r)
    BY <2>1 DEF CallInv
  <2>3. QED
    BY <2>2 DEF Waits, Kept, TypeOK
<1>2. PinnedRightModel'
  BY DEF PinnedRightModel, Answered
<1>3. StubNeverFabricates'
  BY DEF StubNeverFabricates, Answered
<1>4. QED
  BY <1>1, <1>2, <1>3

FullInv == IInv /\ Safe

LEMMA InitInv == Init => FullInv
<1> SUFFICES ASSUME Init PROVE FullInv
  OBVIOUS
<1>1. info \in [spec : TaskSpec, available : BOOLEAN] /\ disk \in 0 .. MaxInstalls
  BY ServiceAssumption DEF Init
<1>2. TypeOK /\ SlotsInv /\ AloneInv
  <2>1. cache \in Seq(Entry)
    BY DEF Init
  <2>2. call \in [Request -> {Fresh, Refusal} \cup Waiting \cup Reply]
    BY DEF Init
  <2>3. reload \in [Operator -> {"new", "stopping", "done"}] /\ overlap \in BOOLEAN
    BY DEF Init
  <2>4. CASE info.available
    <3>1. NewBatcher(info.spec, FALSE) \in Batcher
      BY <1>1 DEF Batcher, NewBatcher
    <3> DEFINE nb == NewBatcher(info.spec, FALSE)
    <3>2. built = <<nb>> /\ active = Len(built) /\ variant = 0
      BY <2>4 DEF Init
    <3> HIDE DEF nb
    <3>3. nb \in Batcher
      BY <3>1 DEF nb
    <3>4. /\ built \in Seq(Batcher) /\ Len(built) = 1 /\ active = 1 /\ variant = 0
          /\ built[1] = nb
      BY <3>2, <3>3
    <3>5. /\ built \in Seq(Batcher) /\ Len(built) = 1 /\ active = 1 /\ variant = 0
          /\ built[1] = NewBatcher(info.spec, FALSE)
      BY <3>4 DEF nb
    <3>6. TypeOK
      BY <1>1, <2>1, <2>2, <2>3, <3>5 DEF TypeOK
    <3>7. SlotsInv /\ AloneInv
      BY <2>4, <3>5 DEF SlotsInv, AloneInv, Alone, NewBatcher, Init
    <3>8. QED
      BY <3>6, <3>7
  <2>5. CASE ~info.available
    <3>1. built = <<>> /\ built \in Seq(Batcher) /\ Len(built) = 0
          /\ active = 0 /\ variant = 0
      BY <2>5 DEF Init
    <3>2. TypeOK
      BY <1>1, <2>1, <2>2, <2>3, <3>1 DEF TypeOK
    <3>3. SlotsInv /\ AloneInv
      BY <3>1 DEF SlotsInv, AloneInv, Alone, Init
    <3>4. QED
      BY <3>2, <3>3
  <2>6. QED
    BY <2>4, <2>5
<1>3. CallInv /\ PinnedRightModel /\ StubNeverFabricates
  BY DEF Init, CallInv, PinnedRightModel, StubNeverFabricates, Answered, Fresh
<1>4. BatchedCacheFresh
  BY DEF Init, BatchedCacheFresh, ToSet
<1>5. QED
  BY <1>2, <1>3, <1>4 DEF FullInv, IInv, Safe

LEMMA ReInstallStep == FullInv /\ ReInstall => FullInv'
<1> SUFFICES ASSUME FullInv, ReInstall PROVE FullInv'
  OBVIOUS
<1> USE DEF FullInv, IInv, Safe
<1>1. UNCHANGED <<built, active, info, variant, reload, overlap, cache, call>>
  BY DEF ReInstall, slots
<1>2. TypeOK'
  BY <1>1, ServiceAssumption DEF TypeOK, ReInstall
<1>3. SlotsInv' /\ AloneInv'
  BY <1>1 DEF SlotsInv, AloneInv, Alone
<1>4. CallInv' /\ PinnedRightModel' /\ StubNeverFabricates'
  BY <1>1, CallsKept DEF Kept, TypeOK
<1>5. BatchedCacheFresh'
  BY <1>1 DEF BatchedCacheFresh
<1>6. QED
  BY <1>2, <1>3, <1>4, <1>5

LEMMA LoadVariantStep == FullInv /\ LoadVariant => FullInv'
<1> SUFFICES ASSUME FullInv, LoadVariant PROVE FullInv'
  OBVIOUS
<1> USE DEF FullInv, IInv, Safe
<1> DEFINE s == [model |-> Variant, stub |-> FALSE]
<1>1. /\ variant = 0 /\ variant' = Len(built')
      /\ UNCHANGED <<disk, active, info, reload, overlap, cache, call>>
  BY DEF LoadVariant
<1>2. /\ built' \in Seq(Batcher) /\ Len(built') = Len(built) + 1
      /\ built'[Len(built) + 1] = NewBatcher(s, TRUE)
      /\ \A i \in 1 .. Len(built) : built'[i] = built[i]
  <2>1. s \in TaskSpec
    BY ServiceAssumption DEF TaskSpec, Models
  <2>2. QED
    BY <2>1, Appended DEF LoadVariant
<1>3. Len(built) \in Nat /\ active \in 0 .. Len(built)
  BY DEF TypeOK
<1>4. TypeOK'
  BY <1>1, <1>2, <1>3 DEF TypeOK
<1>5. SlotsInv'
  BY <1>1, <1>2, <1>3 DEF SlotsInv, NewBatcher
<1>6. AloneInv'
  BY <1>1, <1>2, <1>3 DEF AloneInv, Alone
<1>7. CallInv' /\ PinnedRightModel' /\ StubNeverFabricates'
  BY <1>1, <1>2, <1>3, CallsKept DEF Kept
<1>8. BatchedCacheFresh'
  BY <1>1, <1>2, <1>3 DEF BatchedCacheFresh
<1>9. QED
  BY <1>4, <1>5, <1>6, <1>7, <1>8

LEMMA UnloadVariantStep == FullInv /\ UnloadVariant => FullInv'
<1> SUFFICES ASSUME FullInv, UnloadVariant PROVE FullInv'
  OBVIOUS
<1> USE DEF FullInv, IInv, Safe
<1>1. /\ variant # 0 /\ built' = Stopped(variant) /\ variant' = 0
      /\ UNCHANGED <<disk, active, info, reload, overlap, cache, call>>
  BY DEF UnloadVariant
<1>2. /\ built' \in Seq(Batcher) /\ Len(built') = Len(built)
      /\ ~built'[variant].running
      /\ \A j \in 1 .. Len(built) :
            /\ built'[j].spec = built[j].spec
            /\ built'[j].gen = built[j].gen
            /\ built'[j].variant = built[j].variant
            /\ built'[j].running => built[j].running
  BY <1>1, StoppedOnly DEF TypeOK
<1>3. Len(built) \in Nat /\ active \in 0 .. Len(built)
  BY DEF TypeOK
<1>4. TypeOK'
  BY <1>1, <1>2, <1>3 DEF TypeOK
<1>5. SlotsInv'
  BY <1>1, <1>2, <1>3 DEF SlotsInv
<1>6. AloneInv'
  BY <1>1, <1>2, <1>3 DEF AloneInv, Alone
<1>7. CallInv' /\ PinnedRightModel' /\ StubNeverFabricates'
  BY <1>1, <1>2, <1>3, CallsKept DEF Kept
<1>8. BatchedCacheFresh'
  BY <1>1, <1>2, <1>3 DEF BatchedCacheFresh
<1>9. QED
  BY <1>4, <1>5, <1>6, <1>7, <1>8

LEMMA BeginReloadStep ==
    ASSUME FullInv, NEW o \in Operator, BeginReload(o) PROVE FullInv'
<1> USE DEF FullInv, IInv, Safe
<1>1. /\ reload[o] = "new" /\ reload' = [reload EXCEPT ![o] = "stopping"]
      /\ overlap' = (overlap \/ \E p \in Operator : reload[p] = "stopping")
      /\ built' = Stopped(active) /\ active' = 0
      /\ UNCHANGED <<disk, info, variant, cache, call>>
  BY DEF BeginReload
<1>2. /\ built' \in Seq(Batcher) /\ Len(built') = Len(built)
      /\ active # 0 => ~built'[active].running
      /\ \A j \in 1 .. Len(built) :
            /\ built'[j].spec = built[j].spec
            /\ built'[j].gen = built[j].gen
            /\ built'[j].variant = built[j].variant
            /\ built'[j].running => built[j].running
  BY <1>1, StoppedOnly DEF TypeOK
<1>3. Len(built) \in Nat /\ variant \in 0 .. Len(built)
  BY DEF TypeOK
<1>4. TypeOK'
  BY <1>1, <1>2, <1>3 DEF TypeOK
<1>5. SlotsInv'
  BY <1>1, <1>2, <1>3 DEF SlotsInv
<1>6. AloneInv'
  <2>1. SUFFICES ASSUME ~overlap' PROVE Alone'
    BY DEF AloneInv
  <2>2. Alone /\ \A p \in Operator : reload[p] # "stopping"
    BY <1>1, <2>1 DEF AloneInv
  <2>3. \A p \in Operator : reload'[p] = "stopping" => p = o
    BY <1>1, <2>2 DEF TypeOK
  <2>4. QED
    BY <1>1, <1>2, <1>3, <2>2, <2>3 DEF Alone
<1>7. CallInv' /\ PinnedRightModel' /\ StubNeverFabricates'
  <2>1. Kept /\ Len(built') \in Nat
    BY <1>2, <1>3 DEF Kept
  <2>2. overlap => overlap'
    BY <1>1
  <2>3. QED
    BY <1>1, <2>1, <2>2, CallsKept
<1>8. BatchedCacheFresh'
  BY <1>1 DEF BatchedCacheFresh
<1>9. QED
  BY <1>4, <1>5, <1>6, <1>7, <1>8

LEMMA EndReloadStep ==
    ASSUME FullInv, NEW o \in Operator, EndReload(o) PROVE FullInv'
<1> USE DEF FullInv, IInv, Safe
<1>1. /\ reload[o] = "stopping" /\ reload' = [reload EXCEPT ![o] = "done"]
      /\ cache' = <<>>
      /\ UNCHANGED <<disk, variant, overlap, call>>
  BY DEF EndReload, invalidate_task
<1>2. PICK s \in Specs : BuildSucceeds(s) \/ BuildFails(s)
  BY DEF EndReload
<1>3. s \in TaskSpec /\ Len(built) \in Nat
      /\ variant \in 0 .. Len(built) /\ active \in 0 .. Len(built)
  BY ServiceAssumption DEF TypeOK
<1>4. ASSUME ~overlap PROVE active = 0 /\ \A p \in Operator : reload'[p] # "stopping"
  BY <1>1, <1>4 DEF AloneInv, Alone, TypeOK
<1>5. BatchedCacheFresh'
  BY <1>1 DEF BatchedCacheFresh, ToSet
<1>6. CASE BuildSucceeds(s)
  <2>1. /\ built' \in Seq(Batcher) /\ Len(built') = Len(built) + 1
        /\ built'[Len(built) + 1] = NewBatcher(s, FALSE)
        /\ \A i \in 1 .. Len(built) : built'[i] = built[i]
    BY <1>3, <1>6, Appended DEF BuildSucceeds
  <2>2. active' = Len(built') /\ info' = [spec |-> s, available |-> TRUE]
    BY <1>6 DEF BuildSucceeds
  <2>3. TypeOK'
    BY <1>1, <1>3, <2>1, <2>2 DEF TypeOK
  <2>4. SlotsInv'
    BY <1>1, <1>2, <1>3, <2>1, <2>2 DEF SlotsInv, NewBatcher
  <2>5. AloneInv'
    BY <1>1, <1>3, <1>4, <2>1, <2>2 DEF AloneInv, Alone
  <2>6. CallInv' /\ PinnedRightModel' /\ StubNeverFabricates'
    BY <1>1, <1>3, <2>1, CallsKept DEF Kept
  <2>7. QED
    BY <1>5, <2>3, <2>4, <2>5, <2>6
<1>7. CASE BuildFails(s)
  <2>1. UNCHANGED <<built, active>> /\ info' = [spec |-> s, available |-> FALSE]
    BY <1>7 DEF BuildFails
  <2>2. TypeOK'
    BY <1>1, <1>3, <2>1 DEF TypeOK
  <2>3. SlotsInv'
    BY <1>1, <1>2, <1>3, <2>1 DEF SlotsInv
  <2>4. AloneInv'
    BY <1>1, <1>3, <1>4, <2>1 DEF AloneInv, Alone
  <2>5. CallInv' /\ PinnedRightModel' /\ StubNeverFabricates'
    BY <1>1, <1>3, <2>1, CallsKept DEF Kept
  <2>6. QED
    BY <1>5, <2>2, <2>3, <2>4, <2>5
<1>8. QED
  BY <1>2, <1>6, <1>7

-----------------------------------------------------------------------------
\* The handlers of a request change the calls and the cache only.
LEMMA SlotsKept ==
    ASSUME IInv, UNCHANGED <<disk, slots, reload, overlap>>,
           cache' \in Seq(Entry),
           call' \in [Request -> {Fresh, Refusal} \cup Waiting \cup Reply]
    PROVE  TypeOK' /\ SlotsInv' /\ AloneInv'
<1>1. UNCHANGED <<disk, built, active, info, variant, reload, overlap>>
  BY DEF slots
<1>2. TypeOK'
  BY <1>1 DEF IInv, TypeOK
<1>3. SlotsInv' /\ AloneInv'
  BY <1>1 DEF IInv, SlotsInv, AloneInv, Alone
<1>4. QED
  BY <1>2, <1>3

\* ... and of the calls their own alone.
LEMMA OthersKept ==
    ASSUME IInv, PinnedRightModel, StubNeverFabricates, NEW r \in Request,
           NEW c \in {Fresh, Refusal} \cup Waiting \cup Reply,
           call' = [call EXCEPT ![r] = c],
           UNCHANGED <<disk, slots, reload, overlap>>,
           c.at = "waiting" =>
              /\ c.batcher \in 1 .. Len(built)
              /\ c.key.scope = built[c.batcher].spec
              /\ c.pin # NoPin => built[c.batcher].spec.model = c.pin
              /\ ~overlap /\ ~AllowStub /\ c.pin = NoPin => ~c.stubbed,
           c.at = "done" /\ c.status = "200" =>
              /\ c.pin # NoPin => c.model = c.pin
              /\ ~overlap /\ ~AllowStub /\ c.pin = NoPin => ~c.stubbed
    PROVE  /\ call' \in [Request -> {Fresh, Refusal} \cup Waiting \cup Reply]
           /\ CallInv' /\ PinnedRightModel' /\ StubNeverFabricates'
<1>1. UNCHANGED <<built, overlap>>
  BY DEF slots
<1>2. call \in [Request -> {Fresh, Refusal} \cup Waiting \cup Reply]
  BY DEF IInv, TypeOK
<1>3. /\ call' \in [Request -> {Fresh, Refusal} \cup Waiting \cup Reply]
      /\ call'[r] = c
      /\ \A q \in Request : q # r => call'[q] = call[q]
  BY <1>2
<1>4. CallInv'
  BY <1>1, <1>3 DEF IInv, CallInv, Waits
<1>5. PinnedRightModel'
  BY <1>1, <1>3 DEF PinnedRightModel, Answered
<1>6. StubNeverFabricates'
  BY <1>1, <1>3 DEF StubNeverFabricates, Answered
<1>7. QED
  BY <1>3, <1>4, <1>5, <1>6

LEMMA RefuseStep ==
    ASSUME FullInv, NEW r \in Request, call' = [call EXCEPT ![r] = Refusal],
           UNCHANGED <<disk, slots, reload, overlap, cache>>
    PROVE  FullInv'
<1> USE DEF FullInv, IInv, Safe
<1>1. Refusal.at = "done" /\ Refusal.status = "refused"
  BY DEF Refusal
<1>2. /\ call' \in [Request -> {Fresh, Refusal} \cup Waiting \cup Reply]
      /\ CallInv' /\ PinnedRightModel' /\ StubNeverFabricates'
  BY <1>1, OthersKept
<1>3. TypeOK' /\ SlotsInv' /\ AloneInv'
  BY <1>2, SlotsKept DEF TypeOK
<1>4. BatchedCacheFresh'
  BY DEF BatchedCacheFresh, slots
<1>5. QED
  BY <1>2, <1>3, <1>4

LEMMA InferStep ==
    ASSUME FullInv, NEW r \in Request, NEW pin \in Models \cup {NoPin},
           NEW params \in BOOLEAN, NEW many \in BOOLEAN, infer(r, pin, params, many)
    PROVE  FullInv'
<1> USE DEF FullInv, IInv, Safe
<1> DEFINE b == _resolve_batcher(pin)
           k == content_key(b, params)
           hits == {e \in ToSet(cache) : e.key = k /\ ~many}
           stub == built[b].spec.stub /\ real_variants
           wait == [at |-> "waiting", pin |-> pin, batcher |-> b, key |-> k,
                    many |-> many, stubbed |-> stub]
<1>1. UNCHANGED <<disk, slots, reload, overlap>>
  BY DEF infer
<1>2. CASE b = 0 /\ call' = [call EXCEPT ![r] = Refusal] /\ UNCHANGED cache
  BY <1>1, <1>2, RefuseStep
<1>3. ASSUME b # 0
      PROVE  /\ b \in 1 .. Len(built) /\ built[b] \in Batcher
             /\ k \in Key /\ k.scope = built[b].spec
             /\ pin # NoPin => built[b].spec.model = pin
             /\ ~overlap /\ ~AllowStub /\ pin = NoPin => ~stub
  BY <1>3, ResolveRight
<1>4. stub \in BOOLEAN
  BY DEF real_variants
<1> HIDE DEF b, k, stub
<1>5. ASSUME b # 0, NEW e \in hits, cache' = Touch(k, e),
             call' = [call EXCEPT ![r] = Answer(pin, built[b].spec.model, e.gen, TRUE, stub)]
      PROVE  FullInv'
  <2> DEFINE c == Answer(pin, built[b].spec.model, e.gen, TRUE, stub)
  <2>1. e \in Entry /\ e \in ToSet(cache)
    BY <1>5 DEF ToSet, TypeOK
  <2>2. built[b].spec.model \in Models /\ e.gen \in 0 .. MaxInstalls
    BY <1>3, <1>5, <2>1 DEF Batcher, Entry, TaskSpec
  <2>3. c \in Reply /\ c.at = "done" /\ c.status = "200" /\ c.pin = pin
        /\ c.model = built[b].spec.model /\ c.stubbed = stub
    BY <1>4, <2>2 DEF Answer, Reply
  <2> HIDE DEF c
  <2>4. /\ call' \in [Request -> {Fresh, Refusal} \cup Waiting \cup Reply]
        /\ CallInv' /\ PinnedRightModel' /\ StubNeverFabricates'
    <3>1. call' = [call EXCEPT ![r] = c]
      BY <1>5 DEF c
    <3>2. c \in {Fresh, Refusal} \cup Waiting \cup Reply
      BY <2>3
    <3>3. c.pin # NoPin => c.model = c.pin
      BY <1>3, <1>5, <2>3
    <3>4. ~overlap /\ ~AllowStub /\ c.pin = NoPin => ~c.stubbed
      BY <1>3, <1>5, <2>3
    <3>5. c.at # "waiting"
      BY <2>3
    <3>6. QED
      BY <1>1, <3>1, <3>2, <3>3, <3>4, <3>5, OthersKept
  <2>5. cache' \in Seq(Entry) /\ ToSet(cache') \subseteq ToSet(cache) \cup {e}
    BY <1>5, <2>1, AppendKeeps DEF Touch
  <2>6. TypeOK' /\ SlotsInv' /\ AloneInv'
    BY <1>1, <2>4, <2>5, SlotsKept
  <2>7. BatchedCacheFresh'
    BY <1>1, <2>1, <2>5 DEF BatchedCacheFresh, slots
  <2>8. QED
    BY <2>4, <2>6, <2>7
<1>6. ASSUME b # 0, call' = [call EXCEPT ![r] = wait], cache' = cache
      PROVE  FullInv'
  <2>1. wait \in Waiting
    BY <1>3, <1>4, <1>6 DEF Waiting, TypeOK
  <2>2. /\ wait.at = "waiting" /\ wait.pin = pin /\ wait.batcher = b
        /\ wait.key = k /\ wait.stubbed = stub
    OBVIOUS
  <2> DEFINE c == wait
  <2> HIDE DEF c
  <2>3. /\ call' \in [Request -> {Fresh, Refusal} \cup Waiting \cup Reply]
        /\ CallInv' /\ PinnedRightModel' /\ StubNeverFabricates'
    <3>1. call' = [call EXCEPT ![r] = c]
      BY <1>6 DEF c
    <3>2. c \in {Fresh, Refusal} \cup Waiting \cup Reply /\ c.at = "waiting"
      BY <2>1 DEF c
    <3>3. c.batcher \in 1 .. Len(built) /\ c.key.scope = built[c.batcher].spec
      BY <1>3, <1>6, <2>2 DEF c
    <3>4. c.pin # NoPin => built[c.batcher].spec.model = c.pin
      BY <1>3, <1>6, <2>2 DEF c
    <3>5. ~overlap /\ ~AllowStub /\ c.pin = NoPin => ~c.stubbed
      BY <1>3, <1>6, <2>2 DEF c
    <3>6. QED
      BY <1>1, <3>1, <3>2, <3>3, <3>4, <3>5, OthersKept
  <2>4. TypeOK' /\ SlotsInv' /\ AloneInv'
    BY <1>1, <1>6, <2>3, SlotsKept DEF TypeOK
  <2>5. BatchedCacheFresh'
    BY <1>1, <1>6 DEF BatchedCacheFresh, slots
  <2>6. QED
    BY <2>3, <2>4, <2>5
<1>7. QED
  BY <1>2, <1>5, <1>6 DEF infer, b, k, stub

LEMMA CompleteStep ==
    ASSUME FullInv, NEW r \in Request, Complete(r) PROVE FullInv'
<1> USE DEF FullInv, IInv, Safe
<1> DEFINE b == built[call[r].batcher]
           c == Answer(call[r].pin, b.spec.model, b.gen, FALSE, call[r].stubbed)
           e == [key |-> call[r].key, gen |-> b.gen, variant |-> b.variant]
<1>1. UNCHANGED <<disk, slots, reload, overlap>>
  BY DEF Complete
<1>2. /\ call[r].at = "waiting" /\ Scored(r)
      /\ IF call[r].many THEN UNCHANGED cache ELSE put(call[r].key, b)
      /\ call' = [call EXCEPT ![r] = c]
  BY DEF Complete
<1>3. call[r] \in Waiting
  BY <1>2 DEF TypeOK, Fresh, Refusal, Reply
<1>4. call[r].key \in Key /\ call[r].pin \in Models \cup {NoPin}
      /\ call[r].stubbed \in BOOLEAN
  BY <1>3 DEF Waiting
<1>5. Waits(r)
  BY <1>2 DEF CallInv
<1>6. b \in Batcher /\ b.spec.model \in Models /\ b.gen \in 0 .. MaxInstalls
  <2>1. b \in Batcher
    BY <1>5 DEF Waits, TypeOK
  <2>2. QED
    BY <2>1 DEF Batcher, TaskSpec
<1>7. c \in Reply /\ c.at = "done" /\ c.pin = call[r].pin
      /\ c.model = b.spec.model /\ c.stubbed = call[r].stubbed
  BY <1>4, <1>6 DEF Answer, Reply
<1>8. /\ call' \in [Request -> {Fresh, Refusal} \cup Waiting \cup Reply]
      /\ CallInv' /\ PinnedRightModel' /\ StubNeverFabricates'
  <2> HIDE DEF c
  <2>1. c.pin # NoPin => c.model = c.pin
    BY <1>5, <1>7 DEF Waits
  <2>2. ~overlap /\ ~AllowStub /\ c.pin = NoPin => ~c.stubbed
    BY <1>5, <1>7 DEF Waits
  <2>3. c.at # "waiting" /\ c \in {Fresh, Refusal} \cup Waiting \cup Reply
    BY <1>7
  <2>4. call' = [call EXCEPT ![r] = c]
    BY <1>2
  <2>5. QED
    BY <1>1, <2>1, <2>2, <2>3, <2>4, OthersKept
<1>9. cache' \in Seq(Entry) /\ ToSet(cache') \subseteq ToSet(cache) \cup {e}
  <2>1. CASE call[r].many
    BY <1>2, <2>1 DEF TypeOK
  <2>2. CASE ~call[r].many
    BY <1>2, <1>4, <1>6, <2>2, PutKeeps
  <2>3. QED
    BY <2>1, <2>2
<1>10. TypeOK' /\ SlotsInv' /\ AloneInv'
  BY <1>1, <1>8, <1>9, SlotsKept
\* The new entry: a batched answer comes from a running batcher, so from the
\* active slot itself or from the variant.
<1>11. ASSUME ~overlap, ~call[r].key.params, active # 0
       PROVE  b.gen = built[active].gen \/ b.variant
  <2>1. built[call[r].batcher].running /\ call[r].batcher \in 1 .. Len(built)
    BY <1>2, <1>5, <1>11 DEF Scored, Waits
  <2>2. call[r].batcher \in {active, variant}
    BY <1>11, <2>1 DEF AloneInv, Alone
  <2>3. QED
    BY <2>1, <2>2 DEF SlotsInv
<1>12. BatchedCacheFresh'
  <2>1. SUFFICES ASSUME NEW x \in ToSet(cache) \cup {e}, ~overlap, ~x.key.params,
                        active # 0, x.key.scope = built[active].spec
                 PROVE  x.gen = built[active].gen \/ x.variant
    BY <1>1, <1>9 DEF BatchedCacheFresh, slots
  <2>2. CASE x \in ToSet(cache)
    BY <2>1, <2>2 DEF BatchedCacheFresh
  <2>3. CASE x = e
    BY <1>11, <2>1, <2>3
  <2>4. QED
    BY <2>2, <2>3
<1>13. QED
  BY <1>8, <1>10, <1>12

LEMMA StutterStep == FullInv /\ UNCHANGED vars => FullInv'
  BY DEF FullInv, IInv, Safe, vars, TypeOK, SlotsInv, AloneInv, Alone, CallInv,
         Waits, PinnedRightModel, BatchedCacheFresh, StubNeverFabricates, Answered

LEMMA NextStep == FullInv /\ [Next]_vars => FullInv'
<1> SUFFICES ASSUME FullInv, [Next]_vars PROVE FullInv'
  OBVIOUS
<1>1. CASE ReInstall \/ LoadVariant \/ UnloadVariant
  BY <1>1, ReInstallStep, LoadVariantStep, UnloadVariantStep
<1>2. ASSUME NEW o \in Operator, BeginReload(o) \/ EndReload(o) PROVE FullInv'
  BY <1>2, BeginReloadStep, EndReloadStep
<1>3. ASSUME NEW r \in Request, NEW pin \in Models \cup {NoPin},
             NEW params \in BOOLEAN, NEW many \in BOOLEAN, infer(r, pin, params, many)
      PROVE  FullInv'
  BY <1>3, InferStep
<1>4. ASSUME NEW r \in Request, Complete(r) PROVE FullInv'
  BY <1>4, CompleteStep
<1>5. ASSUME NEW r \in Request, Fails(r) PROVE FullInv'
  BY <1>5, RefuseStep DEF Fails
<1>6. CASE UNCHANGED vars
  BY <1>6, StutterStep
<1>7. QED
  BY <1>1, <1>2, <1>3, <1>4, <1>5, <1>6 DEF Next

LEMMA Invariance == Spec => []FullInv
  BY InitInv, NextStep, PTL DEF Spec

-----------------------------------------------------------------------------
\* The types hold for every number of requests and reloads (registry.py,
\* cache.py): no handler leaves a slot that names no batcher.
THEOREM TypeCorrect == Spec => []TypeOK
<1>1. FullInv => TypeOK
  BY DEF FullInv, IInv
<1>2. QED
  BY Invariance, <1>1, PTL

\* A request that pinned a model is never scored by another one, whatever
\* reloads, failed loads, evictions and re-installs do (_resolve_batcher).
THEOREM PinsAnsweredByTheirModel == Spec => []PinnedRightModel
<1>1. FullInv => PinnedRightModel
  BY DEF FullInv, Safe
<1>2. QED
  BY Invariance, <1>1, PTL

\* While reloads do not overlap, every batched decision in the cache that an
\* active slot put there is of the weights the active slot has loaded
\* (ContentHashCache and reload_task), also when the active slot and the
\* variant are on one model.
THEOREM CacheFresh == Spec => []BatchedCacheFresh
<1>1. FullInv => BatchedCacheFresh
  BY DEF FullInv, Safe
<1>2. QED
  BY Invariance, <1>1, PTL

\* While reloads do not overlap, a call without a pin is not answered by the
\* stub beside real weights, where the deployment does not allow it
\* (active_is_stub and real_variants).
THEOREM StubStepsAside == Spec => []StubNeverFabricates
<1>1. FullInv => StubNeverFabricates
  BY DEF FullInv, Safe
<1>2. QED
  BY Invariance, <1>1, PTL
=============================================================================
