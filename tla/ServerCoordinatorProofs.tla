----------------------- MODULE ServerCoordinatorProofs -----------------------
(***************************************************************************)
(* What ServerCoordinator guarantees for any set of work items and any     *)
(* limits.                                                                 *)
(***************************************************************************)
EXTENDS ServerCoordinator, TLAPS, SequenceTheorems, FiniteSetTheorems

\* The limits the coordinator works with never exceed those of its callers.
LimitsKept == buildConcurrency <= Capacity /\ previewBuildConcurrency <= PreviewCapacity

\* Ended work has been drained when new work starts.
DrainedBeforeStart == pc = "starting" => completed = {}

(***************************************************************************)
(* The inductive invariant: what the properties say, that the work in hand *)
(* is finite, and the two facts above.                                     *)
(***************************************************************************)
IInv ==
    /\ TypeOK
    /\ AcceptedOnce
    /\ OneWorkPerApp
    /\ WithinLimits
    /\ NothingLostOnClose
    /\ LimitsKept
    /\ DrainedBeforeStart
    /\ IsFiniteSet(DOMAIN active)

-----------------------------------------------------------------------------
(***************************************************************************)
(* Removing one element of a sequence.                                     *)
(***************************************************************************)
LEMMA RemoveAtProperties ==
    ASSUME NEW S, NEW s \in Seq(S), NEW i \in DOMAIN s
    PROVE  /\ RemoveAt(s, i) \in Seq(S)
           /\ Len(RemoveAt(s, i)) = Len(s) - 1
           /\ \A j \in DOMAIN RemoveAt(s, i) :
                 RemoveAt(s, i)[j] = IF j < i THEN s[j] ELSE s[j + 1]
<1> DEFINE front == SubSeq(s, 1, i - 1)
           back  == SubSeq(s, i + 1, Len(s))
<1> HIDE DEF front, back
<1>0. Len(s) \in Nat /\ DOMAIN s = 1..Len(s) /\ i \in 1..Len(s) /\ \A j \in 1..Len(s) : s[j] \in S
  BY LenProperties, ElementOfSeq
<1>1. /\ front \in Seq(S)
      /\ Len(front) = i - 1
      /\ \A j \in 1..(i - 1) : front[j] = s[j]
  <2>1. \A j \in 1..(i - 1) : s[j] \in S
    BY <1>0
  <2>2. QED
    BY <1>0, <2>1, SubSeqProperties DEF front
<1>2. /\ back \in Seq(S)
      /\ Len(back) = Len(s) - i
      /\ \A j \in 1..(Len(s) - i) : back[j] = s[j + i]
  <2>1. \A j \in (i + 1)..Len(s) : s[j] \in S
    BY <1>0
  <2>2. /\ back \in Seq(S)
        /\ Len(back) = IF i + 1 <= Len(s) THEN Len(s) - (i + 1) + 1 ELSE 0
        /\ \A j \in 1..(Len(s) - (i + 1) + 1) : back[j] = s[(i + 1) + j - 1]
    BY <1>0, <2>1, SubSeqProperties DEF back
  <2>3. Len(s) - (i + 1) + 1 = Len(s) - i
    BY <1>0
  <2>4. Len(back) = Len(s) - i
    BY <1>0, <2>2
  <2>5. ASSUME NEW j \in 1..(Len(s) - i)
        PROVE  back[j] = s[j + i]
    <3>1. (i + 1) + j - 1 = j + i
      BY <1>0
    <3>2. QED
      BY <2>2, <2>3, <3>1
  <2>6. QED
    BY <2>2, <2>4, <2>5
<1>3. /\ front \o back \in Seq(S)
      /\ Len(front \o back) = Len(front) + Len(back)
      /\ \A j \in 1..(Len(front) + Len(back)) :
            (front \o back)[j] = IF j <= Len(front) THEN front[j] ELSE back[j - Len(front)]
  BY <1>1, <1>2, ConcatProperties
<1>4. RemoveAt(s, i) = front \o back
  BY DEF RemoveAt, front, back
<1>5. Len(front \o back) = Len(s) - 1 /\ DOMAIN (front \o back) = 1..(Len(s) - 1)
  <2>1. Len(front \o back) = Len(s) - 1
    BY <1>0, <1>1, <1>2, <1>3
  <2>2. QED
    BY <2>1, <1>3, LenProperties
<1>6. ASSUME NEW j \in 1..(Len(s) - 1)
      PROVE  (front \o back)[j] = IF j < i THEN s[j] ELSE s[j + 1]
  <2>1. CASE j < i
    BY <2>1, <1>0, <1>1, <1>2, <1>3
  <2>2. CASE ~(j < i)
    <3>1. j - (i - 1) \in 1..(Len(s) - i) /\ (j - (i - 1)) + i = j + 1
      BY <2>2, <1>0
    <3>2. back[j - (i - 1)] = s[j + 1]
      BY <3>1, <1>2
    <3>3. (front \o back)[j] = back[j - (i - 1)]
      <4>1. Len(front) = i - 1 /\ Len(back) = Len(s) - i
        BY <1>1, <1>2
      <4>2. j \in 1..(Len(front) + Len(back)) /\ ~(j <= Len(front))
        BY <2>2, <1>0, <4>1
      <4>3. QED
        BY <4>1, <4>2, <1>3
    <3>4. QED
      BY <2>2, <3>2, <3>3
  <2>3. QED
    BY <2>1, <2>2
<1>7. QED
  BY <1>3, <1>4, <1>5, <1>6

(***************************************************************************)
(* What the scheduler's answer tells about the item it names.              *)
(***************************************************************************)
LEMMA NextServerWorkSound ==
    ASSUME NEW q, NEW server, NEW i, NextServerWorkIndex(q, server, i)
    PROVE  /\ i \in DOMAIN q
           /\ server.count < server.buildConcurrency
           /\ IsBarrier(q[i]) => i = 1 /\ server.count = 0
           /\ ~IsBarrier(q[i]) => Eligible(q, server, i)
           /\ IsPreview(q[i]) => server.previews < server.previewBuildConcurrency
           /\ IsScan(q[i]) => server.scans < 1
BY DEF NextServerWorkIndex, HasRoom, IsFirst, StartsAtOnce, PreviewFits, ScanFits, Eligible,
       IsBarrier, IsPreview, IsScan, IsImmediate

-----------------------------------------------------------------------------
(***************************************************************************)
(* Every identity of Items is one of Identities, and the limits a signal   *)
(* sets stay within the callers' largest ones.                             *)
(***************************************************************************)
LEMMA LimitsOfASignal ==
    ASSUME NEW item \in Items, NEW b \in BuildLimits, NEW p \in PreviewLimits
    PROVE  /\ serverWorkIdentity(item) \in Identities
           /\ ClampedBuild(b) \in 1..HighestBuildConcurrency
           /\ ClampedBuild(b) <= Capacity
           /\ ClampedPreview(item, b, p) \in 1..ClampedBuild(b)
           /\ ClampedPreview(item, b, p) <= PreviewCapacity
<1>1. b \in Nat /\ p \in Nat /\ p <= PreviewCapacity /\ PreviewCapacity \in Nat \ {0}
  BY LimitsAssumption
<1>2. ClampedBuild(b) \in 1..HighestBuildConcurrency
  BY <1>1 DEF ClampedBuild, AtLeastOne, AtMost, HighestBuildConcurrency
<1>3. ClampedPreview(item, b, p) \in 1..ClampedBuild(b)
  BY <1>1, <1>2 DEF ClampedPreview, AtLeastOne, AtMost, HighestBuildConcurrency
<1>4. ClampedPreview(item, b, p) <= PreviewCapacity
  BY <1>1, <1>2 DEF ClampedPreview, AtLeastOne, AtMost, HighestBuildConcurrency
<1>5. QED
  BY <1>2, <1>3, <1>4, LimitsAssumption DEF Identities

(***************************************************************************)
(* The work of a queued item is not at work, so starting it adds one.      *)
(***************************************************************************)
LEMMA StartAddsOne ==
    ASSUME IInv, NEW i \in DOMAIN queue, StartWork(i)
    PROVE  LET work == serverWorkIdentity(queue[i])
           IN  /\ queue[i] \in Items
               /\ work \in Identities
               /\ work \notin DOMAIN active
               /\ DOMAIN active' = DOMAIN active \cup {work}
               /\ active'[work] = queue[i]
               /\ \A w \in DOMAIN active : active'[w] = active[w]
               /\ IsFiniteSet(DOMAIN active')
               /\ activeCount' = activeCount + 1
<1> DEFINE work == serverWorkIdentity(queue[i])
<1>1. queue[i] \in Items
  BY LenProperties, ElementOfSeq DEF IInv, TypeOK
<1>2. work \in Identities
  BY <1>1 DEF Identities
<1>3. work \notin DOMAIN active
  BY DEF IInv, AcceptedOnce, Queued
<1>4. active' = [w \in DOMAIN active \cup {work} |-> IF w = work THEN queue[i] ELSE active[w]]
  BY DEF StartWork
<1> HIDE DEF work
<1>5. DOMAIN active' = DOMAIN active \cup {work}
  BY <1>4
<1>6. IsFiniteSet(DOMAIN active') /\ Cardinality(DOMAIN active') = Cardinality(DOMAIN active) + 1
  BY <1>3, <1>5, FS_AddElement DEF IInv
<1>7. active'[work] = queue[i] /\ \A w \in DOMAIN active : active'[w] = active[w]
  BY <1>3, <1>4
<1>8. QED
  BY <1>1, <1>2, <1>3, <1>5, <1>6, <1>7 DEF activeCount, work

(***************************************************************************)
(* Initially there is no work.                                             *)
(***************************************************************************)
LEMMA InitIInv == Init => IInv
<1> SUFFICES ASSUME Init PROVE IInv
  OBVIOUS
<1>1. DOMAIN active = {} /\ queue = <<>> /\ DOMAIN queue = {}
  BY DEF Init, NoWork
<1>2. TypeOK
  BY <1>1, EmptySeq DEF Init, TypeOK, HighestBuildConcurrency
<1>3. AcceptedOnce /\ OneWorkPerApp /\ NothingLostOnClose /\ DrainedBeforeStart
  BY <1>1 DEF Init, AcceptedOnce, Queued, OneWorkPerApp, NothingLostOnClose, DrainedBeforeStart
<1>4. LimitsKept
  BY LimitsAssumption DEF Init, LimitsKept
<1>5. IsFiniteSet(DOMAIN active) /\ WithinLimits
  <2>1. /\ {w \in DOMAIN active : IsPreview(active[w])} = {}
        /\ {w \in DOMAIN active : IsScan(active[w])} = {}
    BY <1>1
  <2>2. activeCount = 0 /\ activePreviewCount = 0 /\ activeVulnerabilityScanCount = 0
    BY <1>1, <2>1, FS_EmptySet DEF activeCount, activePreviewCount, activeVulnerabilityScanCount
  <2>3. QED
    BY <1>1, <2>2, FS_EmptySet, LimitsAssumption DEF WithinLimits
<1>6. QED
  BY <1>2, <1>3, <1>4, <1>5 DEF IInv

-----------------------------------------------------------------------------
(***************************************************************************)
(* One lemma per action: it preserves the invariant.                       *)
(***************************************************************************)
LEMMA EnqueueKeepsIInv ==
    ASSUME IInv, NEW item \in Items, NEW b \in BuildLimits, NEW p \in PreviewLimits,
           EnqueueServerWork(item, b, p)
    PROVE  IInv'
<1> DEFINE work == serverWorkIdentity(item)
<1>1. /\ pc' \in {"draining", "idle", "waiting"}
      /\ pc' = "idle" => pc = "idle"
      /\ UNCHANGED <<active, completed>>
  BY DEF EnqueueServerWork, IInv, TypeOK
<1>2. CASE work \in seen
  <2>1. UNCHANGED <<queue, seen, active, completed, buildConcurrency, previewBuildConcurrency>>
    BY <1>2 DEF EnqueueServerWork, limits
  <2>2. QED
    BY <1>1, <2>1 DEF IInv, TypeOK, AcceptedOnce, Queued, OneWorkPerApp, WithinLimits,
       activeCount, activePreviewCount, activeVulnerabilityScanCount,
       NothingLostOnClose, LimitsKept, DrainedBeforeStart
<1>3. CASE work \notin seen
  <2>1. /\ seen' = seen \cup {work}
        /\ buildConcurrency' = ClampedBuild(b)
        /\ previewBuildConcurrency' = ClampedPreview(item, b, p)
        /\ queue' = Append(queue, item)
    BY <1>3 DEF EnqueueServerWork
  <2>2. /\ queue' \in Seq(Items)
        /\ Len(queue') = Len(queue) + 1
        /\ Len(queue) \in Nat
        /\ DOMAIN queue = 1..Len(queue)
        /\ DOMAIN queue' = 1..(Len(queue) + 1)
        /\ queue'[Len(queue) + 1] = item
        /\ \A j \in 1..Len(queue) : queue'[j] = queue[j]
    BY <2>1, AppendProperties, LenProperties DEF IInv, TypeOK
  <2>3. work \notin Queued /\ work \notin DOMAIN active
    BY <1>3 DEF IInv, AcceptedOnce
  <2>4. TypeOK'
    BY <1>1, <2>1, <2>2, LimitsOfASignal DEF IInv, TypeOK
  <2>5. Queued' = Queued \cup {work}
    BY <2>2 DEF Queued
  <2>6. \A j, k \in DOMAIN queue' :
           serverWorkIdentity(queue'[j]) = serverWorkIdentity(queue'[k]) => j = k
    <3>1. SUFFICES ASSUME NEW j \in 1..(Len(queue) + 1), NEW k \in 1..(Len(queue) + 1),
                          serverWorkIdentity(queue'[j]) = serverWorkIdentity(queue'[k])
                   PROVE  j = k
      BY <2>2
    <3>2. CASE j \in 1..Len(queue) /\ k \in 1..Len(queue)
      BY <3>1, <3>2, <2>2 DEF IInv, AcceptedOnce
    <3>3. CASE j = Len(queue) + 1 /\ k = Len(queue) + 1
      BY <3>3
    <3>4. CASE j = Len(queue) + 1 /\ k \in 1..Len(queue)
      BY <3>1, <3>4, <2>2, <2>3 DEF Queued
    <3>5. CASE j \in 1..Len(queue) /\ k = Len(queue) + 1
      BY <3>1, <3>5, <2>2, <2>3 DEF Queued
    <3>6. QED
      BY <2>2, <3>2, <3>3, <3>4, <3>5
  <2>7. AcceptedOnce'
    BY <1>1, <2>1, <2>3, <2>5, <2>6 DEF IInv, AcceptedOnce
  <2>8. LimitsKept'
    BY <2>1, LimitsOfASignal DEF LimitsKept
  <2>9. QED
    BY <1>1, <2>4, <2>7, <2>8 DEF IInv, OneWorkPerApp, WithinLimits, activeCount,
       activePreviewCount, activeVulnerabilityScanCount, NothingLostOnClose,
       DrainedBeforeStart
<1>4. QED
  BY <1>2, <1>3

LEMMA DrainKeepsIInv ==
    ASSUME IInv, Drain
    PROVE  IInv'
<1>1. /\ pc' = "starting"
      /\ completed' = {}
      /\ DOMAIN active' = DOMAIN active \ completed
      /\ \A w \in DOMAIN active' : active'[w] = active[w]
      /\ UNCHANGED <<queue, seen, buildConcurrency, previewBuildConcurrency>>
  BY DEF Drain, limits
<1>2. TypeOK'
  BY <1>1 DEF IInv, TypeOK
<1>3. AcceptedOnce'
  BY <1>1 DEF IInv, AcceptedOnce, Queued
<1>4. OneWorkPerApp'
  BY <1>1 DEF IInv, OneWorkPerApp
<1>5. IsFiniteSet(DOMAIN active') /\ WithinLimits'
  <2>1. /\ DOMAIN active' \subseteq DOMAIN active
        /\ {w \in DOMAIN active' : IsPreview(active'[w])}
              \subseteq {w \in DOMAIN active : IsPreview(active[w])}
        /\ {w \in DOMAIN active' : IsScan(active'[w])}
              \subseteq {w \in DOMAIN active : IsScan(active[w])}
    BY <1>1
  <2>2. /\ IsFiniteSet(DOMAIN active)
        /\ IsFiniteSet({w \in DOMAIN active : IsPreview(active[w])})
        /\ IsFiniteSet({w \in DOMAIN active : IsScan(active[w])})
    BY FS_Subset DEF IInv
  <2>3. /\ IsFiniteSet(DOMAIN active')
        /\ activeCount' <= activeCount
        /\ activePreviewCount' <= activePreviewCount
        /\ activeVulnerabilityScanCount' <= activeVulnerabilityScanCount
    BY <2>1, <2>2, FS_Subset
       DEF activeCount, activePreviewCount, activeVulnerabilityScanCount
  <2>4. /\ activeCount \in Nat /\ activeCount' \in Nat
        /\ activePreviewCount \in Nat /\ activePreviewCount' \in Nat
        /\ activeVulnerabilityScanCount \in Nat /\ activeVulnerabilityScanCount' \in Nat
    BY <2>1, <2>2, FS_Subset, FS_CardinalityType
       DEF activeCount, activePreviewCount, activeVulnerabilityScanCount
  <2>5. QED
    BY <2>3, <2>4, LimitsAssumption DEF IInv, WithinLimits
<1>6. NothingLostOnClose' /\ LimitsKept' /\ DrainedBeforeStart'
  BY <1>1 DEF IInv, NothingLostOnClose, LimitsKept, DrainedBeforeStart
<1>7. QED
  BY <1>2, <1>3, <1>4, <1>5, <1>6 DEF IInv

LEMMA StartWorkKeepsIInv ==
    ASSUME IInv, NEW i \in DOMAIN queue, StartWork(i)
    PROVE  IInv'
<1> DEFINE work == serverWorkIdentity(queue[i])
<1>1. /\ pc = "starting" /\ pc' = "starting"
      /\ queue' = RemoveAt(queue, i)
      /\ UNCHANGED <<seen, completed, buildConcurrency, previewBuildConcurrency>>
      /\ NextServerWorkIndex(queue, Server, i)
  BY DEF StartWork, limits, CanStart
<1>2. /\ queue[i] \in Items
      /\ work \in Identities
      /\ work \notin DOMAIN active
      /\ DOMAIN active' = DOMAIN active \cup {work}
      /\ active'[work] = queue[i]
      /\ \A w \in DOMAIN active : active'[w] = active[w]
      /\ IsFiniteSet(DOMAIN active')
      /\ activeCount' = activeCount + 1
  BY StartAddsOne
<1>3. /\ activeCount < buildConcurrency
      /\ IsBarrier(queue[i]) => i = 1 /\ activeCount = 0
      /\ ~IsBarrier(queue[i]) => queue[i].app \notin activeAppIds /\ queue[i].app # NoApp
      /\ IsPreview(queue[i]) => activePreviewCount < previewBuildConcurrency
      /\ IsScan(queue[i]) => activeVulnerabilityScanCount < 1
  BY <1>1, NextServerWorkSound DEF Server, Eligible
<1>4. /\ Len(queue) \in Nat /\ DOMAIN queue = 1..Len(queue)
      /\ queue' \in Seq(Items)
      /\ DOMAIN queue' = 1..(Len(queue) - 1)
      /\ \A j \in DOMAIN queue' : queue'[j] = IF j < i THEN queue[j] ELSE queue[j + 1]
  BY <1>1, RemoveAtProperties, LenProperties DEF IInv, TypeOK
<1> HIDE DEF work
<1>5. TypeOK'
  BY <1>1, <1>2, <1>4 DEF IInv, TypeOK, work
<1>6. AcceptedOnce'
  <2> DEFINE at(j) == IF j < i THEN j ELSE j + 1
  <2>1. ASSUME NEW j \in DOMAIN queue'
        PROVE  /\ at(j) \in DOMAIN queue /\ at(j) # i
               /\ queue'[j] = queue[at(j)]
    BY <2>1, <1>4
  <2>2. ASSUME NEW j \in DOMAIN queue', NEW k \in DOMAIN queue', at(j) = at(k)
        PROVE  j = k
    BY <2>2, <1>4
  <2>3. work \notin Queued'
    BY <2>1 DEF IInv, AcceptedOnce, Queued, work
  <2>4. Queued' \subseteq Queued /\ work \in Queued
    BY <2>1 DEF Queued, work
  <2>5. \A j, k \in DOMAIN queue' :
           serverWorkIdentity(queue'[j]) = serverWorkIdentity(queue'[k]) => j = k
    <3> HIDE DEF at
    <3>1. QED
      BY <2>1, <2>2 DEF IInv, AcceptedOnce
  <2>6. QED
    BY <1>1, <1>2, <2>3, <2>4, <2>5 DEF IInv, AcceptedOnce
<1>7. OneWorkPerApp'
  <2>1. SUFFICES ASSUME NEW v \in DOMAIN active', NEW w \in DOMAIN active',
                        active'[v].app = active'[w].app, active'[v].app # NoApp
                 PROVE  v = w
    BY DEF OneWorkPerApp
  <2>2. CASE v # work /\ w # work
    BY <2>1, <2>2, <1>2 DEF IInv, OneWorkPerApp
  <2>3. CASE v = work /\ w = work
    BY <2>3
  <2>4. ASSUME NEW u \in DOMAIN active, active[u].app = queue[i].app,
               queue[i].app # NoApp
        PROVE  FALSE
    <3>1. queue[i].app \in activeAppIds
      BY <2>4 DEF activeAppIds, ActiveItems
    <3>2. IsBarrier(queue[i]) /\ activeCount = 0
      BY <3>1, <1>3
    <3>3. QED
      BY <3>2, FS_EmptySet DEF IInv, activeCount
  <2>5. QED
    BY <1>2, <2>1, <2>2, <2>3, <2>4
<1>8. WithinLimits'
  <2>1. activeCount' <= Capacity
    <3>1. activeCount \in Nat
      BY FS_CardinalityType DEF IInv, activeCount
    <3>2. QED
      BY <1>2, <1>3, <3>1, LimitsAssumption DEF IInv, LimitsKept, TypeOK
  <2> DEFINE previews == {w \in DOMAIN active : IsPreview(active[w])}
             scans    == {w \in DOMAIN active : IsScan(active[w])}
  <2>2. /\ IsFiniteSet(previews) /\ Cardinality(previews) \in Nat
        /\ IsFiniteSet(scans) /\ Cardinality(scans) \in Nat
    BY FS_Subset, FS_CardinalityType DEF IInv
  <2>3. activePreviewCount' <= PreviewCapacity
    <3>1. CASE IsPreview(queue[i])
      <4>1. {w \in DOMAIN active' : IsPreview(active'[w])} = previews \cup {work}
        BY <1>2, <3>1
      <4>2. Cardinality(previews \cup {work}) = Cardinality(previews) + 1
        BY <1>2, <2>2, FS_AddElement
      <4>3. activePreviewCount' = activePreviewCount + 1 /\ activePreviewCount \in Nat
        BY <4>1, <4>2, <2>2 DEF activePreviewCount
      <4>4. activePreviewCount < previewBuildConcurrency
        BY <1>3, <3>1
      <4>5. QED
        BY <4>3, <4>4, LimitsAssumption DEF IInv, LimitsKept, TypeOK
    <3>2. CASE ~IsPreview(queue[i])
      <4>1. {w \in DOMAIN active' : IsPreview(active'[w])} = previews
        BY <1>2, <3>2
      <4>2. QED
        BY <4>1 DEF IInv, WithinLimits, activePreviewCount
    <3>3. QED
      BY <3>1, <3>2
  <2>4. activeVulnerabilityScanCount' <= 1
    <3>1. CASE IsScan(queue[i])
      <4>1. {w \in DOMAIN active' : IsScan(active'[w])} = scans \cup {work}
        BY <1>2, <3>1
      <4>2. Cardinality(scans \cup {work}) = Cardinality(scans) + 1
        BY <1>2, <2>2, FS_AddElement
      <4>3. /\ activeVulnerabilityScanCount' = activeVulnerabilityScanCount + 1
            /\ activeVulnerabilityScanCount \in Nat
        BY <4>1, <4>2, <2>2 DEF activeVulnerabilityScanCount
      <4>4. activeVulnerabilityScanCount < 1
        BY <1>3, <3>1
      <4>5. QED
        BY <4>3, <4>4
    <3>2. CASE ~IsScan(queue[i])
      <4>1. {w \in DOMAIN active' : IsScan(active'[w])} = scans
        BY <1>2, <3>2
      <4>2. QED
        BY <4>1 DEF IInv, WithinLimits, activeVulnerabilityScanCount
    <3>3. QED
      BY <3>1, <3>2
  <2>5. QED
    BY <2>1, <2>3, <2>4 DEF WithinLimits
<1>9. NothingLostOnClose' /\ LimitsKept' /\ DrainedBeforeStart'
  BY <1>1 DEF IInv, NothingLostOnClose, LimitsKept, DrainedBeforeStart
<1>10. QED
  BY <1>2, <1>5, <1>6, <1>7, <1>8, <1>9 DEF IInv

LEMMA WorkEndsKeepsIInv ==
    ASSUME IInv, NEW w, WorkEnds(w)
    PROVE  IInv'
BY DEF IInv, WorkEnds, limits, TypeOK, AcceptedOnce, Queued, OneWorkPerApp, WithinLimits,
   activeCount, activePreviewCount, activeVulnerabilityScanCount, NothingLostOnClose,
   LimitsKept, DrainedBeforeStart

LEMMA AwaitOrWakeKeepsIInv ==
    ASSUME IInv, Await \/ Wake
    PROVE  IInv'
<1>1. /\ pc' \in {"idle", "waiting", "draining"}
      /\ pc' = "idle" => DOMAIN active = {}
      /\ UNCHANGED <<queue, seen, active, completed, buildConcurrency, previewBuildConcurrency>>
  BY DEF Await, Wake, limits
<1>2. QED
  BY <1>1 DEF IInv, TypeOK, AcceptedOnce, Queued, OneWorkPerApp, WithinLimits,
     activeCount, activePreviewCount, activeVulnerabilityScanCount, NothingLostOnClose,
     LimitsKept, DrainedBeforeStart

LEMMA IdleTimeoutKeepsIInv ==
    ASSUME IInv, IdleTimeout
    PROVE  IInv'
<1>1. /\ pc = "idle" /\ pc' = "closed"
      /\ queue = <<>> /\ DOMAIN queue = {} /\ DOMAIN active = {}
      /\ seen' = {} /\ buildConcurrency' = 1 /\ previewBuildConcurrency' = 1
      /\ UNCHANGED <<queue, active, completed>>
  BY DEF IdleTimeout, IInv, NothingLostOnClose
<1>2. TypeOK' /\ AcceptedOnce'
  BY <1>1 DEF IInv, TypeOK, AcceptedOnce, Queued, HighestBuildConcurrency
<1>3. LimitsKept'
  BY <1>1, LimitsAssumption DEF LimitsKept
<1>4. QED
  BY <1>1, <1>2, <1>3 DEF IInv, OneWorkPerApp, WithinLimits, activeCount,
     activePreviewCount, activeVulnerabilityScanCount, NothingLostOnClose, DrainedBeforeStart

LEMMA StutterKeepsIInv ==
    ASSUME IInv, UNCHANGED vars
    PROVE  IInv'
BY DEF vars, IInv, TypeOK, AcceptedOnce, Queued, OneWorkPerApp, WithinLimits, activeCount,
   activePreviewCount, activeVulnerabilityScanCount, NothingLostOnClose, LimitsKept,
   DrainedBeforeStart

LEMMA NextKeepsIInv == IInv /\ [Next]_vars => IInv'
<1> SUFFICES ASSUME IInv, [Next]_vars PROVE IInv'
  OBVIOUS
<1>1. CASE Signal
  BY <1>1, EnqueueKeepsIInv DEF Signal
<1>2. CASE Drain
  BY <1>2, DrainKeepsIInv
<1>3. ASSUME NEW i \in DOMAIN queue, StartWork(i) PROVE IInv'
  BY <1>3, StartWorkKeepsIInv
<1>4. CASE Await \/ Wake
  BY <1>4, AwaitOrWakeKeepsIInv
<1>5. CASE IdleTimeout
  BY <1>5, IdleTimeoutKeepsIInv
<1>6. ASSUME NEW w \in DOMAIN active, WorkEnds(w) PROVE IInv'
  BY <1>6, WorkEndsKeepsIInv
<1>7. CASE UNCHANGED vars
  BY <1>7, StutterKeepsIInv
<1>8. QED
  BY <1>1, <1>2, <1>3, <1>4, <1>5, <1>6, <1>7 DEF Next, MainLoop

-----------------------------------------------------------------------------
(***************************************************************************)
(* The theorems.                                                           *)
(***************************************************************************)

\* The inductive invariant holds in every reachable state of the coordinator.
THEOREM Invariance == Spec => []IInv
<1>1. Init => IInv
  BY InitIInv
<1>2. IInv /\ [Next]_vars => IInv'
  BY NextKeepsIInv
<1>3. QED
  BY <1>1, <1>2, PTL DEF Spec

\* Every variable of the coordinator keeps its type.
THEOREM TypeCorrect == Spec => []TypeOK
<1>1. IInv => TypeOK
  BY DEF IInv
<1>2. QED
  BY <1>1, Invariance, PTL

\* No run of the coordinator accepts or starts the same work twice.
THEOREM AcceptsOnce == Spec => []AcceptedOnce
<1>1. IInv => AcceptedOnce
  BY DEF IInv
<1>2. QED
  BY <1>1, Invariance, PTL

\* Two items of one application are never at work together.
THEOREM AppExclusion == Spec => []OneWorkPerApp
<1>1. IInv => OneWorkPerApp
  BY DEF IInv
<1>2. QED
  BY <1>1, Invariance, PTL

\* The work at hand stays within the largest limits any caller sent.
THEOREM LimitsHold == Spec => []WithinLimits
<1>1. IInv => WithinLimits
  BY DEF IInv
<1>2. QED
  BY <1>1, Invariance, PTL

\* A coordinator that gives up has no work left.
THEOREM ClosesEmpty == Spec => []NothingLostOnClose
<1>1. IInv => NothingLostOnClose
  BY DEF IInv
<1>2. QED
  BY <1>1, Invariance, PTL

\* What holds of a coordinator at every moment.
THEOREM CoordinatorIsSound == Spec => []CoordinatorInv
<1>1. IInv => CoordinatorInv
  BY DEF IInv, CoordinatorInv
<1>2. QED
  BY <1>1, Invariance, PTL

-----------------------------------------------------------------------------
(***************************************************************************)
(* Begin, seen from the queue: the item that begins in a step is the one   *)
(* the scheduler picked.                                                   *)
(***************************************************************************)
LEMMA BeginsOnlyWhenPicked ==
    ASSUME IInv, [Next]_vars, NEW j \in DOMAIN queue, Begins(j)
    PROVE  CanStart(j)
<1> DEFINE work(k) == serverWorkIdentity(queue[k])
<1>1. ASSUME DOMAIN active' \subseteq DOMAIN active
      PROVE  FALSE
  BY <1>1 DEF Begins
<1>2. ASSUME NEW i \in DOMAIN queue, StartWork(i)
      PROVE  CanStart(j)
  <2>1. DOMAIN active' = DOMAIN active \cup {work(i)}
    BY <1>2 DEF StartWork
  <2>2. work(j) = work(i)
    BY <2>1 DEF Begins
  <2>3. j = i
    BY <2>2 DEF IInv, AcceptedOnce
  <2>4. QED
    BY <1>2, <2>3 DEF StartWork
<1>3. CASE Signal
  BY <1>1, <1>3 DEF Signal, EnqueueServerWork
<1>4. CASE Drain
  BY <1>1, <1>4 DEF Drain
<1>5. CASE Await \/ Wake \/ IdleTimeout \/ \E w \in DOMAIN active : WorkEnds(w)
  BY <1>1, <1>5 DEF Await, Wake, IdleTimeout, WorkEnds
<1>6. CASE UNCHANGED vars
  BY <1>1, <1>6 DEF vars
<1>7. QED
  BY <1>2, <1>3, <1>4, <1>5, <1>6 DEF Next, MainLoop

LEMMA QueuePositions ==
    ASSUME IInv
    PROVE  DOMAIN queue = 1..Len(queue) /\ Len(queue) \in Nat
BY LenProperties DEF IInv, TypeOK

\* What was signalled after a barrier never begins before it.
THEOREM BarriersKeepTheirPlace == Spec => BarrierNotOvertaken
<1>1. ASSUME IInv, [Next]_vars, NEW i \in DOMAIN queue, NEW j \in DOMAIN queue,
             IsBarrier(queue[i]), i < j, Begins(j)
      PROVE  FALSE
  <2>1. NextServerWorkIndex(queue, Server, j)
    BY <1>1, BeginsOnlyWhenPicked DEF CanStart
  <2>2. i \in 1..(j - 1) /\ j # 1
    BY <1>1, QueuePositions
  <2>3. ~Reached(queue, j)
    BY <1>1, <2>2 DEF Reached
  <2>4. QED
    BY <1>1, <2>1, <2>2, <2>3 DEF NextServerWorkIndex, IsFirst, StartsAtOnce, Eligible
<1>2. IInv /\ [Next]_vars =>
        [\A i, j \in DOMAIN queue : IsBarrier(queue[i]) /\ i < j => ~Begins(j)]_vars
  BY <1>1
<1>3. QED
  BY <1>2, Invariance, PTL DEF Spec, BarrierNotOvertaken

\* Production work of one application begins in the order it was signalled.
THEOREM AppOrderKept == Spec => SameAppInOrder
<1>1. ASSUME IInv, [Next]_vars, NEW i \in DOMAIN queue, NEW j \in DOMAIN queue,
             i < j, queue[i].app = queue[j].app,
             IsImmediate(queue[i]), IsImmediate(queue[j]), Begins(j)
      PROVE  FALSE
  <2>1. NextServerWorkIndex(queue, Server, j)
    BY <1>1, BeginsOnlyWhenPicked DEF CanStart
  <2>2. i \in 1..(j - 1) /\ ~(j <= i) /\ \A k \in 1..(i - 1) : k \in 1..(j - 1)
    BY <1>1, QueuePositions
  <2>3. ~IsPreview(queue[j]) /\ ~IsScan(queue[j])
    BY <1>1 DEF IsImmediate, IsPreview, IsScan
  <2>4. StartsAtOnce(queue, Server, j) /\ ~StartsAtOnce(queue, Server, i)
    BY <1>1, <2>1, <2>2, <2>3 DEF NextServerWorkIndex, IsFirst, PreviewFits, ScanFits
  <2>5. Eligible(queue, Server, j) /\ ~Eligible(queue, Server, i)
    BY <1>1, <2>4 DEF StartsAtOnce
  <2>6. QED
    BY <1>1, <2>2, <2>5 DEF Eligible, Reached
<1>2. IInv /\ [Next]_vars =>
        [\A i, j \in DOMAIN queue :
            /\ i < j
            /\ queue[i].app = queue[j].app
            /\ IsImmediate(queue[i]) /\ IsImmediate(queue[j])
            => ~Begins(j)]_vars
  BY <1>1
<1>3. QED
  BY <1>2, Invariance, PTL DEF Spec, SameAppInOrder

\* Previews and scans begin only when no production or maintenance work could.
THEOREM ProductionGoesFirst == Spec => ProductionFirst
<1>1. ASSUME IInv, [Next]_vars, NEW i \in DOMAIN queue, NEW j \in DOMAIN queue,
             IsPreview(queue[j]) \/ IsScan(queue[j]), Begins(j)
      PROVE  /\ ~IsBarrier(queue[i])
             /\ IsImmediate(queue[i]) => queue[i].app \in activeAppIds \cup {NoApp}
  <2>1. NextServerWorkIndex(queue, Server, j)
    BY <1>1, BeginsOnlyWhenPicked DEF CanStart
  <2>2. ~IsImmediate(queue[j]) /\ ~IsBarrier(queue[j])
    BY <1>1 DEF IsImmediate, IsBarrier, IsPreview, IsScan
  <2>3. \A k \in DOMAIN queue : ~StartsAtOnce(queue, Server, k) /\ ~IsBarrier(queue[k])
    BY <2>1, <2>2 DEF NextServerWorkIndex, IsFirst, StartsAtOnce
  <2>4. Reached(queue, i)
    BY <2>3, QueuePositions, <1>1 DEF Reached
  <2>5. QED
    BY <2>3, <2>4 DEF StartsAtOnce, Eligible, Server
<1>2. IInv /\ [Next]_vars =>
        [\A i, j \in DOMAIN queue :
            /\ IsPreview(queue[j]) \/ IsScan(queue[j])
            /\ Begins(j)
            => /\ ~IsBarrier(queue[i])
               /\ IsImmediate(queue[i]) => queue[i].app \in activeAppIds \cup {NoApp}]_vars
  BY <1>1
<1>3. QED
  BY <1>2, Invariance, PTL DEF Spec, ProductionFirst

-----------------------------------------------------------------------------
(***************************************************************************)
(* The coordinator implements ServerAccess: one lemma for each step that   *)
(* is not a stutter there.                                                 *)
(***************************************************************************)
running == [w \in AtWork |-> active[w]]

\* The operators ServerAccess brings along are those of this module.
LEMMA SameOperators ==
    ASSUME NEW item
    PROVE  /\ Access!serverWorkIdentity(item) = serverWorkIdentity(item)
           /\ Access!IsBarrier(item) <=> IsBarrier(item)
           /\ Access!IsScan(item) <=> IsScan(item)
BY DEF Access!serverWorkIdentity, serverWorkIdentity, Access!IsBarrier, IsBarrier,
       Access!IsScan, IsScan

LEMMA SameCardinality ==
    ASSUME NEW S
    PROVE  Access!Cardinality(S) = Cardinality(S)
BY DEF Access!Cardinality, Cardinality

LEMMA InitImplementsAccess == Init => Access!Init
BY EmptySeq DEF Init, NoWork, Access!Init, AtWork, ToSet

LEMMA EnqueueImplementsAccept ==
    ASSUME IInv, NEW item \in Items, NEW b \in BuildLimits, NEW p \in PreviewLimits,
           EnqueueServerWork(item, b, p)
    PROVE  Access!Accept(item) \/ UNCHANGED <<ToSet(queue), running>>
<1>1. UNCHANGED running
  BY DEF EnqueueServerWork, running, AtWork
<1>2. CASE serverWorkIdentity(item) \in seen
  BY <1>1, <1>2 DEF EnqueueServerWork, ToSet
<1>3. CASE serverWorkIdentity(item) \notin seen
  <2>1. queue' = Append(queue, item)
    BY <1>3 DEF EnqueueServerWork
  <2>2. ToSet(queue') = ToSet(queue) \cup {item}
    <3>1. /\ Len(queue) \in Nat
          /\ DOMAIN queue = 1..Len(queue)
          /\ DOMAIN queue' = 1..(Len(queue) + 1)
          /\ queue'[Len(queue) + 1] = item
          /\ \A j \in 1..Len(queue) : queue'[j] = queue[j]
      BY <2>1, AppendProperties, LenProperties DEF IInv, TypeOK
    <3>2. QED
      BY <3>1 DEF ToSet
  <2>3. serverWorkIdentity(item) \notin Queued /\ serverWorkIdentity(item) \notin AtWork
    BY <1>3 DEF IInv, AcceptedOnce, AtWork
  <2>4. serverWorkIdentity(item) \notin Access!Outstanding
    BY <2>3, SameOperators DEF Access!Outstanding, Queued, ToSet
  <2>5. QED
    BY <1>1, <2>2, <2>4, SameOperators DEF Access!Accept, running
<1>4. QED
  BY <1>2, <1>3

LEMMA StartWorkImplementsBegin ==
    ASSUME IInv, NEW i \in DOMAIN queue, StartWork(i),
           NEW item \in Items, item = queue[i]
    PROVE  Access!Begin(item)
<1> DEFINE work == serverWorkIdentity(queue[i])
<1>1. /\ queue' = RemoveAt(queue, i)
      /\ completed = {} /\ completed' = {}
      /\ NextServerWorkIndex(queue, Server, i)
  BY DEF StartWork, CanStart, IInv, DrainedBeforeStart
<1>2. AtWork = DOMAIN active /\ AtWork' = DOMAIN active'
  BY <1>1 DEF AtWork
<1>3. running = [w \in DOMAIN active |-> active[w]] /\ DOMAIN running = DOMAIN active
  BY <1>2 DEF running
<1>4. /\ activeCount < buildConcurrency
      /\ IsBarrier(queue[i]) => activeCount = 0
      /\ ~IsBarrier(queue[i]) => queue[i].app \notin activeAppIds /\ queue[i].app # NoApp
      /\ IsScan(queue[i]) => activeVulnerabilityScanCount < 1
  BY <1>1, NextServerWorkSound DEF Server, Eligible
<1>5. Cardinality(DOMAIN running) < Capacity
  <2>1. activeCount \in Nat
    BY FS_CardinalityType DEF IInv, activeCount
  <2>2. QED
    BY <1>3, <1>4, <2>1, LimitsAssumption DEF IInv, LimitsKept, TypeOK, activeCount
<1>6. IF IsBarrier(queue[i])
      THEN DOMAIN running = {}
      ELSE \A w \in DOMAIN running : running[w].app # queue[i].app
  <2>1. CASE IsBarrier(queue[i])
    BY <1>3, <1>4, <2>1, FS_EmptySet DEF IInv, activeCount
  <2>2. CASE ~IsBarrier(queue[i])
    BY <1>3, <1>4, <2>2 DEF activeAppIds, ActiveItems
  <2>3. QED
    BY <2>1, <2>2
<1>7. IsScan(queue[i]) => \A w \in DOMAIN running : ~IsScan(running[w])
  <2> DEFINE scans == {w \in DOMAIN active : IsScan(active[w])}
  <2>1. ASSUME IsScan(queue[i]) PROVE scans = {}
    <3>1. IsFiniteSet(scans) /\ Cardinality(scans) \in Nat
      BY FS_Subset, FS_CardinalityType DEF IInv
    <3>2. Cardinality(scans) = 0
      BY <1>4, <2>1, <3>1 DEF activeVulnerabilityScanCount
    <3>3. QED
      BY <3>1, <3>2, FS_EmptySet
  <2>2. QED
    BY <1>3, <2>1
<1>8. ToSet(queue') = ToSet(queue) \ {queue[i]}
  <2>1. /\ Len(queue) \in Nat /\ DOMAIN queue = 1..Len(queue)
        /\ DOMAIN queue' = 1..(Len(queue) - 1)
        /\ \A j \in DOMAIN queue' : queue'[j] = IF j < i THEN queue[j] ELSE queue[j + 1]
    BY <1>1, RemoveAtProperties, LenProperties DEF IInv, TypeOK
  <2>2. \A j \in DOMAIN queue : queue[j] = queue[i] => j = i
    BY DEF IInv, AcceptedOnce
  <2>3. ASSUME NEW j \in DOMAIN queue'
        PROVE  queue'[j] \in ToSet(queue) \ {queue[i]}
    BY <2>1, <2>2 DEF ToSet
  <2>4. ASSUME NEW j \in DOMAIN queue, queue[j] # queue[i]
        PROVE  queue[j] \in ToSet(queue')
    <3>1. CASE j < i
      <4>1. j \in DOMAIN queue' /\ queue'[j] = queue[j]
        BY <2>1, <3>1
      <4>2. QED
        BY <4>1 DEF ToSet
    <3>2. CASE ~(j < i)
      <4>1. j - 1 \in DOMAIN queue' /\ queue'[j - 1] = queue[j]
        BY <2>1, <2>4, <3>2
      <4>2. QED
        BY <4>1 DEF ToSet
    <3>3. QED
      BY <3>1, <3>2
  <2>5. QED
    BY <2>3, <2>4 DEF ToSet
<1>9. running' = [w \in DOMAIN running \cup {work} |->
                    IF w = work THEN queue[i] ELSE running[w]]
  <2>1. active' = [w \in DOMAIN active \cup {work} |->
                     IF w = work THEN queue[i] ELSE active[w]]
    BY DEF StartWork
  <2>2. running' = [w \in DOMAIN active' |-> active'[w]]
    BY <1>2 DEF running
  <2>3. QED
    BY <1>3, <2>1, <2>2
<1>10. queue[i] \in ToSet(queue)
  BY DEF ToSet
<1>11. QED
  BY <1>5, <1>6, <1>7, <1>8, <1>9, <1>10, SameOperators, SameCardinality
     DEF Access!Begin, running

LEMMA WorkEndsImplementsEnd ==
    ASSUME IInv, NEW w, WorkEnds(w)
    PROVE  w \in DOMAIN running /\ Access!End(w)
<1>1. w \in AtWork /\ AtWork' = AtWork \ {w} /\ UNCHANGED <<queue, active>>
  BY DEF WorkEnds, AtWork
<1>2. running' = [v \in DOMAIN running \ {w} |-> running[v]]
  BY <1>1 DEF running
<1>3. QED
  BY <1>1, <1>2 DEF Access!End, running

\* Every step of the coordinator is a step of ServerAccess, or changes
\* nothing of it.
LEMMA StepImplementsAccess ==
    ASSUME IInv, [Next]_vars
    PROVE  [Access!Next]_(Access!vars)
<1>1. ASSUME UNCHANGED <<ToSet(queue), running>>
      PROVE  UNCHANGED Access!vars
  BY <1>1 DEF Access!vars, running
<1>2. ASSUME NEW item \in Items, NEW b \in BuildLimits, NEW p \in PreviewLimits,
             EnqueueServerWork(item, b, p)
      PROVE  [Access!Next]_(Access!vars)
  BY <1>1, <1>2, EnqueueImplementsAccept DEF Access!Next
<1>3. ASSUME NEW i \in DOMAIN queue, StartWork(i)
      PROVE  [Access!Next]_(Access!vars)
  <2>1. queue[i] \in Items
    BY LenProperties, ElementOfSeq DEF IInv, TypeOK
  <2>2. QED
    <3>1. PICK item \in Items : item = queue[i]
      BY <2>1
    <3>2. Access!Begin(item)
      BY <1>3, <3>1, StartWorkImplementsBegin
    <3>3. QED
      BY <3>2 DEF Access!Next
<1>4. ASSUME NEW w \in DOMAIN active, WorkEnds(w)
      PROVE  [Access!Next]_(Access!vars)
  BY <1>4, WorkEndsImplementsEnd DEF Access!Next, running
<1>5. CASE Drain
  <2>1. /\ AtWork' = AtWork /\ UNCHANGED queue
        /\ \A w \in AtWork : active'[w] = active[w]
    BY <1>5 DEF Drain, AtWork
  <2>2. UNCHANGED <<ToSet(queue), running>>
    BY <2>1 DEF running
  <2>3. QED
    BY <1>1, <2>2
<1>6. CASE Await \/ Wake \/ IdleTimeout \/ UNCHANGED vars
  <2>1. UNCHANGED <<ToSet(queue), running>>
    BY <1>6 DEF Await, Wake, IdleTimeout, vars, running, AtWork, ToSet
  <2>2. QED
    BY <1>1, <2>1
<1>7. QED
  BY <1>2, <1>3, <1>4, <1>5, <1>6 DEF Next, Signal, MainLoop

\* The coordinator, for any items and limits, keeps what ServerAccess promises.
THEOREM ImplementsServerAccess == Spec => AccessSpec
<1>1. Init => Access!Init
  BY InitImplementsAccess
<1>2. IInv /\ [Next]_vars => [Access!Next]_(Access!vars)
  BY StepImplementsAccess
<1>3. QED
  BY <1>1, <1>2, Invariance, PTL DEF Spec, AccessSpec, Access!Spec
=============================================================================
