----------------------- MODULE RollingReplacementProofs -----------------------
(***************************************************************************)
(* What RollingReplacement guarantees for every rollout the schema         *)
(* accepts, any number of containers before it and every combination of    *)
(* faults.                                                                 *)
(***************************************************************************)
EXTENDS RollingReplacement, FiniteSetTheorems, WellFoundedInduction, TLAPS

\* How many candidates the route names.
Routed == IF phase = "routing" THEN candidates - 1 ELSE candidates

\* How many containers run while the application rolls: one more than in use
\* where one is drained or checked.
Load == IF phase \in {"draining", "checking"} THEN InUse + 1 ELSE InUse

\* What holds until the replacement begins.
Untouched ==
    phase \in {"inspecting", "preflight"} =>
        /\ attempted = 0 /\ candidates = 0
        /\ running \subseteq OldOf(1..count)
        /\ route = OldOf(1..count)
        /\ phase = "preflight" =>
              /\ activePrevious = previous
              /\ running = OldOf(previous)

\* Only the container under check is not yet counted as a candidate.
Counted ==
    /\ phase = "checking" => attempted = candidates + 1
    /\ phase \in {"making_room", "draining", "routing", "returned"} => attempted = candidates
    /\ phase = "routing" => candidates > 0

\* What runs while the application rolls ...
RunsInUse ==
    /\ phase \in {"making_room", "checking", "routing", "returned"} =>
          running = OldOf(activePrevious) \cup NewOf(1..attempted)
    /\ phase = "draining" =>
          \E i \in previous \ activePrevious :
              running = OldOf(activePrevious \cup {i}) \cup NewOf(1..attempted)

\* ... and what the route names.
RoutesInUse ==
    Rolling =>
        /\ OldOf(activePrevious) \cup NewOf(1..Routed) \subseteq route
        /\ \A i \in previous \ activePrevious :
              Old(i) \in route =>
                  /\ Routed = 0 /\ activePrevious = {}
                  /\ phase = "draining" => Old(i) \in running
        /\ \A k \in 1..rollout.replicas : New(k) \in route => k <= Routed

\* The bounds, in numbers.
LoadBounded ==
    Rolling =>
        /\ \/ Load <= Cardinality(previous)
           \/ Load <= rollout.replicas + rollout.maxSurge
        /\ \/ Routed + Cardinality(activePrevious) >= Cardinality(previous)
           \/ Routed + Cardinality(activePrevious) >= rollout.replicas - rollout.maxUnavailable

\* What has been returned to the executor.
ReturnedIsComplete ==
    phase = "returned" =>
        /\ candidates = rollout.replicas /\ activePrevious = {}
        /\ route = NewOf(1..rollout.replicas)

\* A route that was changed was saved.
RouteSaved == saved \/ route = OldOf(1..count)

\* Whoever undoes the replacement knows all that is left of it.
LeftoversKnown ==
    /\ phase \in {"inspecting", "preflight", "undo_remove"} \cup RollingPhases =>
          running \subseteq OldOf(1..count) \cup NewOf(1..attempted)
    /\ ~cleanupPending /\ phase = "rollback_remove" =>
          running \ doomed \subseteq OldOf(1..count)
    /\ ~cleanupPending /\ phase = "rollback_script" =>
          running \ (doomed \cap {New(1)}) \subseteq OldOf(1..count)
    /\ phase = "returned" => doomed = NewOf(1..rollout.replicas)
    /\ ~cleanupPending /\ phase \in {"undo_start", "undo_route", "rollback_start", "failed"} =>
          running \subseteq OldOf(1..count)

\* Recovery knows every name.
RecoveryKnowsAll == recoveries > 0 => doomed = NewOf(1..rollout.replicas)

\* What is started again is all that ran.
RestoredByNow ==
    ~cleanupPending =>
        /\ phase \in {"rollback_start", "failed"} => route = OldOf(1..count)
        /\ phase = "rollback_start" => OldOf((1..1) \cap (1..count)) \subseteq running
        /\ phase = "failed" => OldOf(1..count) \subseteq running

(***************************************************************************)
(* The inductive invariant.                                                *)
(***************************************************************************)
IInv ==
    /\ TypeOK
    /\ Untouched
    /\ Counted
    /\ RunsInUse
    /\ RoutesInUse
    /\ LoadBounded
    /\ ReturnedIsComplete
    /\ PromotedIsComplete
    /\ RouteSaved
    /\ LeftoversKnown
    /\ RecoveryKnowsAll
    /\ RestoredByNow

-----------------------------------------------------------------------------
(***************************************************************************)
(* Names of containers and their number.                                   *)
(***************************************************************************)
LEMMA Names ==
    /\ \A S, i : Old(i) \in OldOf(S) <=> i \in S
    /\ \A S, i : New(i) \in NewOf(S) <=> i \in S
    /\ \A S, i : Old(i) \notin NewOf(S) /\ New(i) \notin OldOf(S)
BY DEF Old, New, OldOf, NewOf

\* Containers of more indices are more containers; there is no New(0).
LEMMA Subsets ==
    /\ \A S, T : S \subseteq T => OldOf(S) \subseteq OldOf(T) /\ NewOf(S) \subseteq NewOf(T)
    /\ \A S, T : OldOf(S \cup T) = OldOf(S) \cup OldOf(T)
    /\ \A S, T : OldOf(S \ T) = OldOf(S) \ OldOf(T)
    /\ \A S, T : NewOf(S) \cap OldOf(T) = {}
    /\ OldOf({}) = {} /\ NewOf({}) = {} /\ NewOf(1..0) = {}
    /\ \A n \in Nat : NewOf(1..(n + 1)) = NewOf(1..n) \cup {New(n + 1)}
<1>1. \A n \in Nat : 1..(n + 1) = (1..n) \cup {n + 1}
  OBVIOUS
<1>2. 1..0 = {}
  OBVIOUS
<1>3. \A n \in Nat : NewOf((1..n) \cup {n + 1}) = NewOf(1..n) \cup {New(n + 1)}
  BY DEF NewOf
<1>4. QED
  BY <1>1, <1>2, <1>3 DEF Old, New, OldOf, NewOf

LEMMA MinElement ==
    ASSUME NEW S, S \subseteq Nat, S # {}
    PROVE  Min(S) \in S /\ \A i \in S : Min(S) <= i
<1>1. PICK m \in S : \A i \in S : <<i, m>> \notin OpToRel(<, Nat)
  BY WFMin, NatLessThanWellFounded
<1>2. \A i, j \in Nat : i < j => <<i, j>> \in OpToRel(<, Nat)
  BY DEF OpToRel
<1>3. \A i \in S : ~(i < m)
  BY <1>1, <1>2
<1>4. \A i \in S : m <= i
  BY <1>3
<1>5. QED
  BY <1>4 DEF Min

LEMMA CountOld ==
    ASSUME NEW S, IsFiniteSet(S)
    PROVE  IsFiniteSet(OldOf(S)) /\ Cardinality(OldOf(S)) = Cardinality(S)
<1> DEFINE f == [i \in S |-> Old(i)]
<1>1. f \in Bijection(S, OldOf(S))
  BY DEF Bijection, Injection, Surjection, IsInjective, Old, OldOf
<1>2. QED
  BY <1>1, FS_Bijection DEF ExistsBijection

LEMMA CountNew ==
    ASSUME NEW n \in Nat
    PROVE  IsFiniteSet(NewOf(1..n)) /\ Cardinality(NewOf(1..n)) = n
<1> DEFINE f == [i \in 1..n |-> New(i)]
<1>1. f \in Bijection(1..n, NewOf(1..n))
  BY DEF Bijection, Injection, Surjection, IsInjective, New, NewOf
<1>2. IsFiniteSet(1..n) /\ Cardinality(1..n) = n
  BY FS_Interval
<1>3. QED
  BY <1>1, <1>2, FS_Bijection DEF ExistsBijection

LEMMA CountBoth ==
    ASSUME NEW S, IsFiniteSet(S), NEW n \in Nat
    PROVE  /\ IsFiniteSet(OldOf(S) \cup NewOf(1..n))
           /\ Cardinality(OldOf(S) \cup NewOf(1..n)) = Cardinality(S) + n
<1>1. OldOf(S) \cap NewOf(1..n) = {}
  BY DEF Old, New, OldOf, NewOf
<1>2. IsFiniteSet(OldOf(S)) /\ Cardinality(OldOf(S)) = Cardinality(S)
  BY CountOld
<1>3. IsFiniteSet(NewOf(1..n)) /\ Cardinality(NewOf(1..n)) = n
  BY CountNew
<1>4. /\ IsFiniteSet(OldOf(S) \cup NewOf(1..n))
      /\ Cardinality(OldOf(S) \cup NewOf(1..n)) =
            Cardinality(OldOf(S)) + Cardinality(NewOf(1..n))
                - Cardinality(OldOf(S) \cap NewOf(1..n))
  BY <1>2, <1>3, FS_Union
<1>5. Cardinality(S) \in Nat
  BY FS_CardinalityType
<1>6. Cardinality(OldOf(S) \cap NewOf(1..n)) = 0
  BY <1>1, FS_EmptySet
<1>7. QED
  BY <1>2, <1>3, <1>4, <1>5, <1>6

\* What the type invariant says of numbers.
LEMMA Numbers ==
    ASSUME TypeOK
    PROVE  /\ rollout.replicas \in Nat \ {0} /\ rollout.maxSurge \in Nat
           /\ rollout.maxUnavailable \in Nat
           /\ rollout.maxSurge # 0 \/ rollout.maxUnavailable # 0
           /\ count \in Nat
           /\ candidates \in Nat /\ attempted \in Nat
           /\ previous \subseteq Nat /\ activePrevious \subseteq Nat
           /\ IsFiniteSet(previous) /\ IsFiniteSet(activePrevious)
           /\ Cardinality(previous) \in Nat /\ Cardinality(activePrevious) \in Nat
           /\ Cardinality(activePrevious) <= Cardinality(previous)
           /\ Cardinality(activePrevious) = 0 <=> activePrevious = {}
           /\ Cardinality(previous) = 0 <=> previous = {}
<1>1. /\ rollout \in Rollouts /\ count \in Nat
      /\ previous \subseteq 1..count /\ activePrevious \subseteq previous
  BY CountsAssumption DEF TypeOK
<1>2. IsFiniteSet(1..count)
  BY <1>1, FS_Interval
<1>3. IsFiniteSet(previous) /\ IsFiniteSet(activePrevious)
  BY <1>1, <1>2, FS_Subset
<1>4. IsRollout(rollout)
  BY <1>1, RolloutsAssumption
<1>5. candidates \in Nat /\ attempted \in Nat
  BY <1>4 DEF TypeOK, IsRollout
<1>6. Cardinality(activePrevious) <= Cardinality(previous)
  BY <1>1, <1>3, FS_Subset
<1>7. /\ Cardinality(previous) \in Nat /\ Cardinality(activePrevious) \in Nat
      /\ Cardinality(activePrevious) = 0 <=> activePrevious = {}
      /\ Cardinality(previous) = 0 <=> previous = {}
  BY <1>3, FS_CardinalityType, FS_EmptySet
<1>8. QED
  BY <1>1, <1>3, <1>4, <1>5, <1>6, <1>7 DEF IsRollout

-----------------------------------------------------------------------------
(***************************************************************************)
(* The invariant is inductive.                                             *)
(***************************************************************************)
LEMMA InitIInv == Init => IInv
<1> SUFFICES ASSUME Init PROVE IInv
  OBVIOUS
<1> USE DEF Init
<1>1. count \in Nat /\ rollout.replicas \in Nat \ {0}
  BY CountsAssumption, RolloutsAssumption DEF IsRollout
<1>2. TypeOK
  <2>1. candidates \in 0..rollout.replicas /\ attempted \in candidates..rollout.replicas
    BY <1>1
  <2>2. running \subseteq OldOf(1..count) /\ route \subseteq OldOf(1..count)
    OBVIOUS
  <2>3. recoveries \in 0..MaxRecoveries
    BY CountsAssumption
  <2>4. /\ phase \in Phases /\ saved \in BOOLEAN /\ cleanupPending \in BOOLEAN
        /\ previous \subseteq 1..count /\ activePrevious \subseteq previous
        /\ doomed \in {{}, NewOf(1..rollout.replicas)}
    BY DEF Phases
  <2>5. rollout \in Rollouts /\ count \in PreviousCounts /\ attempted <= candidates + 1
    OBVIOUS
  <2>6. QED
    BY <2>1, <2>2, <2>3, <2>4, <2>5, Zenon DEF TypeOK
<1>3. Untouched /\ Counted /\ RunsInUse /\ RouteSaved
  BY DEF Untouched, Counted, RunsInUse, RouteSaved
<1>4. RoutesInUse /\ LoadBounded
  BY DEF RoutesInUse, LoadBounded, Rolling, RollingPhases
<1>5. ReturnedIsComplete /\ PromotedIsComplete
  BY DEF ReturnedIsComplete, PromotedIsComplete
<1>6. LeftoversKnown /\ RecoveryKnowsAll /\ RestoredByNow
  BY DEF LeftoversKnown, RecoveryKnowsAll, RestoredByNow, RollingPhases
<1>7. QED
  BY <1>2, <1>3, <1>4, <1>5, <1>6 DEF IInv

-----------------------------------------------------------------------------
(***************************************************************************)
(* Every step keeps the invariant.                                         *)
(***************************************************************************)
LEMMA InspectRunningPortsStep ==
    ASSUME IInv, InspectRunningPorts
    PROVE  IInv'
<1>0. /\ attempted = 0 /\ candidates = 0
      /\ running \subseteq OldOf(1..count) /\ route = OldOf(1..count)
  BY DEF IInv, Untouched, InspectRunningPorts
<1>1. TypeOK'
  BY DEF IInv, TypeOK, InspectRunningPorts, given, Phases, RollingPhases, UndoPhases,
         RollbackPhases
<1>2. Untouched'
  <2>1. OldOf({i \in 1..count : Old(i) \in running}) = running
    BY <1>0 DEF OldOf
  <2>2. QED
    BY <1>0, <2>1 DEF Untouched, InspectRunningPorts, given
<1>3. Counted' /\ RunsInUse' /\ RoutesInUse' /\ LoadBounded' /\ ReturnedIsComplete' /\
     PromotedIsComplete' /\ RouteSaved' /\ RecoveryKnowsAll' /\ RestoredByNow'
  BY DEF IInv, Counted, RunsInUse, RoutesInUse, LoadBounded, ReturnedIsComplete,
         PromotedIsComplete, RouteSaved, RecoveryKnowsAll, RestoredByNow,
         InspectRunningPorts, given, Untouched, Rolling, RollingPhases, Routed, Load,
         InUse
<1>4. LeftoversKnown'
  BY <1>0 DEF LeftoversKnown, InspectRunningPorts, given, RollingPhases
<1>5. QED
  BY <1>1, <1>2, <1>3, <1>4 DEF IInv

LEMMA PreflightRollingHeadroomStep ==
    ASSUME IInv, PreflightRollingHeadroom
    PROVE  IInv'
<1>0. /\ attempted = 0 /\ candidates = 0
      /\ running = OldOf(previous) /\ route = OldOf(1..count)
      /\ previous \subseteq 1..count /\ activePrevious = previous
  BY DEF IInv, TypeOK, Untouched, PreflightRollingHeadroom
<1>1. TypeOK'
  BY DEF IInv, TypeOK, PreflightRollingHeadroom, given, Phases, RollingPhases,
         UndoPhases, RollbackPhases
<1>2. Untouched' /\ ReturnedIsComplete' /\ PromotedIsComplete' /\ RouteSaved' /\
     RecoveryKnowsAll' /\ RestoredByNow'
  BY DEF IInv, Untouched, ReturnedIsComplete, PromotedIsComplete, RouteSaved,
         RecoveryKnowsAll, RestoredByNow, PreflightRollingHeadroom, given
<1>3. Counted'
  BY <1>0 DEF Counted, PreflightRollingHeadroom
<1>4. RunsInUse'
  BY <1>0, Subsets DEF RunsInUse, PreflightRollingHeadroom
<1>5. RoutesInUse'
  <2> SUFFICES ASSUME phase' = "making_room" PROVE RoutesInUse'
    BY DEF RoutesInUse, Rolling, RollingPhases, PreflightRollingHeadroom
  <2>1. /\ Routed' = 0 /\ activePrevious' = previous' /\ previous' = previous
        /\ route' = OldOf(1..count)
    BY <1>0 DEF Routed, PreflightRollingHeadroom
  <2>2. NewOf(1..0) = {} /\ OldOf(previous) \subseteq OldOf(1..count)
    BY <1>0, Subsets
  <2>3. \A k : New(k) \notin OldOf(1..count)
    BY Names
  <2>4. QED
    BY <2>1, <2>2, <2>3 DEF RoutesInUse
<1>6. LoadBounded'
  BY <1>0, Numbers DEF LoadBounded, Rolling, RollingPhases, Routed, Load, InUse,
         PreflightRollingHeadroom, given, IInv
<1>7. LeftoversKnown'
  BY <1>0, Subsets DEF LeftoversKnown, RollingPhases, PreflightRollingHeadroom, given
<1>8. QED
  BY <1>1, <1>2, <1>3, <1>4, <1>5, <1>6, <1>7 DEF IInv

LEMMA RetireFromRouteStep ==
    ASSUME IInv, RetireFromRoute
    PROVE  IInv'
<1> DEFINE m    == Min(activePrevious)
           rest == activePrevious \ {m}
<1>0. /\ phase = "making_room" /\ attempted = candidates
      /\ running = OldOf(activePrevious) \cup NewOf(1..attempted)
      /\ activePrevious \subseteq previous
      /\ previous \subseteq 1..count /\ candidates \in 0..rollout.replicas
  BY DEF IInv, TypeOK, Counted, RunsInUse, RetireFromRoute
<1>a. m \in activePrevious /\ rest \cup {m} = activePrevious
  BY MinElement, Numbers DEF IInv, RetireFromRoute, MustRetire
<1>b. Cardinality(rest) = Cardinality(activePrevious) - 1
  BY <1>a, FS_RemoveElement, Numbers DEF IInv
<1>c. /\ \/ activePrevious' = activePrevious /\ phase' = "undo_remove"
         \/ activePrevious' = rest /\ phase' \in {"draining", "undo_remove"}
      /\ phase' = "draining" => ~TooFewLeft \/ candidates = rollout.replicas
      /\ \/ UNCHANGED <<route, saved>>
         \/ route' = InService(rest) /\ saved' = TRUE
      /\ phase' = "draining" =>
            IF InService(rest) = {} THEN UNCHANGED route ELSE route' = InService(rest)
      /\ UNCHANGED <<given, running, previous, attempted, candidates, doomed,
                     cleanupPending, recoveries>>
  BY DEF RetireFromRoute, Routes, Succeeds
<1>1. TypeOK'
  <2>1. InService(rest) \subseteq OldOf(1..count) \cup NewOf(1..rollout.replicas)
    <3>1. rest \subseteq 1..count
      BY <1>0
    <3>2. 1..candidates \subseteq 1..rollout.replicas
      BY <1>0, Numbers DEF IInv
    <3>3. OldOf(rest) \subseteq OldOf(1..count)
      BY <3>1, Subsets
    <3>4. NewOf(1..candidates) \subseteq NewOf(1..rollout.replicas)
      BY <3>2 DEF NewOf
    <3>5. QED
      BY <3>3, <3>4 DEF InService
  <2>2. activePrevious' \subseteq previous
    BY <1>0, <1>c
  <2>3. phase' \in Phases
    BY <1>c DEF Phases, RollingPhases, UndoPhases
  <2>4. QED
    BY <1>c, <2>1, <2>2, <2>3 DEF TypeOK, IInv, given
<1>2. Untouched'
  BY <1>c DEF Untouched
<1>3. Counted'
  BY <1>0, <1>c DEF Counted
<1>4. RunsInUse'
  BY <1>0, <1>a, <1>c DEF RunsInUse
<1>5. RoutesInUse'
  <2> SUFFICES ASSUME phase' = "draining" PROVE RoutesInUse'
    BY <1>c DEF RoutesInUse, Rolling, RollingPhases
  <2>1. activePrevious' = rest /\ Routed' = candidates /\ Routed = candidates
    BY <1>0, <1>c DEF Routed
  <2>2. CASE InService(rest) = {}
    <3>1. rest = {} /\ candidates = 0
      <4>1. OldOf(rest) = {} /\ NewOf(1..candidates) = {}
        BY <2>2 DEF InService
      <4>2. 1 \notin 1..candidates
        BY <4>1, Names
      <4>3. QED
        <5>1. candidates \notin Nat \ {0}
          BY <4>2
        <5>2. rest = {}
          BY <4>1, Names
        <5>3. candidates \in Nat
          BY Numbers DEF IInv
        <5>4. QED
          BY <5>1, <5>2, <5>3
    <3>2. route' = route
      BY <1>c, <2>2
    <3>3. activePrevious = {m} /\ Old(m) \in running
      BY <3>1, <1>0, <1>a, Names
    <3>4. \A i \in previous \ activePrevious : Old(i) \notin route
      BY <3>3, <1>0 DEF IInv, RoutesInUse, Rolling, RollingPhases
    <3>5. \A k \in 1..rollout.replicas : New(k) \in route => k <= Routed
      BY <1>0 DEF IInv, RoutesInUse, Rolling, RollingPhases
    <3>6. QED
      BY <2>1, <2>2, <3>1, <3>2, <3>3, <3>4, <3>5, <1>0, <1>c DEF RoutesInUse, InService, given
  <2>3. CASE InService(rest) # {}
    <3>1. route' = NewOf(1..candidates) \cup OldOf(rest)
      BY <1>c, <2>3 DEF InService
    <3>2. \A i \in previous \ rest : Old(i) \notin route'
      BY <3>1, Names
    <3>3. \A k \in 1..rollout.replicas : New(k) \in route' => k <= candidates
      BY <3>1, Names, Numbers DEF IInv
    <3>4. QED
      BY <2>1, <3>1, <3>2, <3>3, <1>c DEF RoutesInUse, given
  <2>4. QED
    BY <2>2, <2>3
<1>6. LoadBounded'
  <2> SUFFICES ASSUME phase' = "draining" PROVE LoadBounded'
    BY <1>c DEF LoadBounded, Rolling, RollingPhases
  <2>1. /\ activePrevious' = rest /\ Routed' = candidates
        /\ Load' = candidates + Cardinality(rest) + 1
        /\ Load = candidates + Cardinality(activePrevious)
    BY <1>0, <1>c DEF Routed, Load, InUse
  <2>2. Load' = Load
    BY <2>1, <1>b, Numbers DEF IInv
  <2>3. \/ Load <= Cardinality(previous)
        \/ Load <= rollout.replicas + rollout.maxSurge
    BY <1>0 DEF IInv, LoadBounded, Rolling, RollingPhases
  <2>4. candidates + Cardinality(rest) >= rollout.replicas - rollout.maxUnavailable
    <3>1. CASE ~TooFewLeft
      BY <3>1, <1>b, Numbers DEF IInv, TooFewLeft, InUse
    <3>2. CASE candidates = rollout.replicas
      BY <3>2, <1>a, <1>b, Numbers, FS_EmptySet DEF IInv
    <3>3. QED
      BY <3>1, <3>2, <1>c
  <2>5. QED
    BY <2>1, <2>2, <2>3, <2>4, <1>c DEF LoadBounded, given
<1>7. ReturnedIsComplete'
  BY <1>c DEF ReturnedIsComplete
<1>8. PromotedIsComplete'
  BY <1>c DEF PromotedIsComplete
<1>9. RouteSaved'
  BY <1>c DEF IInv, RouteSaved, given
<1>10. LeftoversKnown'
  BY <1>0, <1>c DEF IInv, LeftoversKnown, RollingPhases, given
<1>11. RecoveryKnowsAll'
  BY DEF IInv, RecoveryKnowsAll, given, RetireFromRoute
<1>12. RestoredByNow'
  BY <1>c DEF RestoredByNow
<1>13. QED
  BY <1>1, <1>2, <1>3, <1>4, <1>5, <1>6, <1>7, <1>8, <1>9, <1>10, <1>11, <1>12 DEF IInv

LEMMA StopRetiredStep ==
    ASSUME IInv, StopRetired
    PROVE  IInv'
<1>0. /\ phase = "draining" /\ attempted = candidates
      /\ activePrevious \subseteq previous /\ previous \subseteq 1..count
      /\ running \subseteq OldOf(1..count) \cup NewOf(1..attempted)
      /\ phase' \in {"making_room", "undo_remove"}
      /\ running' \subseteq running
      /\ phase' = "making_room" => running' = running \ OldOf(previous \ activePrevious)
      /\ UNCHANGED <<given, route, previous, activePrevious, attempted, candidates,
                     doomed, saved, cleanupPending, recoveries>>
  BY DEF IInv, TypeOK, Counted, LeftoversKnown, RollingPhases, StopRetired
<1>1. TypeOK'
  BY DEF IInv, TypeOK, StopRetired, given, Phases, RollingPhases, UndoPhases,
         RollbackPhases
<1>2. Untouched' /\ Counted' /\ RoutesInUse' /\ ReturnedIsComplete' /\ PromotedIsComplete' /\
     RouteSaved' /\ LeftoversKnown' /\ RecoveryKnowsAll' /\ RestoredByNow'
  BY DEF IInv, Untouched, Counted, RoutesInUse, ReturnedIsComplete, PromotedIsComplete,
         RouteSaved, LeftoversKnown, RecoveryKnowsAll, RestoredByNow, StopRetired,
         given, RunsInUse, Rolling, RollingPhases, Routed
<1>3. RunsInUse'
  <2> SUFFICES ASSUME phase' = "making_room" PROVE RunsInUse'
    BY <1>0 DEF RunsInUse
  <2>1. PICK i \in previous \ activePrevious :
              running = OldOf(activePrevious \cup {i}) \cup NewOf(1..attempted)
    BY <1>0 DEF IInv, RunsInUse
  <2>2. (activePrevious \cup {i}) \ (previous \ activePrevious) = activePrevious
    BY <2>1, <1>0
  <2>3. OldOf(activePrevious \cup {i}) \ OldOf(previous \ activePrevious) = OldOf(activePrevious)
    BY <2>2, Subsets
  <2>4. NewOf(1..attempted) \cap OldOf(previous \ activePrevious) = {}
    BY Subsets
  <2>5. running' = OldOf(activePrevious) \cup NewOf(1..attempted)
    BY <1>0, <2>1, <2>3, <2>4
  <2>6. QED
    BY <2>5, <1>0 DEF RunsInUse
<1>4. LoadBounded'
  <2> SUFFICES ASSUME phase' = "making_room" PROVE LoadBounded'
    BY <1>0 DEF LoadBounded, Rolling, RollingPhases
  <2>1. /\ Routed' = candidates /\ Routed = candidates
        /\ Load' = candidates + Cardinality(activePrevious)
        /\ Load = candidates + Cardinality(activePrevious) + 1
    BY <1>0 DEF Routed, Load, InUse
  <2>2. LoadBounded
    BY DEF IInv
  <2>3. QED
    BY <2>1, <2>2, <1>0, Numbers DEF IInv, LoadBounded, Rolling, RollingPhases, given
<1>5. QED
  BY <1>1, <1>2, <1>3, <1>4 DEF IInv

LEMMA StartCandidateStep ==
    ASSUME IInv, StartCandidate
    PROVE  IInv'
<1>0. /\ phase = "making_room" /\ attempted = candidates /\ ~MustRetire
      /\ candidates < rollout.replicas /\ candidates \in Nat
      /\ attempted' = candidates + 1
      /\ running = OldOf(activePrevious) \cup NewOf(1..attempted)
      /\ \/ phase' = "checking" /\ running' = running \cup {New(attempted')}
         \/ phase' = "undo_remove" /\ UNCHANGED running
      /\ UNCHANGED <<given, route, previous, activePrevious, candidates, doomed,
                     saved, cleanupPending, recoveries>>
  BY Numbers DEF IInv, Counted, RunsInUse, StartCandidate
<1>a. NewOf(1..(candidates + 1)) = NewOf(1..candidates) \cup {New(candidates + 1)}
  BY <1>0, Subsets
<1>b. /\ OldOf(activePrevious) \subseteq OldOf(1..count)
      /\ NewOf(1..(candidates + 1)) \subseteq NewOf(1..rollout.replicas)
  <2>1. activePrevious \subseteq 1..count
    BY DEF IInv, TypeOK
  <2>2. 1..(candidates + 1) \subseteq 1..rollout.replicas
    BY <1>0, Numbers DEF IInv
  <2>3. QED
    BY <2>1, <2>2 DEF OldOf, NewOf
<1>c. running' \subseteq OldOf(activePrevious) \cup NewOf(1..(candidates + 1))
  BY <1>0, <1>a
<1>1. TypeOK'
  <2>1. attempted' \in candidates'..rollout'.replicas /\ attempted' <= candidates' + 1
    BY <1>0, Numbers DEF IInv, given
  <2>2. running' \subseteq OldOf(1..count) \cup NewOf(1..rollout.replicas)
    BY <1>b, <1>c
  <2>3. phase' \in Phases
    BY <1>0 DEF Phases, RollingPhases, UndoPhases
  <2>4. QED
    BY <1>0, <2>1, <2>2, <2>3 DEF TypeOK, IInv, given
<1>2. Untouched' /\ Counted' /\ RoutesInUse' /\ ReturnedIsComplete' /\ PromotedIsComplete' /\
     RouteSaved' /\ RecoveryKnowsAll' /\ RestoredByNow'
  BY DEF IInv, Untouched, Counted, RoutesInUse, ReturnedIsComplete, PromotedIsComplete,
         RouteSaved, RecoveryKnowsAll, RestoredByNow, StartCandidate, given,
         MustRetire, InUse, RunsInUse, Rolling, RollingPhases, Routed
<1>3. RunsInUse'
  BY <1>0, <1>a DEF RunsInUse
<1>4. LoadBounded'
  <2> SUFFICES ASSUME phase' = "checking" PROVE LoadBounded'
    BY <1>0 DEF LoadBounded, Rolling, RollingPhases
  <2>1. /\ Routed' = candidates /\ Routed = candidates
        /\ Load' = candidates + Cardinality(activePrevious) + 1
    BY <1>0 DEF Routed, Load, InUse
  <2>2. candidates + Cardinality(activePrevious) + 1 <= rollout.replicas + rollout.maxSurge
    BY <1>0, Numbers DEF IInv, MustRetire, InUse
  <2>3. LoadBounded
    BY DEF IInv
  <2>4. QED
    BY <2>1, <2>2, <2>3, <1>0, Numbers DEF IInv, LoadBounded, Rolling, RollingPhases, given
<1>5. LeftoversKnown'
  BY <1>0, <1>b, <1>c DEF LeftoversKnown, RollingPhases, given, IInv
<1>6. QED
  BY <1>1, <1>2, <1>3, <1>4, <1>5 DEF IInv

LEMMA VerifyRollingCandidateStabilityStep ==
    ASSUME IInv, VerifyRollingCandidateStability
    PROVE  IInv'
<1>0. /\ phase = "checking" /\ attempted = candidates + 1
      /\ candidates \in Nat /\ attempted \in Nat /\ attempted <= rollout.replicas
      /\ \/ phase' = "routing" /\ candidates' = candidates + 1
         \/ phase' = "undo_remove" /\ UNCHANGED candidates
      /\ UNCHANGED <<given, running, route, previous, activePrevious, attempted,
                     doomed, saved, cleanupPending, recoveries>>
  BY Numbers DEF IInv, TypeOK, Counted, VerifyRollingCandidateStability
<1>a. phase' = "routing" => Routed' = candidates /\ Routed = candidates
  BY <1>0 DEF Routed
<1>1. TypeOK'
  <2>1. /\ candidates' \in 0..rollout'.replicas
        /\ attempted' \in candidates'..rollout'.replicas /\ attempted' <= candidates' + 1
    BY <1>0, Numbers DEF IInv, given
  <2>2. phase' \in Phases
    BY <1>0 DEF Phases, RollingPhases, UndoPhases
  <2>3. QED
    BY <1>0, <2>1, <2>2 DEF TypeOK, IInv, given
<1>2. Untouched' /\ RunsInUse' /\ ReturnedIsComplete' /\ PromotedIsComplete' /\
     RouteSaved' /\ LeftoversKnown' /\ RecoveryKnowsAll' /\ RestoredByNow'
  BY DEF IInv, Untouched, RunsInUse, ReturnedIsComplete, PromotedIsComplete,
         RouteSaved, LeftoversKnown, RecoveryKnowsAll, RestoredByNow,
         VerifyRollingCandidateStability, given, RollingPhases
<1>3. Counted'
  BY <1>0 DEF Counted
<1>4. RoutesInUse'
  <2> SUFFICES ASSUME phase' = "routing" PROVE RoutesInUse'
    BY <1>0 DEF RoutesInUse, Rolling, RollingPhases
  <2>1. RoutesInUse
    BY DEF IInv
  <2>2. QED
    BY <1>0, <1>a, <2>1 DEF RoutesInUse, Rolling, RollingPhases, given
<1>5. LoadBounded'
  <2> SUFFICES ASSUME phase' = "routing" PROVE LoadBounded'
    BY <1>0 DEF LoadBounded, Rolling, RollingPhases
  <2>1. Load' = candidates + 1 + Cardinality(activePrevious)
     /\ Load = candidates + Cardinality(activePrevious) + 1
    BY <1>0 DEF Load, InUse
  <2>2. LoadBounded
    BY DEF IInv
  <2>3. QED
    BY <1>0, <1>a, <2>1, <2>2, Numbers DEF IInv, LoadBounded, Rolling, RollingPhases, given
<1>6. QED
  BY <1>1, <1>2, <1>3, <1>4, <1>5 DEF IInv

LEMMA RouteCandidateStep ==
    ASSUME IInv, RouteCandidate
    PROVE  IInv'
<1>0. /\ phase = "routing" /\ attempted = candidates
      /\ candidates \in 0..rollout.replicas /\ activePrevious \subseteq 1..count
      /\ phase' \in {"making_room", "undo_remove"}
      /\ \/ UNCHANGED <<route, saved>>
         \/ route' = InService(activePrevious) /\ saved' = TRUE
      /\ phase' = "making_room" => route' = InService(activePrevious)
      /\ UNCHANGED <<given, running, previous, activePrevious, attempted, candidates,
                     doomed, cleanupPending, recoveries>>
  BY DEF IInv, TypeOK, Counted, RouteCandidate, Routes, Succeeds
<1>1. TypeOK'
  <2>1. OldOf(activePrevious) \subseteq OldOf(1..count)
    BY <1>0, Subsets
  <2>2. NewOf(1..candidates) \subseteq NewOf(1..rollout.replicas)
    <3>1. 1..candidates \subseteq 1..rollout.replicas
      BY <1>0, Numbers DEF IInv
    <3>2. QED
      BY <3>1 DEF NewOf
  <2>3. route' \subseteq OldOf(1..count) \cup NewOf(1..rollout.replicas)
    BY <1>0, <2>1, <2>2 DEF InService, IInv, TypeOK
  <2>4. phase' \in Phases /\ saved' \in BOOLEAN
    BY <1>0 DEF Phases, RollingPhases, UndoPhases, IInv, TypeOK
  <2>5. QED
    BY <1>0, <2>3, <2>4 DEF TypeOK, IInv, given
<1>2. Untouched' /\ Counted' /\ RunsInUse' /\ ReturnedIsComplete' /\ PromotedIsComplete' /\
     RouteSaved' /\ LeftoversKnown' /\ RecoveryKnowsAll' /\ RestoredByNow'
  BY DEF IInv, Untouched, Counted, RunsInUse, ReturnedIsComplete, PromotedIsComplete,
         RouteSaved, LeftoversKnown, RecoveryKnowsAll, RestoredByNow, RouteCandidate,
         given, Routes, Succeeds, InService, RollingPhases
<1>3. RoutesInUse'
  <2> SUFFICES ASSUME phase' = "making_room" PROVE RoutesInUse'
    BY <1>0 DEF RoutesInUse, Rolling, RollingPhases
  <2>1. Routed' = candidates /\ route' = NewOf(1..candidates) \cup OldOf(activePrevious)
    BY <1>0 DEF Routed, InService
  <2>2. \A i \in previous \ activePrevious : Old(i) \notin route'
    BY <2>1, Names
  <2>3. \A k \in 1..rollout.replicas : New(k) \in route' => k <= candidates
    BY <2>1, Names, Numbers DEF IInv
  <2>4. QED
    BY <1>0, <2>1, <2>2, <2>3 DEF RoutesInUse, given
<1>4. LoadBounded'
  <2> SUFFICES ASSUME phase' = "making_room" PROVE LoadBounded'
    BY <1>0 DEF LoadBounded, Rolling, RollingPhases
  <2>1. /\ Routed' = candidates /\ Routed = candidates - 1
        /\ Load' = candidates + Cardinality(activePrevious)
        /\ Load = candidates + Cardinality(activePrevious)
    BY <1>0 DEF Routed, Load, InUse
  <2>2. LoadBounded
    BY DEF IInv
  <2>3. QED
    BY <1>0, <2>1, <2>2, Numbers DEF IInv, LoadBounded, Rolling, RollingPhases, given
<1>5. QED
  BY <1>1, <1>2, <1>3, <1>4 DEF IInv

LEMMA PublishCandidatesStep ==
    ASSUME IInv, PublishCandidates
    PROVE  IInv'
<1>1. TypeOK'
  BY DEF IInv, TypeOK, PublishCandidates, given, OldOf, NewOf, Phases, RollingPhases,
         UndoPhases, RollbackPhases, Routes, Succeeds, InService
<1>2. Untouched' /\ Counted' /\ RunsInUse' /\ RoutesInUse' /\ LoadBounded' /\
     PromotedIsComplete' /\ RouteSaved' /\ LeftoversKnown' /\ RecoveryKnowsAll' /\
     RestoredByNow'
  BY DEF IInv, Untouched, Counted, RunsInUse, RoutesInUse, LoadBounded,
         PromotedIsComplete, RouteSaved, LeftoversKnown, RecoveryKnowsAll,
         RestoredByNow, PublishCandidates, given, Routes, Succeeds, InService, Rolling,
         RollingPhases, Routed, Load, InUse
<1>3. ReturnedIsComplete'
  <2>1. OldOf({}) = {}
    BY Subsets
  <2>2. QED
    BY <2>1 DEF ReturnedIsComplete, PublishCandidates, Succeeds, InService, given
<1>4. QED
  BY <1>1, <1>2, <1>3 DEF IInv

LEMMA PromoteStep ==
    ASSUME IInv, Promote
    PROVE  IInv'
<1>1. TypeOK'
  BY DEF IInv, TypeOK, Promote, given, Phases, RollingPhases, UndoPhases, RollbackPhases
<1>2. Untouched' /\ Counted' /\ RunsInUse' /\ RoutesInUse' /\ LoadBounded' /\
     ReturnedIsComplete' /\ RouteSaved' /\ RecoveryKnowsAll' /\ RestoredByNow'
  BY DEF IInv, Untouched, Counted, RunsInUse, RoutesInUse, LoadBounded,
         ReturnedIsComplete, RouteSaved, RecoveryKnowsAll, RestoredByNow, Promote,
         given, Rolling, RollingPhases, Routed, Load, InUse
<1>3. PromotedIsComplete'
  <2> SUFFICES ASSUME phase' = "promoted" PROVE PromotedIsComplete'
    BY DEF PromotedIsComplete
  <2>1. /\ running = OldOf({}) \cup NewOf(1..rollout.replicas)
        /\ route = NewOf(1..rollout.replicas)
    BY DEF IInv, Promote, RunsInUse, ReturnedIsComplete, Counted
  <2>2. OldOf({}) = {}
    BY Subsets
  <2>3. QED
    BY <2>1, <2>2 DEF PromotedIsComplete, Promote, given
<1>4. LeftoversKnown'
  BY DEF IInv, LeftoversKnown, Promote, given, TypeOK, RollingPhases, RecoveryKnowsAll
<1>5. QED
  BY <1>1, <1>2, <1>3, <1>4 DEF IInv

LEMMA UndoRemoveStep ==
    ASSUME IInv, UndoRemove
    PROVE  IInv'
<1>1. TypeOK'
  BY DEF IInv, TypeOK, UndoRemove, given, Phases, RollingPhases, UndoPhases,
         RollbackPhases, Unreached
<1>2. Untouched' /\ Counted' /\ RunsInUse' /\ RoutesInUse' /\ LoadBounded' /\
     ReturnedIsComplete' /\ PromotedIsComplete' /\ RouteSaved' /\ LeftoversKnown' /\
     RecoveryKnowsAll' /\ RestoredByNow'
  BY DEF IInv, Untouched, Counted, RunsInUse, RoutesInUse, LoadBounded,
         ReturnedIsComplete, PromotedIsComplete, RouteSaved, LeftoversKnown,
         RecoveryKnowsAll, RestoredByNow, UndoRemove, given, Unreached, Rolling,
         RollingPhases, Routed, Load, InUse
<1>3. QED
  BY <1>1, <1>2 DEF IInv

LEMMA UndoStartStep ==
    ASSUME IInv, UndoStart
    PROVE  IInv'
<1>1. TypeOK'
  BY DEF IInv, TypeOK, UndoStart, given, Phases, RollingPhases, UndoPhases,
         RollbackPhases, Unreached
<1>2. Untouched' /\ Counted' /\ RunsInUse' /\ RoutesInUse' /\ LoadBounded' /\
     ReturnedIsComplete' /\ PromotedIsComplete' /\ RouteSaved' /\ LeftoversKnown' /\
     RecoveryKnowsAll' /\ RestoredByNow'
  BY DEF IInv, Untouched, Counted, RunsInUse, RoutesInUse, LoadBounded,
         ReturnedIsComplete, PromotedIsComplete, RouteSaved, LeftoversKnown,
         RecoveryKnowsAll, RestoredByNow, UndoStart, given, Unreached, Rolling,
         RollingPhases, Routed, Load, InUse
<1>3. QED
  BY <1>1, <1>2 DEF IInv

LEMMA RestoreRollingRouteStep ==
    ASSUME IInv, RestoreRollingRoute
    PROVE  IInv'
<1>1. TypeOK'
  <2>1. OldOf(previous) \subseteq OldOf(1..count)
    BY Subsets DEF IInv, TypeOK
  <2>2. QED
    BY <2>1 DEF TypeOK, IInv, given, RestoreRollingRoute, Routes, Phases, RollbackPhases
<1>2. Untouched' /\ Counted' /\ RunsInUse' /\ RoutesInUse' /\ LoadBounded' /\
     ReturnedIsComplete' /\ PromotedIsComplete' /\ RouteSaved' /\ LeftoversKnown' /\
     RecoveryKnowsAll' /\ RestoredByNow'
  BY DEF IInv, Untouched, Counted, RunsInUse, RoutesInUse, LoadBounded,
         ReturnedIsComplete, PromotedIsComplete, RouteSaved, LeftoversKnown,
         RecoveryKnowsAll, RestoredByNow, RestoreRollingRoute, given, Routes, Rolling,
         RollingPhases, Routed, Load, InUse
<1>3. QED
  BY <1>1, <1>2 DEF IInv

LEMMA RollbackRemoveStep ==
    ASSUME IInv, RollbackRemove
    PROVE  IInv'
<1>1. TypeOK'
  BY DEF IInv, TypeOK, RollbackRemove, given, Phases, RollingPhases, UndoPhases,
         RollbackPhases, Unreached, Or
<1>2. Untouched' /\ Counted' /\ RunsInUse' /\ RoutesInUse' /\ LoadBounded' /\
     ReturnedIsComplete' /\ PromotedIsComplete' /\ RouteSaved' /\ LeftoversKnown' /\
     RecoveryKnowsAll' /\ RestoredByNow'
  BY DEF IInv, Untouched, Counted, RunsInUse, RoutesInUse, LoadBounded,
         ReturnedIsComplete, PromotedIsComplete, RouteSaved, LeftoversKnown,
         RecoveryKnowsAll, RestoredByNow, RollbackRemove, given, Unreached, Or,
         Rolling, RollingPhases, Routed, Load, InUse
<1>3. QED
  BY <1>1, <1>2 DEF IInv

LEMMA RollbackScriptStep ==
    ASSUME IInv, RollbackScript
    PROVE  IInv'
<1>1. TypeOK'
  <2>1. OldOf((1..1) \cap (1..count)) \subseteq OldOf(1..count)
    BY DEF OldOf
  <2>2. phase' \in Phases
    BY DEF RollbackScript, Unreached, Or, Phases, RollbackPhases
  <2>3. QED
    BY <2>1, <2>2 DEF TypeOK, IInv, given, RollbackScript, Unreached
<1>2. Untouched' /\ Counted' /\ RunsInUse' /\ RoutesInUse' /\ LoadBounded' /\
     ReturnedIsComplete' /\ PromotedIsComplete' /\ RouteSaved' /\ RecoveryKnowsAll' /\
     RestoredByNow'
  BY DEF IInv, Untouched, Counted, RunsInUse, RoutesInUse, LoadBounded,
         ReturnedIsComplete, PromotedIsComplete, RouteSaved, RecoveryKnowsAll,
         RestoredByNow, RollbackScript, given, Unreached, Or, Rolling, RollingPhases,
         Routed, Load, InUse, LeftoversKnown
<1>3. LeftoversKnown'
  BY DEF IInv, LeftoversKnown, RollbackScript, given, OldOf, NewOf, RollingPhases,
         RecoveryKnowsAll, Unreached, Or
<1>4. QED
  BY <1>1, <1>2, <1>3 DEF IInv

LEMMA RollbackStartStep ==
    ASSUME IInv, RollbackStart
    PROVE  IInv'
<1>0. 1..count = ((1..1) \cap (1..count)) \cup (2..count)
  BY Numbers DEF IInv
<1>a. OldOf(1..count) = OldOf((1..1) \cap (1..count)) \cup OldOf(2..count)
  <2>1. \A S, T : OldOf(S \cup T) = OldOf(S) \cup OldOf(T)
    BY Subsets
  <2>2. QED
    BY <1>0, <2>1, Zenon
<1>1. TypeOK'
  <2>1. phase' \in Phases
    BY DEF RollbackStart, Phases
  <2>2. QED
    BY <2>1, <1>a DEF TypeOK, IInv, given, RollbackStart, Unreached
<1>2. Untouched' /\ Counted' /\ RunsInUse' /\ RoutesInUse' /\ LoadBounded' /\
     ReturnedIsComplete' /\ PromotedIsComplete' /\ RouteSaved' /\ RecoveryKnowsAll'
  BY DEF IInv, Untouched, Counted, RunsInUse, RoutesInUse, LoadBounded,
         ReturnedIsComplete, PromotedIsComplete, RouteSaved, RecoveryKnowsAll,
         RollbackStart, given, Unreached, Rolling, RollingPhases, Routed, Load, InUse
<1>3. LeftoversKnown'
  BY <1>a DEF LeftoversKnown, RollingPhases, given, IInv, RollbackStart, Unreached
<1>4. RestoredByNow'
  BY <1>a DEF RestoredByNow, LeftoversKnown, given, IInv, RollbackStart, Unreached
<1>5. QED
  BY <1>1, <1>2, <1>3, <1>4 DEF IInv

LEMMA ExecutorCrashesStep ==
    ASSUME IInv, ExecutorCrashes
    PROVE  IInv'
<1>1. TypeOK'
  <2>1. recoveries' \in 0..MaxRecoveries
    BY CountsAssumption DEF ExecutorCrashes
  <2>2. phase' \in Phases /\ doomed' = NewOf(1..rollout'.replicas)
    BY DEF ExecutorCrashes, Phases, RollbackPhases, given
  <2>3. QED
    BY <2>1, <2>2 DEF TypeOK, IInv, given, ExecutorCrashes
<1>2. Untouched' /\ Counted' /\ RunsInUse' /\ RoutesInUse' /\ LoadBounded' /\
     ReturnedIsComplete' /\ PromotedIsComplete' /\ RouteSaved' /\ RecoveryKnowsAll' /\
     RestoredByNow'
  BY DEF IInv, Untouched, Counted, RunsInUse, RoutesInUse, LoadBounded,
         ReturnedIsComplete, PromotedIsComplete, RouteSaved, RecoveryKnowsAll,
         RestoredByNow, ExecutorCrashes, given, Rolling, RollingPhases, Routed, Load,
         InUse
<1>3. LeftoversKnown'
  BY DEF IInv, LeftoversKnown, ExecutorCrashes, given, TypeOK, RollingPhases,
         RecoveryKnowsAll
<1>4. QED
  BY <1>1, <1>2, <1>3 DEF IInv

LEMMA RecoveryCrashesStep ==
    ASSUME IInv, RecoveryCrashes
    PROVE  IInv'
<1>1. TypeOK'
  <2>1. recoveries' \in 0..MaxRecoveries
    BY CountsAssumption DEF RecoveryCrashes
  <2>2. phase' \in Phases
    BY DEF RecoveryCrashes, Phases, RollbackPhases
  <2>3. QED
    BY <2>1, <2>2 DEF TypeOK, IInv, given, RecoveryCrashes
<1>2. Untouched' /\ Counted' /\ RunsInUse' /\ RoutesInUse' /\ LoadBounded' /\
     ReturnedIsComplete' /\ PromotedIsComplete' /\ RouteSaved' /\ RecoveryKnowsAll' /\
     RestoredByNow'
  BY DEF IInv, Untouched, Counted, RunsInUse, RoutesInUse, LoadBounded,
         ReturnedIsComplete, PromotedIsComplete, RouteSaved, RecoveryKnowsAll,
         RestoredByNow, RecoveryCrashes, given, Rolling, RollingPhases, Routed, Load,
         InUse
<1>3. LeftoversKnown'
  <2>1. doomed = NewOf(1..rollout.replicas)
    BY CountsAssumption DEF IInv, RecoveryKnowsAll, RecoveryCrashes
  <2>2. running \ doomed \subseteq OldOf(1..count)
    BY <2>1 DEF IInv, TypeOK
  <2>3. QED
    BY <2>2 DEF LeftoversKnown, RollingPhases, RecoveryCrashes, given
<1>4. QED
  BY <1>1, <1>2, <1>3 DEF IInv

-----------------------------------------------------------------------------
(***************************************************************************)
(* The theorems.                                                           *)
(***************************************************************************)
\* The invariant holds in every reachable state.
THEOREM Invariance == Spec => []IInv
<1>1. IInv /\ [Next]_vars => IInv'
  <2> SUFFICES ASSUME IInv, [Next]_vars PROVE IInv'
    OBVIOUS
  <2>1. CASE UNCHANGED vars
    <3>1. TypeOK'
      BY <2>1 DEF vars, IInv, TypeOK
    <3>2. Untouched' /\ Counted' /\ RunsInUse'
      BY <2>1 DEF vars, IInv, Untouched, Counted, RunsInUse
    <3>3. RoutesInUse'
      BY <2>1 DEF vars, IInv, RoutesInUse, Routed, Rolling
    <3>4. LoadBounded'
      BY <2>1 DEF vars, IInv, LoadBounded, Load, InUse, Routed, Rolling
    <3>5. ReturnedIsComplete' /\ PromotedIsComplete' /\ RouteSaved'
      BY <2>1 DEF vars, IInv, ReturnedIsComplete, PromotedIsComplete, RouteSaved
    <3>6. LeftoversKnown' /\ RecoveryKnowsAll' /\ RestoredByNow'
      BY <2>1 DEF vars, IInv, LeftoversKnown, RecoveryKnowsAll, RestoredByNow
    <3>7. QED
      BY <3>1, <3>2, <3>3, <3>4, <3>5, <3>6 DEF IInv
  <2>2. CASE Replacement
    BY <2>2, InspectRunningPortsStep, PreflightRollingHeadroomStep,
       RetireFromRouteStep, StopRetiredStep, StartCandidateStep,
       VerifyRollingCandidateStabilityStep, RouteCandidateStep, PublishCandidatesStep,
       PromoteStep DEF Replacement
  <2>3. CASE Undoing
    BY <2>3, UndoRemoveStep, UndoStartStep, RestoreRollingRouteStep,
       RollbackRemoveStep, RollbackScriptStep, RollbackStartStep DEF Undoing
  <2>4. CASE ExecutorCrashes \/ RecoveryCrashes
    BY <2>4, ExecutorCrashesStep, RecoveryCrashesStep
  <2>5. QED
    BY <2>1, <2>2, <2>3, <2>4 DEF Next
<1>2. QED
  BY InitIInv, <1>1, PTL DEF Spec

\* Every variable keeps its type, and at most one candidate is under check.
THEOREM TypeCorrect == Spec => []TypeOK
BY Invariance, PTL DEF IInv

\* The containers in service are those of the invariant at least.
LEMMA InvStaysAvailable == IInv => StaysAvailable
<1> SUFFICES ASSUME IInv, Rolling
             PROVE  \/ Cardinality(Serving) >= Cardinality(previous)
                    \/ Cardinality(Serving) >= rollout.replicas - rollout.maxUnavailable
  BY DEF StaysAvailable
<1> DEFINE least == OldOf(activePrevious) \cup NewOf(1..Routed)
<1>1. Routed \in Nat /\ Routed <= attempted
  BY Numbers DEF IInv, Routed, Counted, TypeOK, Rolling, RollingPhases
<1>2. NewOf(1..Routed) \subseteq NewOf(1..attempted)
  <2>1. 1..Routed \subseteq 1..attempted
    BY <1>1, Numbers DEF IInv
  <2>2. QED
    BY <2>1 DEF NewOf
<1>3. OldOf(activePrevious) \cup NewOf(1..attempted) \subseteq running
  <2>1. CASE phase = "draining"
    <3>1. PICK i \in previous \ activePrevious :
              running = OldOf(activePrevious \cup {i}) \cup NewOf(1..attempted)
      BY <2>1 DEF IInv, RunsInUse
    <3>2. OldOf(activePrevious) \subseteq OldOf(activePrevious \cup {i})
      BY Subsets
    <3>3. QED
      BY <3>1, <3>2
  <2>2. CASE phase # "draining"
    BY <2>2 DEF IInv, RunsInUse, Rolling, RollingPhases
  <2>3. QED
    BY <2>1, <2>2
<1>4. least \subseteq Serving
  BY <1>2, <1>3 DEF IInv, RoutesInUse, Serving
<1>5. IsFiniteSet(running)
  <2>1. CASE phase = "draining"
    <3>1. PICK i \in previous \ activePrevious :
              running = OldOf(activePrevious \cup {i}) \cup NewOf(1..attempted)
      BY <2>1 DEF IInv, RunsInUse
    <3>2. IsFiniteSet(activePrevious \cup {i})
      BY Numbers, FS_AddElement DEF IInv
    <3>3. QED
      BY <3>1, <3>2, CountBoth, Numbers DEF IInv
  <2>2. CASE phase # "draining"
    BY <2>2, CountBoth, Numbers DEF IInv, RunsInUse, Rolling, RollingPhases
  <2>3. QED
    BY <2>1, <2>2
<1>6. /\ IsFiniteSet(Serving) /\ Cardinality(least) <= Cardinality(Serving)
      /\ Cardinality(Serving) \in Nat
  <2>1. Serving \subseteq running
    BY DEF Serving
  <2>2. IsFiniteSet(Serving)
    BY <1>5, <2>1, FS_Subset
  <2>3. QED
    BY <1>4, <2>2, FS_Subset, FS_CardinalityType
<1>7. Cardinality(least) = Cardinality(activePrevious) + Routed
  BY <1>1, CountBoth, Numbers DEF IInv
<1>8. QED
  BY <1>1, <1>6, <1>7, Numbers DEF IInv, LoadBounded

\* While it rolls, an application that ran keeps the replicas its manifest
\* promises in service, or as many as it had.
THEOREM StaysInService == Spec => []StaysAvailable
BY Invariance, InvStaysAvailable, PTL

\* What runs, in numbers.
LEMMA RunningIsLoad ==
    ASSUME IInv, Rolling
    PROVE  IsFiniteSet(running) /\ Cardinality(running) = Load /\ Load \in Nat
<1>1. CASE phase = "draining"
  <2>1. PICK i \in previous \ activePrevious :
            running = OldOf(activePrevious \cup {i}) \cup NewOf(1..attempted)
    BY <1>1 DEF IInv, RunsInUse
  <2>2. /\ IsFiniteSet(activePrevious \cup {i})
        /\ Cardinality(activePrevious \cup {i}) = Cardinality(activePrevious) + 1
    BY Numbers, FS_AddElement DEF IInv
  <2>3. attempted = candidates
    BY <1>1 DEF IInv, Counted
  <2>4. /\ IsFiniteSet(running)
        /\ Cardinality(running) = Cardinality(activePrevious) + 1 + attempted
    BY <2>1, <2>2, CountBoth, Numbers DEF IInv
  <2>5. Load = candidates + Cardinality(activePrevious) + 1
    BY <1>1 DEF Load, InUse
  <2>6. QED
    BY <2>3, <2>4, <2>5, Numbers DEF IInv
<1>2. CASE phase # "draining"
  <2>1. running = OldOf(activePrevious) \cup NewOf(1..attempted)
    BY <1>2 DEF IInv, RunsInUse, Rolling, RollingPhases
  <2>2. attempted = IF phase = "checking" THEN candidates + 1 ELSE candidates
    BY <1>2 DEF IInv, Counted, Rolling, RollingPhases
  <2>3. /\ IsFiniteSet(running)
        /\ Cardinality(running) = Cardinality(activePrevious) + attempted
    BY <2>1, CountBoth, Numbers DEF IInv
  <2>4. Load = Cardinality(activePrevious) + attempted
    <3>1. CASE phase = "checking"
      BY <3>1, <2>2, Numbers DEF IInv, Load, InUse
    <3>2. CASE phase # "checking"
      BY <1>2, <3>2, <2>2, Numbers DEF IInv, Load, InUse
    <3>3. QED
      BY <3>1, <3>2
  <2>5. QED
    BY <2>3, <2>4, Numbers DEF IInv
<1>3. QED
  BY <1>1, <1>2

\* It never runs more containers than the manifest permits, or than it had.
THEOREM StaysWithinSurge == Spec => []WithinSurge
<1>1. IInv => WithinSurge
  BY RunningIsLoad DEF WithinSurge, IInv, LoadBounded
<1>2. QED
  BY Invariance, <1>1, PTL

\* A replacement the schema accepts cannot get stuck half-way.
THEOREM NeverStuck == Spec => []NeverTooFewLeft
<1>1. IInv => NeverTooFewLeft
  BY Numbers DEF IInv, NeverTooFewLeft, MustRetire, TooFewLeft, InUse
<1>2. QED
  BY Invariance, <1>1, PTL

\* No request is sent to a container the replacement has stopped.
THEOREM RouteStaysLive == Spec => []RouteIsLive
<1>1. IInv => RouteIsLive
  <2> SUFFICES ASSUME IInv, Rolling, Serving # {}
               PROVE  /\ \A i \in previous : Old(i) \in route => Old(i) \in running
                      /\ \A k \in 1..rollout.replicas : New(k) \in route => New(k) \in running
    BY DEF RouteIsLive
  <2>1. OldOf(activePrevious) \cup NewOf(1..attempted) \subseteq running
    <3>1. CASE phase = "draining"
      <4>1. PICK i \in previous \ activePrevious :
                running = OldOf(activePrevious \cup {i}) \cup NewOf(1..attempted)
        BY <3>1 DEF IInv, RunsInUse
      <4>2. OldOf(activePrevious) \subseteq OldOf(activePrevious \cup {i})
        BY Subsets
      <4>3. QED
        BY <4>1, <4>2
    <3>2. CASE phase # "draining"
      BY <3>2 DEF IInv, RunsInUse, Rolling, RollingPhases
    <3>3. QED
      BY <3>1, <3>2
  <2>2. Routed \in Nat /\ Routed <= attempted
    BY Numbers DEF IInv, Routed, Counted, TypeOK, Rolling, RollingPhases
  <2>3. \A k \in 1..rollout.replicas : New(k) \in route => New(k) \in running
    <3> SUFFICES ASSUME NEW k \in 1..rollout.replicas, New(k) \in route
                 PROVE  New(k) \in running
      OBVIOUS
    <3>1. k \in 1..attempted
      BY <2>2, Numbers DEF IInv, RoutesInUse
    <3>2. QED
      BY <3>1, <2>1, Names
  <2>4. ASSUME NEW i \in previous, Old(i) \in route PROVE Old(i) \in running
    <3>1. CASE i \in activePrevious
      BY <3>1, <2>1, Names
    <3>2. CASE i \notin activePrevious
      <4>1. /\ Routed = 0 /\ activePrevious = {}
            /\ phase = "draining" => Old(i) \in running
        BY <3>2, <2>4 DEF IInv, RoutesInUse
      <4>2. CASE phase = "draining"
        BY <4>1, <4>2
      <4>3. CASE phase # "draining"
        \* Nothing that runs is in the route.
        <5>1. running = NewOf(1..attempted)
          <6>1. running = OldOf({}) \cup NewOf(1..attempted)
            BY <4>1, <4>3 DEF IInv, RunsInUse, Rolling, RollingPhases
          <6>2. OldOf({}) = {}
            BY Subsets
          <6>3. QED
            BY <6>1, <6>2
        <5>2. attempted <= rollout.replicas /\ attempted \in Nat
          BY Numbers DEF IInv, TypeOK
        <5>3. \A k \in 1..attempted : New(k) \notin route
          BY <4>1, <5>2, Numbers DEF IInv, RoutesInUse
        <5>4. Serving = {}
          BY <5>1, <5>3 DEF Serving, NewOf
        <5>5. QED
          BY <5>4
      <4>4. QED
        BY <4>2, <4>3
    <3>3. QED
      BY <3>1, <3>2
  <2>5. QED
    BY <2>3, <2>4
<1>2. QED
  BY Invariance, <1>1, PTL

\* What has been promoted runs completely, alone, and gets every request.
THEOREM PromotionIsComplete == Spec => []PromotedIsComplete
BY Invariance, PTL DEF IInv

\* A failure leaves the current release running and routed to, and none of
\* the candidates.
THEOREM FailureIsUndone == Spec => []FailureRestores
<1>1. IInv => FailureRestores
  BY DEF IInv, FailureRestores, LeftoversKnown, RestoredByNow
<1>2. QED
  BY Invariance, <1>1, PTL

\* The headroom that was checked suffices where the surge does not exceed the
\* number of replicas.
THEOREM HeadroomIsEnough == Spec => []HeadroomSuffices
<1>1. IInv => HeadroomSuffices
  <2> SUFFICES ASSUME IInv, rollout.maxSurge <= rollout.replicas, Rolling
               PROVE  Cardinality(running) <= Cardinality(previous) + AdditionalContainers
    BY DEF HeadroomSuffices, RoomForAll
  <2>1. /\ Cardinality(running) = Load /\ Load \in Nat
    BY RunningIsLoad
  <2>2. CASE previous # {}
    <3>1. rollout.replicas + rollout.maxSurge <= Cardinality(previous) + AdditionalContainers
      BY <2>2, Numbers DEF IInv, AdditionalContainers
    <3>2. QED
      BY <2>1, <3>1, <2>2, Numbers DEF IInv, LoadBounded, AdditionalContainers
  <2>3. CASE previous = {}
    <3>1. activePrevious = {} /\ Cardinality(activePrevious) = 0 /\ Cardinality(previous) = 0
      BY <2>3, Numbers DEF IInv, TypeOK
    <3>2. AdditionalContainers = rollout.replicas
      BY <2>3, <3>1, Numbers DEF IInv, AdditionalContainers
    <3>3. Load <= rollout.replicas
      <4>1. phase # "draining"
        BY <2>3 DEF IInv, RunsInUse
      <4>2. Load = attempted
        BY <3>1, <4>1, Numbers DEF IInv, Load, InUse, Counted, Rolling, RollingPhases
      <4>3. QED
        BY <4>2, Numbers DEF IInv, TypeOK
    <3>4. QED
      BY <2>1, <3>1, <3>2, <3>3, Numbers DEF IInv
  <2>4. QED
    BY <2>2, <2>3
<1>2. QED
  BY Invariance, <1>1, PTL

\* What keeps a replacement going.
THEOREM RolloutGoesOn == Spec => []RolloutInv
<1>1. TypeOK /\ RouteIsLive /\ NeverTooFewLeft => RolloutInv
  BY DEF RolloutInv
<1>2. QED
  BY <1>1, TypeCorrect, RouteStaysLive, NeverStuck, PTL
=============================================================================
