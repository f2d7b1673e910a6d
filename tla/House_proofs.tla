---------------------------- MODULE House_proofs ----------------------------
(***************************************************************************)
(* The house of lab 6 for any numbers of nomads and demons: its safety     *)
(* invariants, and that it implements SharedHouse.                         *)
(***************************************************************************)
EXTENDS House, FiniteSetTheorems, TLAPS

(* A visitor in cond_wait that has not freed the mutex yet still faces the *)
(* state that made it wait.                                                *)
StillHostile == \A p \in Visitors : pc[p] = "release" => state # "EMPTY"

(* HouseDescribed as equivalences, which the provers use more easily. *)
StateDescribed ==
  /\ state = "EMPTY" <=> Inside = {}
  /\ state = "NOMAD_INSIDE" => Inside \subseteq Nomads
  /\ state = "DEMON_INSIDE" => Inside \subseteq Demons

IInv == /\ TypeOK
        /\ MutexInv
        /\ count = Cardinality(Inside)
        /\ StateDescribed
        /\ WaitersCounted
        /\ StillHostile
        /\ NoLostWakeup
-----------------------------------------------------------------------------
(* Every set of visitors is finite, and a semaphore can count it.          *)
LEMMA VisitorsFinite ==
  ASSUME NEW S \in SUBSET Visitors
  PROVE  IsFiniteSet(S) /\ Cardinality(S) \in 0 .. SEMVMX
<1>1. IsFiniteSet(Visitors)
  BY FS_Union, HouseAssumption DEF Visitors
<1>2. IsFiniteSet(S) /\ Cardinality(S) <= Cardinality(Visitors)
  BY <1>1, FS_Subset
<1>3. Cardinality(S) \in Nat /\ Cardinality(Visitors) \in Nat
  BY <1>1, <1>2, FS_CardinalityType
<1>. QED
  BY <1>2, <1>3, HouseAssumption

(* How a step of a visitor changes the set of those inside ...             *)
LEMMA InsideStep ==
  ASSUME TypeOK, NEW p \in Visitors, NEW from, NEW to, Goto(p, from, to)
  PROVE  /\ from \in InsideLabels <=> to \in InsideLabels
               => Inside' = Inside /\ Cardinality(Inside)' = Cardinality(Inside)
         /\ from \notin InsideLabels /\ to \in InsideLabels
               => /\ Inside' = Inside \cup {p}
                  /\ Cardinality(Inside)' = Cardinality(Inside) + 1
         /\ from \in InsideLabels /\ to \notin InsideLabels
               => /\ Inside' = Inside \ {p}
                  /\ Cardinality(Inside)' = Cardinality(Inside) - 1
<1>1. p \in Inside <=> from \in InsideLabels
  BY DEF Goto, Inside, At
<1>2. to \in InsideLabels => Inside' = Inside \cup {p}
  BY DEF TypeOK, Goto, Inside, At
<1>3. to \notin InsideLabels => Inside' = Inside \ {p}
  BY DEF TypeOK, Goto, Inside, At
<1>4. IsFiniteSet(Inside)
  BY VisitorsFinite DEF Inside, At
<1>5. /\ Cardinality(Inside \cup {p}) =
            IF p \in Inside THEN Cardinality(Inside) ELSE Cardinality(Inside) + 1
      /\ Cardinality(Inside \ {p}) =
            IF p \in Inside THEN Cardinality(Inside) - 1 ELSE Cardinality(Inside)
  BY <1>4, FS_AddElement, FS_RemoveElement
<1>6. CASE to \in InsideLabels
  BY <1>1, <1>2, <1>5, <1>6
<1>7. CASE to \notin InsideLabels
  BY <1>1, <1>3, <1>5, <1>7
<1>. QED
  BY <1>6, <1>7

(* ... and the set of those that wait.                                     *)
LEMMA WaitingStep ==
  ASSUME TypeOK, NEW p \in Visitors, NEW from, NEW to, Goto(p, from, to)
  PROVE  /\ from \in WaitingLabels <=> to \in WaitingLabels
               => Waiting' = Waiting /\ Cardinality(Waiting)' = Cardinality(Waiting)
         /\ from \notin WaitingLabels /\ to \in WaitingLabels
               => /\ Waiting' = Waiting \cup {p}
                  /\ Cardinality(Waiting)' = Cardinality(Waiting) + 1
         /\ from \in WaitingLabels /\ to \notin WaitingLabels
               => /\ Waiting' = Waiting \ {p}
                  /\ Cardinality(Waiting)' = Cardinality(Waiting) - 1
<1>1. p \in Waiting <=> from \in WaitingLabels
  BY DEF Goto, Waiting, At
<1>2. to \in WaitingLabels => Waiting' = Waiting \cup {p}
  BY DEF TypeOK, Goto, Waiting, At
<1>3. to \notin WaitingLabels => Waiting' = Waiting \ {p}
  BY DEF TypeOK, Goto, Waiting, At
<1>4. IsFiniteSet(Waiting)
  BY VisitorsFinite DEF Waiting, At
<1>5. /\ Cardinality(Waiting \cup {p}) =
            IF p \in Waiting THEN Cardinality(Waiting) ELSE Cardinality(Waiting) + 1
      /\ Cardinality(Waiting \ {p}) =
            IF p \in Waiting THEN Cardinality(Waiting) - 1 ELSE Cardinality(Waiting)
  BY <1>4, FS_AddElement, FS_RemoveElement
<1>6. CASE to \in WaitingLabels
  BY <1>1, <1>2, <1>5, <1>6
<1>7. CASE to \notin WaitingLabels
  BY <1>1, <1>3, <1>5, <1>7
<1>. QED
  BY <1>6, <1>7

(* Taking or freeing the mutex exactly when a step enters or leaves the    *)
(* labels that own it keeps its owner alone.                               *)
LEMMA MutexStep ==
  ASSUME TypeOK, MutexInv, NEW p \in Visitors,
         NEW from \in Labels, NEW to \in Labels, Goto(p, from, to),
         \/ from \notin MutexLabels /\ to \in MutexLabels /\ Acquire
         \/ from \in MutexLabels /\ to \notin MutexLabels /\ Release
         \/ (from \in MutexLabels <=> to \in MutexLabels) /\ mtx' = mtx
  PROVE  MutexInv' /\ mtx' \in {0, 1} /\ pc' \in [Visitors -> Labels]
<1>1. pc' \in [Visitors -> Labels]
  BY DEF TypeOK, Goto
<1>2. /\ p \in HasMutex <=> from \in MutexLabels
      /\ to \in MutexLabels => HasMutex' = HasMutex \cup {p}
      /\ to \notin MutexLabels => HasMutex' = HasMutex \ {p}
  BY DEF TypeOK, Goto, HasMutex, At
<1>3. CASE from \notin MutexLabels /\ to \in MutexLabels /\ Acquire
  <2>1. mtx = 1 /\ mtx' = 0
    BY <1>3 DEF Acquire, TypeOK
  <2>2. HasMutex' = {p}
    BY <1>2, <1>3, <2>1 DEF MutexInv
  <2>. QED
    BY <1>1, <2>1, <2>2 DEF MutexInv
<1>4. CASE from \in MutexLabels /\ to \notin MutexLabels /\ Release
  <2>1. HasMutex = {p} /\ mtx = 0
    BY <1>2, <1>4 DEF MutexInv, TypeOK
  <2>2. mtx' = 1
    BY <1>4, <2>1, HouseAssumption DEF Release, SemPost
  <2>3. HasMutex' = {}
    BY <1>2, <1>4, <2>1
  <2>. QED
    BY <1>1, <2>2, <2>3 DEF MutexInv
<1>5. CASE (from \in MutexLabels <=> to \in MutexLabels) /\ mtx' = mtx
  <2>1. HasMutex' = HasMutex
    BY <1>2, <1>5
  <2>. QED
    BY <1>1, <1>5, <2>1 DEF MutexInv, TypeOK
<1>. QED
  BY <1>3, <1>4, <1>5

(* A post keeps the semaphore in its range and, when at most SEMVMX tokens *)
(* are posted, leaves at least one, even when the semop fails.             *)
LEMMA Posted ==
  ASSUME NEW value \in 0 .. SEMVMX, NEW k \in 1 .. SEMVMX
  PROVE  SemPost(value, k) \in 1 .. SEMVMX
BY HouseAssumption DEF SemPost
-----------------------------------------------------------------------------
(* The invariant holds initially.                                          *)
LEMMA InitIInv == Init => IInv
<1> SUFFICES ASSUME Init PROVE IInv
  OBVIOUS
<1>1. Inside = {} /\ Waiting = {} /\ HasMutex = {}
  BY DEF Init, Inside, Waiting, HasMutex, At, InsideLabels, WaitingLabels, MutexLabels
<1>2. Cardinality({}) = 0
  BY FS_EmptySet
<1>3. TypeOK
  BY HouseAssumption DEF Init, TypeOK, Labels
<1>4. MutexInv
  BY <1>1 DEF Init, MutexInv
<1>5. count = Cardinality(Inside) /\ StateDescribed /\ WaitersCounted
  BY <1>1, <1>2 DEF Init, StateDescribed, WaitersCounted
<1>6. StillHostile /\ NoLostWakeup
  BY DEF Init, StillHostile, NoLostWakeup, At
<1>. QED
  BY <1>3, <1>4, <1>5, <1>6 DEF IInv

(* What a step keeps when it touches neither the house nor the counter of  *)
(* sleepers, and nobody starts or stops being inside or waiting.           *)
LEMMA QuietStep ==
  ASSUME IInv, NEW p \in Visitors, NEW from, NEW to, Goto(p, from, to),
         UNCHANGED <<house, sleepers>>,
         from \in InsideLabels <=> to \in InsideLabels,
         from \in WaitingLabels <=> to \in WaitingLabels,
         to # "release"
  PROVE  /\ count' = Cardinality(Inside)'
         /\ StateDescribed' /\ WaitersCounted' /\ StillHostile'
<1>1. TypeOK
  BY DEF IInv
<1>2. Inside' = Inside /\ Cardinality(Inside)' = Cardinality(Inside)
  BY <1>1, InsideStep
<1>3. Waiting' = Waiting /\ Cardinality(Waiting)' = Cardinality(Waiting)
  BY <1>1, WaitingStep
<1>4. count' = Cardinality(Inside)' /\ StateDescribed'
  BY <1>2 DEF IInv, StateDescribed, house
<1>5. WaitersCounted'
  BY <1>3 DEF IInv, WaitersCounted, house
<1>6. StillHostile'
  BY DEF IInv, TypeOK, StillHostile, Goto, house
<1>. QED
  BY <1>4, <1>5, <1>6

(* The seven steps that only move a visitor and a semaphore.               *)
LEMMA SemaphoreSteps ==
  ASSUME IInv, NEW p \in Visitors,
         \/ Arrive(p) \/ WaitRelease(p) \/ WaitToken(p) \/ WaitRelock(p)
         \/ EnterUnlock(p) \/ LeaveLock(p) \/ LeaveUnlock(p)
  PROVE  IInv'
<1> USE DEF Labels, InsideLabels, WaitingLabels, MutexLabels
<1>0. TypeOK /\ MutexInv /\ NoLostWakeup /\ StillHostile
  BY DEF IInv
<1>1. CASE Arrive(p)
  <2>1. MutexInv' /\ mtx' \in {0, 1} /\ pc' \in [Visitors -> Labels]
    BY <1>0, <1>1, MutexStep DEF Arrive
  <2>2. /\ count' = Cardinality(Inside)'
        /\ StateDescribed' /\ WaitersCounted' /\ StillHostile'
    BY <1>1, QuietStep DEF Arrive
  <2>3. TypeOK'
    BY <1>0, <1>1, <2>1 DEF Arrive, TypeOK, house
  <2>4. NoLostWakeup'
    BY <1>0, <1>1 DEF Arrive, NoLostWakeup, TypeOK, Goto, At, house
  <2>. QED
    BY <2>1, <2>2, <2>3, <2>4 DEF IInv
<1>2. CASE WaitRelease(p)
  <2>1. MutexInv' /\ mtx' \in {0, 1} /\ pc' \in [Visitors -> Labels]
    BY <1>0, <1>2, MutexStep DEF WaitRelease
  <2>2. /\ count' = Cardinality(Inside)'
        /\ StateDescribed' /\ WaitersCounted' /\ StillHostile'
    BY <1>2, QuietStep DEF WaitRelease
  <2>3. TypeOK'
    BY <1>0, <1>2, <2>1 DEF WaitRelease, TypeOK, house
  <2>4. NoLostWakeup'
    BY <1>0, <1>2 DEF WaitRelease, NoLostWakeup, StillHostile, TypeOK, Goto, At, house
  <2>. QED
    BY <2>1, <2>2, <2>3, <2>4 DEF IInv
<1>3. CASE WaitToken(p)
  <2>1. MutexInv' /\ mtx' \in {0, 1} /\ pc' \in [Visitors -> Labels]
    BY <1>0, <1>3, MutexStep DEF WaitToken
  <2>2. /\ count' = Cardinality(Inside)'
        /\ StateDescribed' /\ WaitersCounted' /\ StillHostile'
    BY <1>3, QuietStep DEF WaitToken
  <2>3. TypeOK'
    BY <1>0, <1>3, <2>1, HouseAssumption DEF WaitToken, TypeOK, house
  <2>4. NoLostWakeup'
    BY <1>0, <1>3 DEF WaitToken, NoLostWakeup, StillHostile, TypeOK, Goto, At, house
  <2>. QED
    BY <2>1, <2>2, <2>3, <2>4 DEF IInv
<1>4. CASE WaitRelock(p)
  <2>1. MutexInv' /\ mtx' \in {0, 1} /\ pc' \in [Visitors -> Labels]
    BY <1>0, <1>4, MutexStep DEF WaitRelock
  <2>2. /\ count' = Cardinality(Inside)'
        /\ StateDescribed' /\ WaitersCounted' /\ StillHostile'
    BY <1>4, QuietStep DEF WaitRelock
  <2>3. TypeOK'
    BY <1>0, <1>4, <2>1 DEF WaitRelock, TypeOK, house
  <2>4. NoLostWakeup'
    BY <1>0, <1>4 DEF WaitRelock, NoLostWakeup, StillHostile, TypeOK, Goto, At, house
  <2>. QED
    BY <2>1, <2>2, <2>3, <2>4 DEF IInv
<1>5. CASE EnterUnlock(p)
  <2>1. MutexInv' /\ mtx' \in {0, 1} /\ pc' \in [Visitors -> Labels]
    BY <1>0, <1>5, MutexStep DEF EnterUnlock
  <2>2. /\ count' = Cardinality(Inside)'
        /\ StateDescribed' /\ WaitersCounted' /\ StillHostile'
    BY <1>5, QuietStep DEF EnterUnlock
  <2>3. TypeOK'
    BY <1>0, <1>5, <2>1 DEF EnterUnlock, TypeOK, house
  <2>4. NoLostWakeup'
    BY <1>0, <1>5 DEF EnterUnlock, NoLostWakeup, StillHostile, TypeOK, Goto, At, house
  <2>. QED
    BY <2>1, <2>2, <2>3, <2>4 DEF IInv
<1>6. CASE LeaveLock(p)
  <2>1. MutexInv' /\ mtx' \in {0, 1} /\ pc' \in [Visitors -> Labels]
    BY <1>0, <1>6, MutexStep DEF LeaveLock
  <2>2. /\ count' = Cardinality(Inside)'
        /\ StateDescribed' /\ WaitersCounted' /\ StillHostile'
    BY <1>6, QuietStep DEF LeaveLock
  <2>3. TypeOK'
    BY <1>0, <1>6, <2>1 DEF LeaveLock, TypeOK, house
  <2>4. NoLostWakeup'
    BY <1>0, <1>6 DEF LeaveLock, NoLostWakeup, StillHostile, TypeOK, Goto, At, house
  <2>. QED
    BY <2>1, <2>2, <2>3, <2>4 DEF IInv
<1>7. CASE LeaveUnlock(p)
  <2>1. MutexInv' /\ mtx' \in {0, 1} /\ pc' \in [Visitors -> Labels]
    BY <1>0, <1>7, MutexStep DEF LeaveUnlock
  <2>2. /\ count' = Cardinality(Inside)'
        /\ StateDescribed' /\ WaitersCounted' /\ StillHostile'
    BY <1>7, QuietStep DEF LeaveUnlock
  <2>3. TypeOK'
    BY <1>0, <1>7, <2>1 DEF LeaveUnlock, TypeOK, house
  <2>4. NoLostWakeup'
    BY <1>0, <1>7 DEF LeaveUnlock, NoLostWakeup, StillHostile, TypeOK, Goto, At, house
  <2>. QED
    BY <2>1, <2>2, <2>3, <2>4 DEF IInv
<1>. QED
  BY <1>1, <1>2, <1>3, <1>4, <1>5, <1>6, <1>7

(* The while's body: one more waiter is counted, under a hostile state,    *)
(* and counted off again when it has the mutex back.                       *)
LEMMA WaitSteps ==
  ASSUME IInv, NEW p \in Visitors, StartWait(p) \/ EndWait(p)
  PROVE  IInv'
<1> USE DEF Labels, InsideLabels, WaitingLabels, MutexLabels
<1>0. TypeOK /\ MutexInv /\ NoLostWakeup /\ StillHostile
  BY DEF IInv
<1>1. CASE StartWait(p)
  <2>1. MutexInv' /\ mtx' \in {0, 1} /\ pc' \in [Visitors -> Labels]
    BY <1>0, <1>1, MutexStep DEF StartWait
  <2>2. Inside' = Inside /\ Cardinality(Inside)' = Cardinality(Inside)
    BY <1>0, <1>1, InsideStep DEF StartWait
  <2>3. Cardinality(Waiting)' = Cardinality(Waiting) + 1
    BY <1>0, <1>1, WaitingStep DEF StartWait
  <2>4. count' = Cardinality(Inside)' /\ StateDescribed' /\ WaitersCounted'
    BY <1>1, <2>2, <2>3 DEF IInv, StartWait, StateDescribed, WaitersCounted
  <2>5. state # "EMPTY" /\ state' = state
    BY <1>1 DEF StartWait, Hostile
  <2>6. StillHostile' /\ NoLostWakeup'
    BY <2>5 DEF StillHostile, NoLostWakeup
  <2>7. TypeOK'
    BY <1>0, <1>1, <2>1 DEF StartWait, TypeOK
  <2>. QED
    BY <2>1, <2>4, <2>6, <2>7 DEF IInv
<1>2. CASE EndWait(p)
  <2>1. MutexInv' /\ mtx' \in {0, 1} /\ pc' \in [Visitors -> Labels]
    BY <1>0, <1>2, MutexStep DEF EndWait
  <2>2. Inside' = Inside /\ Cardinality(Inside)' = Cardinality(Inside)
    BY <1>0, <1>2, InsideStep DEF EndWait
  <2>3. Cardinality(Waiting)' = Cardinality(Waiting) - 1
    BY <1>0, <1>2, WaitingStep DEF EndWait
  <2>4. count' = Cardinality(Inside)' /\ StateDescribed' /\ WaitersCounted'
    BY <1>2, <2>2, <2>3 DEF IInv, EndWait, StateDescribed, WaitersCounted
  <2>5. Cardinality(Waiting)' \in Nat
    <3>1. (Waiting \in SUBSET Visitors)'
      BY DEF Waiting, At
    <3>. QED
      BY <3>1, VisitorsFinite, HouseAssumption
  <2>6. StillHostile' /\ NoLostWakeup'
    BY <1>0, <1>2 DEF EndWait, StillHostile, NoLostWakeup, TypeOK, Goto, At
  <2>7. TypeOK'
    BY <1>0, <1>2, <2>1, <2>4, <2>5 DEF EndWait, TypeOK, WaitersCounted
  <2>. QED
    BY <2>1, <2>4, <2>6, <2>7 DEF IInv
<1>. QED
  BY <1>1, <1>2

(* Going in: possible only when nobody of the other kind is inside, and    *)
(* the state then names the visitor's own kind.                            *)
LEMMA EnterSteps ==
  ASSUME IInv, NEW p \in Visitors, NomadEnter(p) \/ DemonEnter(p)
  PROVE  IInv'
<1> USE DEF Labels, InsideLabels, WaitingLabels, MutexLabels
<1>0. TypeOK /\ MutexInv /\ NoLostWakeup /\ StillHostile /\ StateDescribed
  BY DEF IInv
<1>1. Goto(p, "test", "entered") /\ mtx' = mtx /\ count' = count + 1
  BY DEF NomadEnter, DemonEnter
<1>2. MutexInv' /\ mtx' \in {0, 1} /\ pc' \in [Visitors -> Labels]
  BY <1>0, <1>1, MutexStep
<1>3. /\ Inside' = Inside \cup {p}
      /\ Cardinality(Inside)' = Cardinality(Inside) + 1
  BY <1>0, <1>1, InsideStep
<1>4. Waiting' = Waiting /\ Cardinality(Waiting)' = Cardinality(Waiting)
  BY <1>0, <1>1, WaitingStep
<1>5. count' = Cardinality(Inside)'
  BY <1>1, <1>3 DEF IInv
<1>6. WaitersCounted' /\ wait_count' = wait_count /\ sleepers' = sleepers
  BY <1>4 DEF IInv, WaitersCounted, NomadEnter, DemonEnter
<1>7. count = 0 <=> Inside = {}
  <2>1. IsFiniteSet(Inside)
    BY VisitorsFinite DEF Inside, At
  <2>. QED
    BY <2>1, FS_EmptySet DEF IInv
<1>8. state' # "EMPTY" /\ StateDescribed'
  <2>1. CASE NomadEnter(p)
    <3>1. state \in {"EMPTY", "NOMAD_INSIDE"} /\ p \in Nomads
      BY <1>0, <2>1 DEF NomadEnter, Hostile, TypeOK
    <3>2. state' = "NOMAD_INSIDE"
      BY <1>0, <1>7, <2>1, <3>1 DEF NomadEnter, Own, StateDescribed, TypeOK
    <3>. QED
      BY <1>0, <1>3, <3>1, <3>2 DEF StateDescribed
  <2>2. CASE DemonEnter(p)
    <3>1. state \in {"EMPTY", "DEMON_INSIDE"} /\ p \in Demons /\ p \notin Nomads
      BY <1>0, <2>2, HouseAssumption DEF DemonEnter, Hostile, TypeOK
    <3>2. state' = "DEMON_INSIDE"
      BY <1>0, <1>7, <2>2, <3>1 DEF DemonEnter, Own, StateDescribed, TypeOK
    <3>. QED
      BY <1>0, <1>3, <3>1, <3>2 DEF StateDescribed
  <2>. QED
    BY <2>1, <2>2
<1>9. StillHostile' /\ NoLostWakeup'
  BY <1>8 DEF StillHostile, NoLostWakeup
<1>10. cnd' \in 0 .. SEMVMX
  <2>1. sleepers \in 0 .. SEMVMX
    BY VisitorsFinite DEF IInv, WaitersCounted, Waiting, At
  <2>2. sleepers > 0 => SemPost(cnd, sleepers) \in 1 .. SEMVMX
    BY <1>0, <2>1, Posted DEF TypeOK
  <2>. QED
    BY <1>0, <2>2 DEF NomadEnter, DemonEnter, cond_broadcast, TypeOK
<1>11. TypeOK'
  BY <1>0, <1>1, <1>2, <1>6, <1>10 DEF NomadEnter, DemonEnter, Own, TypeOK
<1>. QED
  BY <1>2, <1>5, <1>6, <1>8, <1>9, <1>11 DEF IInv

(* Going out: the last one out leaves a token for whoever sleeps.          *)
LEMMA LeaveSteps ==
  ASSUME IInv, NEW p \in Visitors, NomadLeave(p) \/ DemonLeave(p)
  PROVE  IInv'
<1> USE DEF Labels, InsideLabels, WaitingLabels, MutexLabels
<1>0. TypeOK /\ MutexInv /\ NoLostWakeup /\ StillHostile /\ StateDescribed
  BY DEF IInv
<1>1. Goto(p, "leaving", "left") /\ mtx' = mtx /\ count' = count - 1
  BY DEF NomadLeave, DemonLeave
<1>2. MutexInv' /\ mtx' \in {0, 1} /\ pc' \in [Visitors -> Labels]
  BY <1>0, <1>1, MutexStep
<1>3. /\ Inside' = Inside \ {p}
      /\ Cardinality(Inside)' = Cardinality(Inside) - 1
  BY <1>0, <1>1, InsideStep
<1>4. Waiting' = Waiting /\ Cardinality(Waiting)' = Cardinality(Waiting)
  BY <1>0, <1>1, WaitingStep
<1>5. count' = Cardinality(Inside)'
  BY <1>1, <1>3 DEF IInv
<1>6. WaitersCounted' /\ wait_count' = wait_count /\ sleepers' = sleepers
  BY <1>4 DEF IInv, WaitersCounted, NomadLeave, DemonLeave
<1>7. count' \in Nat /\ (count' = 0 <=> Inside' = {})
  <2>1. (IsFiniteSet(Inside) /\ Cardinality(Inside) \in Nat)'
    <3>1. (Inside \in SUBSET Visitors)'
      BY DEF Inside, At
    <3>. QED
      BY <3>1, VisitorsFinite, HouseAssumption
  <2>2. (Cardinality(Inside) = 0 <=> Inside = {})'
    BY <2>1, FS_EmptySet
  <2>. QED
    BY <1>5, <2>1, <2>2
<1>8. state' = IF Inside' = {} THEN "EMPTY" ELSE state
  BY <1>7 DEF NomadLeave, DemonLeave
<1>9. StateDescribed'
  BY <1>0, <1>3, <1>8 DEF StateDescribed
<1>10. sleepers = Cardinality(Waiting) /\ wait_count = sleepers
  BY DEF IInv, WaitersCounted
<1>11. sleepers \in 0 .. SEMVMX /\ (Waiting # {} => sleepers # 0)
  <2>1. IsFiniteSet(Waiting) /\ Cardinality(Waiting) \in 0 .. SEMVMX
    BY VisitorsFinite DEF Waiting, At
  <2>. QED
    BY <1>10, <2>1, FS_EmptySet
<1>12. /\ cnd' \in 0 .. SEMVMX
       /\ Inside' = {} /\ Waiting # {} => cnd' > 0
  <2>1. /\ sleepers > 0 => SemPost(cnd, sleepers) \in 1 .. SEMVMX
        /\ SemPost(cnd, 1) \in 1 .. SEMVMX
    <3>1. cnd \in 0 .. SEMVMX /\ 1 \in 1 .. SEMVMX
      BY <1>0, HouseAssumption DEF TypeOK
    <3>2. sleepers > 0 => sleepers \in 1 .. SEMVMX
      BY <1>11, HouseAssumption
    <3>. QED
      BY <3>1, <3>2, Posted
  <2>2. CASE count' = 0 /\ sleepers > 0
    <3>1. cnd' = SemPost(cnd, sleepers) \/ cnd' = SemPost(cnd, 1)
      BY <1>10, <2>2 DEF NomadLeave, DemonLeave, cond_broadcast, cond_signal
    <3>. QED
      BY <2>1, <2>2, <3>1, HouseAssumption
  <2>3. CASE ~ (count' = 0 /\ sleepers > 0)
    <3>1. cnd' = cnd
      BY <1>10, <2>3 DEF NomadLeave, DemonLeave
    <3>2. Inside' # {} \/ Waiting = {}
      BY <1>7, <1>11, <2>3, HouseAssumption
    <3>. QED
      BY <1>0, <3>1, <3>2 DEF TypeOK
  <2>. QED
    BY <2>2, <2>3
<1>13. StillHostile'
  <2>1. \A q \in Visitors : pc'[q] # "release"
    BY <1>0, <1>1 DEF MutexInv, HasMutex, At, Goto, TypeOK
  <2>. QED
    BY <2>1 DEF StillHostile
<1>14. NoLostWakeup'
  <2>1. (At({"blocked"}) # {})' => Waiting' # {}
    BY DEF Waiting, At
  <2>2. state' = "EMPTY" => Inside' = {}
    BY <1>9 DEF StateDescribed
  <2>. QED
    BY <1>4, <1>12, <2>1, <2>2 DEF NoLostWakeup
<1>15. TypeOK'
  BY <1>0, <1>2, <1>6, <1>7, <1>8, <1>12 DEF TypeOK
<1>. QED
  BY <1>2, <1>5, <1>6, <1>9, <1>13, <1>14, <1>15 DEF IInv

(* The invariant is inductive.                                             *)
LEMMA NextIInv == IInv /\ [Next]_vars => IInv'
<1> SUFFICES ASSUME IInv, [Next]_vars PROVE IInv'
  OBVIOUS
<1>1. ASSUME NEW p \in Visitors, Take(p) PROVE IInv'
  BY <1>1, SemaphoreSteps DEF Take
<1>2. ASSUME NEW p \in Visitors, Run(p) PROVE IInv'
  BY <1>2, SemaphoreSteps, WaitSteps, EnterSteps, LeaveSteps DEF Run
<1>3. CASE UNCHANGED vars
  BY <1>3 DEF vars, IInv, TypeOK, MutexInv, StateDescribed, WaitersCounted,
     StillHostile, NoLostWakeup, Inside, Waiting, HasMutex, At
<1>. QED
  BY <1>1, <1>2, <1>3 DEF Next, Visit

LEMMA Inductive == Spec => []IInv
  BY InitIInv, NextIInv, PTL DEF Spec
-----------------------------------------------------------------------------
(* Every variable keeps its range for any visitors.                        *)
THEOREM TypeCorrect == Spec => []TypeOK
<1>1. IInv => TypeOK
  BY DEF IInv
<1>. QED
  BY <1>1, Inductive, PTL

(* The semaphore pair really is a mutex, also across cond_wait.            *)
THEOREM MutexCorrect == Spec => []MutexInv
<1>1. IInv => MutexInv
  BY DEF IInv
<1>. QED
  BY <1>1, Inductive, PTL

(* No nomad and demon are ever in the house together.                      *)
THEOREM Exclusion == Spec => []NeverTogether
<1>1. IInv => NeverTogether
  BY DEF IInv, TypeOK, StateDescribed, NeverTogether
<1>. QED
  BY <1>1, Inductive, PTL

(* The shared words describe who is inside.                                *)
THEOREM Described == Spec => []HouseDescribed
<1>1. IInv => HouseDescribed
  <2> SUFFICES ASSUME IInv PROVE HouseDescribed
    OBVIOUS
  <2>1. /\ Inside = {} => state = "EMPTY"
        /\ Inside \cap Nomads # {} => state = "NOMAD_INSIDE"
        /\ Inside # {} /\ Inside \cap Nomads = {} => state = "DEMON_INSIDE"
    BY HouseAssumption DEF IInv, TypeOK, StateDescribed
  <2>. QED
    BY <2>1 DEF IInv, HouseDescribed
<1>. QED
  BY <1>1, Inductive, PTL

(* The two counters of waiters agree, with each other and with who waits.  *)
THEOREM Counted == Spec => []WaitersCounted
<1>1. IInv => WaitersCounted
  BY DEF IInv
<1>. QED
  BY <1>1, Inductive, PTL

(* An empty house never lets its sleepers down.                            *)
THEOREM NoneLost == Spec => []NoLostWakeup
<1>1. IInv => NoLostWakeup
  BY DEF IInv
<1>. QED
  BY <1>1, Inductive, PTL

(* No deadlock, with at least one visitor.                                 *)
THEOREM NoDeadlock == ASSUME Visitors # {} PROVE Spec => []SomebodyCanMove
<1>1. IInv => SomebodyCanMove
  <2> SUFFICES ASSUME IInv PROVE SomebodyCanMove
    OBVIOUS
  <2> USE DEF Labels, InsideLabels, MutexLabels
  <2>1. CASE HasMutex # {}
    BY <2>1 DEF HasMutex, At, SomebodyCanMove
  <2>2. CASE HasMutex = {}
    <3>1. mtx = 1 /\ \A p \in Visitors : pc[p] \in {"away", "blocked", "woken", "inside"}
      BY <2>2 DEF IInv, TypeOK, MutexInv, HasMutex, At
    <3>2. CASE \E p \in Visitors : pc[p] # "blocked"
      BY <3>1, <3>2 DEF SomebodyCanMove
    <3>3. CASE \A p \in Visitors : pc[p] = "blocked"
      <4>1. Inside = {} /\ At({"blocked"}) # {} /\ At({"woken", "resume", "test"}) = {}
        BY <3>3 DEF Inside, At
      <4>2. cnd > 0
        BY <4>1 DEF IInv, StateDescribed, NoLostWakeup
      <4>. QED
        BY <3>3, <4>2 DEF SomebodyCanMove
    <3>. QED
      BY <3>2, <3>3
  <2>. QED
    BY <2>1, <2>2
<1>. QED
  BY <1>1, Inductive, PTL

(* The safety part of SharedHouse is implemented: counting in and counting *)
(* out are its two steps, every other step leaves Inside as it was.        *)
THEOREM ImplementsSharedHouse == Spec => Abstract!Safety
<1>1. Init => Abstract!Init
  BY DEF Init, Abstract!Init, Inside, At, InsideLabels
<1>2. IInv /\ [Next]_vars => [Abstract!Next]_Inside
  <2> SUFFICES ASSUME IInv, [Next]_vars PROVE [Abstract!Next]_Inside
    OBVIOUS
  <2> USE DEF InsideLabels
  <2>1. TypeOK
    BY DEF IInv
  <2>2. ASSUME NEW p \in Visitors, NomadEnter(p) \/ DemonEnter(p)
        PROVE  Abstract!Enter(p)
    <3>1. Goto(p, "test", "entered") /\ state # Hostile(p)
      BY <2>2 DEF NomadEnter, DemonEnter
    <3>2. p \notin Inside /\ Inside' = Inside \cup {p}
      BY <2>1, <3>1, InsideStep DEF Inside, At, Goto
    <3>3. Inside \subseteq Abstract!Kin(p)
      BY <3>1, HouseAssumption
         DEF IInv, TypeOK, StateDescribed, Hostile, Abstract!Kin, Visitors
    <3>. QED
      BY <3>2, <3>3 DEF Abstract!Enter
  <2>3. ASSUME NEW p \in Visitors, NomadLeave(p) \/ DemonLeave(p)
        PROVE  Abstract!Leave(p)
    <3>1. Goto(p, "leaving", "left")
      BY <2>3 DEF NomadLeave, DemonLeave
    <3>2. p \in Inside
      BY <3>1 DEF Inside, At, Goto
    <3>. QED
      BY <2>1, <3>1, <3>2, InsideStep DEF Abstract!Leave
  <2>4. ASSUME NEW p \in Visitors,
               \/ Take(p) \/ StartWait(p) \/ WaitRelease(p) \/ EndWait(p)
               \/ EnterUnlock(p) \/ LeaveUnlock(p)
        PROVE  Inside' = Inside
    BY <2>1, <2>4, InsideStep
       DEF Take, Arrive, WaitToken, WaitRelock, LeaveLock, StartWait,
           WaitRelease, EndWait, EnterUnlock, LeaveUnlock
  <2>5. CASE UNCHANGED vars
    BY <2>5 DEF vars, Inside, At
  <2>. QED
    BY <2>2, <2>3, <2>4, <2>5 DEF Next, Visit, Run, Visitors, Abstract!Next
<1>. QED
  BY <1>1, <1>2, Inductive, PTL DEF Spec, Abstract!Safety
=============================================================================
