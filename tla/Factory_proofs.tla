--------------------------- MODULE Factory_proofs ---------------------------
(***************************************************************************)
(* Proofs about Factory, for any two plans of parts and workers whose      *)
(* parts depend on smaller ones, and any orders.                           *)
(***************************************************************************)
EXTENDS Factory, WellFoundedInduction, TLAPS

(* A set of part numbers that is not empty has a first one.                *)
LEMMA Least ==
  ASSUME NEW S \in SUBSET Nat, S # {}
  PROVE  First(S) \in S /\ \A q \in S : First(S) <= q
<1>1. PICK p \in S : \A q \in S : ~ (<<q, p>> \in OpToRel(<, Nat))
  BY NatLessThanWellFounded, WFMin
<1>2. \A q \in S : ~ (q < p)
  <2>1. \A q \in S : q \in Nat /\ p \in Nat
    OBVIOUS
  <2>. QED
    BY <1>1, <2>1, Zenon DEF OpToRel
<1>3. \A q \in S : p <= q
  BY <1>2
<1>. QED
  BY <1>3 DEF First

(* The constants, unfolded once. *)
LEMMA Constants ==
  /\ "FOO" \in Cars /\ "BAR" \in Cars
  /\ \A c \in Cars : /\ Parts(c) \subseteq AllParts /\ Parts(c) \subseteq Nat
                     /\ n_workers[c] \in Nat /\ n_parts[c] \in Nat
                     /\ Orders[c] \in Nat
                     /\ \A p \in Parts(c) : part_worker_map[c][p] \in Workers
                     /\ \A p \in Parts(c) : part_worker_map[c][p] < n_workers[c]
                     /\ \A e \in graph[c] : e[1] < e[2]
  /\ AllParts \subseteq Nat /\ Workers \subseteq Nat
  /\ M \in Nat
  /\ \A c \in Cars : c = "FOO" \/ c = "BAR"
<1>1. \A c \in Cars : c = "FOO" \/ c = "BAR"
  BY DEF Cars
<1>2. \A c \in Cars : n_workers[c] \in Nat /\ n_parts[c] \in Nat /\ Orders[c] \in Nat
  BY FactoryAssumption
<1>3. M \in Nat /\ \A c \in Cars : n_workers[c] <= M
  BY <1>1, <1>2 DEF M, Cars
<1>4. \A c \in Cars : Parts(c) \subseteq AllParts /\ Parts(c) \subseteq Nat
  BY <1>1, <1>2 DEF AllParts, Parts
<1>5. \A c \in Cars : \A p \in Parts(c) :
         part_worker_map[c][p] \in Workers /\ part_worker_map[c][p] < n_workers[c]
  BY <1>2, <1>3, FactoryAssumption DEF Workers
<1>6. \A c \in Cars : \A e \in graph[c] : e[1] < e[2]
  BY FactoryAssumption
<1>7. AllParts \subseteq Nat /\ Workers \subseteq Nat
  BY <1>2, <1>3 DEF AllParts, Parts, Workers, Cars
<1>. QED
  BY <1>1, <1>2, <1>3, <1>4, <1>5, <1>6, <1>7 DEF Cars
-----------------------------------------------------------------------------
(* Where the workers can be, given where the manager is.                   *)
Phases ==
  \A w \in Workers :
     pc[w] \in CASE mpc = "eop"            -> {"day", "pick", "waiting", "woken", "eop"}
                 [] mpc \in {"join", "end"} -> {"day", "end"}
                 [] OTHER                  -> {"start", "bop"}

(* What is left to do, and which car the day is about.                     *)
Booked ==
  /\ mpc \in {"set", "bop", "eop", "count"} => left[type] > 0
  /\ mpc \in {"bop", "eop", "count"} => current_car = type
  /\ mpc \in {"last", "join", "end"} => left["FOO"] = 0 /\ left["BAR"] = 0

(* PSTAT through the day of a car: all pending, then what is still before  *)
(* each worker, then all done.                                             *)
Pending(c, w) == {p \in assignment(c, w) : PSTAT[p] = "PENDING"}

DayOfCar ==
  /\ mpc \in {"set", "bop"} => \A w \in Workers : Pending(type, w) = assignment(type, w)
  /\ mpc = "eop" => \A w \in Workers :
        /\ pc[w] = "day" => Pending(current_car, w) = assignment(current_car, w)
        /\ w \in AtWork => todo[w] = Pending(current_car, w)
        /\ pc[w] = "eop" => Pending(current_car, w) = {}
        /\ pc[w] \in {"waiting", "woken"} => todo[w] # {}

IInv == TypeOK /\ Phases /\ Booked /\ DayOfCar /\ NoLostWakeup

LEMMA IInvInit == Init => IInv
<1>. SUFFICES ASSUME Init PROVE IInv
  OBVIOUS
<1>1. TypeOK
  BY Constants, FactoryAssumption DEF Init, TypeOK
<1>. QED
  BY <1>1 DEF IInv, Init, Phases, Booked, DayOfCar, NoLostWakeup

(* The steps of a worker but Work: the day's car and PSTAT stay.           *)
LEMMA QuietStep ==
  ASSUME IInv, NEW w \in Workers,
         Ready(w) \/ Quit(w) \/ DayOff(w) \/ Begin(w) \/ Wait(w) \/ SpuriousWakeup(w) \/ AllDone(w)
  PROVE  IInv'
<1> USE DEF Goto, Idle
<1>0. TypeOK /\ Phases /\ Booked /\ DayOfCar /\ NoLostWakeup
  BY DEF IInv
<1>1. UNCHANGED <<PSTAT, current_car, left, mpc, type>>
  BY DEF Ready, Quit, DayOff, Begin, Wait, SpuriousWakeup, AllDone
<1>2. /\ \A v \in Workers : v # w => pc'[v] = pc[v] /\ todo'[v] = todo[v]
                                    /\ WSTAT'[v] = WSTAT[v] /\ WINFO'[v] = WINFO[v]
      /\ pc[w] = "waiting" => pc'[w] # "waiting"
  BY <1>0 DEF TypeOK, Ready, Quit, DayOff, Begin, Wait, SpuriousWakeup, AllDone
<1>3. TypeOK'
  <2>1. CASE Ready(w) \/ Quit(w) \/ DayOff(w) \/ SpuriousWakeup(w) \/ AllDone(w)
    BY <1>0, <1>1, <2>1 DEF TypeOK, Ready, Quit, DayOff, SpuriousWakeup, AllDone
  <2>2. CASE Begin(w)
    BY <1>0, <1>1, <2>2, Constants DEF TypeOK, Begin, assignment
  <2>3. CASE Wait(w)
    <3>1. First(todo[w]) \in Int
      <4>1. todo[w] \in SUBSET Nat /\ todo[w] # {}
        BY <1>0, <2>3, Constants DEF TypeOK, Wait
      <4>. QED
        BY <4>1, Least
    <3>. QED
      BY <1>0, <1>1, <2>3, <3>1 DEF TypeOK, Wait
  <2>. QED
    BY <2>1, <2>2, <2>3
<1>4. Phases' /\ Booked'
  <2>1. CASE Ready(w)
    BY <1>0, <1>1, <2>1 DEF TypeOK, Phases, Booked, Ready
  <2>2. CASE Quit(w) \/ DayOff(w) \/ Begin(w)
    <3>1. mpc \in {"eop", "join", "end"} /\ (mpc = "eop" <=> left["FOO"] + left["BAR"] > 0)
      <4>1. left["FOO"] \in Nat /\ left["BAR"] \in Nat /\ (type = "FOO" \/ type = "BAR")
        BY <1>0, Constants DEF TypeOK
      <4>2. pc[w] = "day"
        BY <2>2 DEF Quit, DayOff, Begin
      <4>3. mpc \in {"eop", "join", "end"}
        BY <1>0, <4>2 DEF Phases
      <4>. QED
        BY <1>0, <4>1, <4>3 DEF Booked
    <3>2. Booked'
      BY <1>0, <1>1 DEF Booked
    <3>3. \/ pc'[w] = "end" /\ left["FOO"] + left["BAR"] <= 0
          \/ pc'[w] \in {"eop", "pick"} /\ left["FOO"] + left["BAR"] > 0
      BY <1>0, <2>2 DEF TypeOK, Quit, DayOff, Begin
    <3>4. left["FOO"] + left["BAR"] \in Int
      BY <1>0, Constants DEF TypeOK
    <3>5. Phases'
      <4>1. \/ pc'[w] = "end" /\ mpc \in {"join", "end"}
            \/ pc'[w] \in {"eop", "pick"} /\ mpc = "eop"
        BY <3>1, <3>3, <3>4
      <4>. QED
        BY <1>0, <1>1, <1>2, <4>1 DEF Phases
    <3>. QED
      BY <3>2, <3>5
  <2>3. CASE Wait(w) \/ SpuriousWakeup(w) \/ AllDone(w)
    BY <1>0, <1>1, <2>3 DEF TypeOK, Phases, Booked, Wait, SpuriousWakeup, AllDone
  <2>. QED
    BY <2>1, <2>2, <2>3
<1>5. \A c \in Cars : \A v \in Workers : Pending(c, v)' = Pending(c, v)
  BY <1>1 DEF Pending, assignment
<1>6. DayOfCar'
  <2>1. mpc' \in {"set", "bop"} =>
           \A v \in Workers : Pending(type, v)' = assignment(type', v)
    BY <1>0, <1>1, <1>5 DEF DayOfCar, TypeOK
  <2>2. ASSUME mpc' = "eop", NEW v \in Workers
        PROVE  /\ pc'[v] = "day" => Pending(current_car, v)' = assignment(current_car', v)
               /\ v \in AtWork' => todo'[v] = Pending(current_car, v)'
               /\ pc'[v] = "eop" => Pending(current_car, v)' = {}
               /\ pc'[v] \in {"waiting", "woken"} => todo'[v] # {}
    <3>0. Pending(current_car, v)' = Pending(current_car, v) /\ current_car' = current_car
      BY <1>0, <1>1, <1>5 DEF TypeOK
    <3>1. CASE v # w
      BY <1>0, <1>1, <1>2, <2>2, <3>0, <3>1 DEF DayOfCar, AtWork
    <3>2. CASE v = w /\ (Ready(w) \/ Quit(w))
      <4>1. FALSE
        BY <1>0, <1>1, <2>2, <3>2, Constants
           DEF Phases, Booked, TypeOK, Ready, Quit
      <4>. QED
        BY <4>1
    <3>3. CASE v = w /\ DayOff(w)
      <4>1. assignment(current_car, w) = {}
        BY <1>0, <3>3, Constants DEF DayOff, assignment, TypeOK
      <4>. QED
        BY <1>0, <1>1, <2>2, <3>0, <3>3, <4>1 DEF DayOff, Pending, TypeOK, AtWork
    <3>4. CASE v = w /\ Begin(w)
      BY <1>0, <1>1, <2>2, <3>0, <3>4 DEF Begin, DayOfCar, TypeOK, AtWork
    <3>5. CASE v = w /\ (Wait(w) \/ SpuriousWakeup(w) \/ AllDone(w))
      BY <1>0, <1>1, <2>2, <3>0, <3>5 DEF Wait, SpuriousWakeup, AllDone, DayOfCar, TypeOK, AtWork
    <3>. QED
      BY <3>1, <3>2, <3>3, <3>4, <3>5
  <2>. QED
    BY <2>1, <2>2 DEF DayOfCar, Pending, assignment
<1>7. NoLostWakeup'
  <2>. SUFFICES ASSUME NEW v \in Workers, pc'[v] = "waiting"
       PROVE  /\ ~ checkPrerequisitesComplete(PSTAT, First(todo[v]))'
              /\ WSTAT'[v] = "WAITING" /\ WINFO'[v] = First(todo[v])'
    BY DEF NoLostWakeup
  <2>1. CASE v # w
    BY <1>0, <1>1, <1>2, <2>1 DEF NoLostWakeup, checkPrerequisitesComplete, prerequisites
  <2>2. CASE v = w
    <3>1. Wait(w)
      BY <1>0, <1>2, <2>2 DEF TypeOK, Ready, Quit, DayOff, Begin, SpuriousWakeup, AllDone
    <3>. QED
      BY <1>0, <1>1, <2>2, <3>1 DEF Wait, TypeOK, checkPrerequisitesComplete, prerequisites
  <2>. QED
    BY <2>1, <2>2
<1>. QED
  BY <1>3, <1>4, <1>6, <1>7 DEF IInv

(* A part is done: its prerequisites were, and whoever waited for it alone *)
(* is woken.                                                               *)
LEMMA WorkStep ==
  ASSUME IInv, NEW w \in Workers, Work(w)
  PROVE  IInv'
<1> DEFINE p == First(todo[w])
<1>0. TypeOK /\ Phases /\ Booked /\ DayOfCar /\ NoLostWakeup
  BY DEF IInv
<1>1. /\ UNCHANGED <<current_car, left, mpc, type, WINFO>>
      /\ pc[w] \in {"pick", "woken"} /\ todo[w] # {}
      /\ checkPrerequisitesComplete(PSTAT, p)
      /\ WSTAT' = [WSTAT EXCEPT ![w] = "WORKING"]
      /\ PSTAT' = [PSTAT EXCEPT ![p] = "DONE"]
      /\ todo' = [todo EXCEPT ![w] = @ \ {p}]
      /\ pc' = [v \in Workers |->
                  IF v = w THEN "pick"
                  ELSE IF v \in ToWake(PSTAT', WSTAT', p) /\ pc[v] = "waiting"
                       THEN "woken" ELSE pc[v]]
  BY DEF Work, Idle
<1>2. mpc = "eop" /\ w \in AtWork /\ current_car = type
  BY <1>0, <1>1 DEF Phases, AtWork, Booked, TypeOK
<1>3. todo[w] \in SUBSET Nat /\ p \in todo[w]
  BY <1>0, <1>1, Constants, Least DEF TypeOK
<1>4. p \in assignment(current_car, w) /\ p \in AllParts /\ PSTAT[p] = "PENDING"
  BY <1>0, <1>2, <1>3 DEF DayOfCar, Pending, TypeOK
<1>5. TypeOK'
  BY <1>0, <1>1, <1>4 DEF TypeOK
<1>6. Phases' /\ Booked'
  BY <1>0, <1>1, <1>2 DEF Phases, Booked
<1>7. \A v \in Workers : v # w => p \notin assignment(current_car, v)
  BY <1>4 DEF assignment
<1>8. \A v \in Workers : v # w =>
         /\ Pending(current_car, v)' = Pending(current_car, v)
         /\ todo'[v] = todo[v] /\ WSTAT'[v] = WSTAT[v]
         /\ pc'[v] = pc[v] \/ (pc[v] = "waiting" /\ pc'[v] = "woken")
  <2>. SUFFICES ASSUME NEW v \in Workers, v # w
       PROVE  /\ Pending(current_car, v)' = Pending(current_car, v)
              /\ todo'[v] = todo[v] /\ WSTAT'[v] = WSTAT[v]
              /\ pc'[v] = pc[v] \/ (pc[v] = "waiting" /\ pc'[v] = "woken")
    OBVIOUS
  <2>1. \A r \in assignment(current_car, v) : PSTAT'[r] = PSTAT[r]
    BY <1>0, <1>1, <1>4, <1>7, Constants DEF TypeOK, assignment
  <2>2. Pending(current_car, v)' = Pending(current_car, v)
    BY <1>1, <2>1 DEF Pending, assignment
  <2>. QED
    BY <1>0, <1>1, <2>2 DEF TypeOK
<1>9. Pending(current_car, w)' = Pending(current_car, w) \ {p}
  <2>1. \A r \in assignment(current_car, w) :
           PSTAT'[r] = IF r = p THEN "DONE" ELSE PSTAT[r]
    BY <1>0, <1>1, <1>4, Constants DEF TypeOK, assignment
  <2>. QED
    BY <1>1, <2>1 DEF Pending, assignment
<1>10. DayOfCar'
  <2>1. ASSUME NEW v \in Workers
        PROVE  /\ pc'[v] = "day" => Pending(current_car, v)' = assignment(current_car, v)
               /\ v \in AtWork' => todo'[v] = Pending(current_car, v)'
               /\ pc'[v] = "eop" => Pending(current_car, v)' = {}
               /\ pc'[v] \in {"waiting", "woken"} => todo'[v] # {}
    <3>1. CASE v = w
      BY <1>0, <1>1, <1>2, <1>9, <3>1 DEF DayOfCar, AtWork, TypeOK
    <3>2. CASE v # w
      BY <1>0, <1>2, <1>8, <3>2 DEF DayOfCar, AtWork
    <3>. QED
      BY <3>1, <3>2
  <2>2. assignment(current_car, w)' = assignment(current_car, w) /\ mpc' = "eop"
        /\ current_car' = current_car
    BY <1>1, <1>2 DEF assignment
  <2>. QED
    BY <2>1, <2>2 DEF DayOfCar
<1>11. NoLostWakeup'
  <2>. SUFFICES ASSUME NEW v \in Workers, pc'[v] = "waiting"
       PROVE  /\ ~ checkPrerequisitesComplete(PSTAT, First(todo[v]))'
              /\ WSTAT'[v] = "WAITING" /\ WINFO'[v] = First(todo[v])'
    BY DEF NoLostWakeup
  <2> DEFINE r == First(todo[v])
  <2>1. v # w /\ pc[v] = "waiting" /\ v \notin ToWake(PSTAT', WSTAT', p)
    BY <1>1
  <2>2. todo'[v] = todo[v] /\ WSTAT'[v] = "WAITING" /\ WINFO[v] = r /\ WINFO'[v] = r
    BY <1>0, <1>1, <1>8, <2>1 DEF NoLostWakeup
  <2>3. r \in assignment(current_car, v)
    <3>1. todo[v] = Pending(current_car, v) /\ todo[v] # {} /\ todo[v] \in SUBSET Nat
      BY <1>0, <1>2, <2>1, Constants DEF DayOfCar, AtWork, TypeOK
    <3>. QED
      BY <3>1, Least DEF Pending
  <2>4. PICK s \in prerequisites(current_car, r) : PSTAT[s] = "PENDING"
    BY <1>0, <2>1 DEF NoLostWakeup, checkPrerequisitesComplete
  <2>5. CASE s # p
    BY <1>0, <1>1, <1>4, <2>2, <2>4, <2>5, Constants
       DEF TypeOK, checkPrerequisitesComplete, prerequisites
  <2>6. CASE s = p
    <3>1. r \in dependencies(current_car, p) /\ part_worker_map[current_car][r] = v
      BY <2>3, <2>4, <2>6 DEF dependencies, prerequisites, assignment
    <3>2. ~ checkPrerequisitesComplete(PSTAT', r)
      BY <2>1, <2>2, <3>1 DEF ToWake
    <3>3. current_car' = current_car
      BY <1>1
    <3>. QED
      BY <2>2, <3>2, <3>3 DEF checkPrerequisitesComplete, prerequisites
  <2>. QED
    BY <2>5, <2>6
<1>. QED
  BY <1>5, <1>6, <1>10, <1>11 DEF IInv

(* The manager's steps between two days: nobody is at work.                *)
LEMMA ManagerStep ==
  ASSUME IInv, Manager
  PROVE  IInv'
<1> USE DEF Decide, Other
<1>0. TypeOK /\ Phases /\ Booked /\ DayOfCar /\ NoLostWakeup
  BY DEF IInv
<1>1. pc' = pc /\ todo' = todo
  BY DEF Manager, initStats, Skip, processCar, CountCar, AllProductionsCompleted, Join
<1>2. /\ mpc \notin {"eop", "end"} /\ mpc' # "eop"
      /\ mpc = "join" <=> mpc' = "end"
      /\ mpc' # "join"
  BY DEF Manager, initStats, Skip, processCar, CountCar, AllProductionsCompleted, Join
<1>3. \A w \in Workers : pc[w] # "waiting" /\ w \notin AtWork
  BY <1>0, <1>2 DEF Phases, AtWork
<1>4. Phases' /\ NoLostWakeup'
  BY <1>0, <1>1, <1>2, <1>3 DEF Phases, NoLostWakeup
<1>5. \A c \in Cars : (c = "FOO" \/ c = "BAR") /\ left[c] \in Nat
  BY <1>0, Constants DEF TypeOK
<1>6. TypeOK' /\ Booked' /\ DayOfCar'
  <2>1. CASE \E c \in Cars : initStats(c)
    <3>1. PICK c \in Cars : initStats(c)
      BY <2>1
    <3>2. TypeOK'
      BY <1>0, <3>1, <1>5 DEF TypeOK, initStats
    <3>3. Booked'
      BY <3>1 DEF Booked, initStats
    <3>4. DayOfCar'
      <4>1. mpc' = "set" /\ \A r \in Parts(type') : PSTAT'[r] = "PENDING"
        BY <3>1, Constants DEF initStats
      <4>. QED
        BY <4>1 DEF DayOfCar, Pending, assignment
    <3>. QED
      BY <3>2, <3>3, <3>4
  <2>2. CASE \E c \in Cars : Skip(c)
    BY <1>0, <1>5, <2>2 DEF TypeOK, Booked, DayOfCar, Skip
  <2>3. CASE processCar
    BY <1>0, <2>3 DEF TypeOK, Booked, DayOfCar, Pending, assignment, processCar
  <2>4. CASE CountCar
    <3>1. left[type] \in Nat /\ left[type] > 0
      BY <1>0, <2>4 DEF TypeOK, Booked, CountCar
    <3>. QED
      BY <1>0, <1>5, <2>4, <3>1 DEF TypeOK, Booked, DayOfCar, CountCar
  <2>5. CASE AllProductionsCompleted
    BY <1>0, <1>5, <2>5, Constants DEF TypeOK, Booked, DayOfCar, AllProductionsCompleted
  <2>6. CASE Join
    BY <1>0, <2>6 DEF TypeOK, Booked, DayOfCar, Join
  <2>. QED
    BY <2>1, <2>2, <2>3, <2>4, <2>5, <2>6 DEF Manager
<1>. QED
  BY <1>4, <1>6 DEF IInv

LEMMA BarrierStep ==
  ASSUME IInv, BopOpens \/ EopOpens
  PROVE  IInv'
<1>0. TypeOK /\ Phases /\ Booked /\ DayOfCar /\ NoLostWakeup
  BY DEF IInv
<1>1. TypeOK' /\ Phases' /\ Booked'
  <2>1. CASE BopOpens
    BY <1>0, <2>1 DEF TypeOK, Phases, Booked, BopOpens
  <2>2. CASE EopOpens
    BY <1>0, <2>2 DEF TypeOK, Phases, Booked, EopOpens
  <2>. QED
    BY <2>1, <2>2
<1>2. NoLostWakeup'
  BY DEF NoLostWakeup, BopOpens, EopOpens
<1>3. DayOfCar'
  <2>1. CASE BopOpens
    BY <1>0, <2>1 DEF DayOfCar, Booked, Pending, assignment, BopOpens, AtWork
  <2>2. CASE EopOpens
    BY <1>0, <2>2 DEF DayOfCar, EopOpens
  <2>. QED
    BY <2>1, <2>2
<1>. QED
  BY <1>1, <1>2, <1>3 DEF IInv

LEMMA IInvNext ==
  ASSUME IInv, [Next]_vars
  PROVE  IInv'
<1>1. CASE \E w \in Workers : Worker(w) \/ SpuriousWakeup(w)
  BY <1>1, QuietStep, WorkStep DEF Worker
<1>2. CASE Manager
  BY <1>2, ManagerStep
<1>3. CASE BopOpens \/ EopOpens
  BY <1>3, BarrierStep
<1>4. CASE UNCHANGED vars
  BY <1>4 DEF vars, IInv, TypeOK, Phases, Booked, DayOfCar, Pending, assignment, AtWork,
     NoLostWakeup, checkPrerequisitesComplete, prerequisites
<1>. QED
  BY <1>1, <1>2, <1>3, <1>4 DEF Next

LEMMA Invariant == Spec => []IInv
  BY IInvInit, IInvNext, PTL DEF Spec
-----------------------------------------------------------------------------
(* work.c: every variable keeps its range in every run of the factory.     *)
THEOREM FactoryTypes == Spec => []TypeOK
  BY Invariant, PTL DEF IInv

(* work.c:82-116: a worker asleep on its condition variable really lacks a *)
(* prerequisite of its part.                                               *)
THEOREM FactoryNoneLost == Spec => []NoLostWakeup
  BY Invariant, PTL DEF IInv

(* What is before a worker is what PSTAT calls pending among its parts.    *)
THEOREM FactoryTodo == Spec => []TodoIsPending
<1>1. IInv => TodoIsPending
  BY DEF IInv, Phases, DayOfCar, TodoIsPending, AtWork, Pending
<1>. QED
  BY <1>1, Invariant, PTL

(* The workers go home all together, and only when all cars are built.     *)
THEOREM FactoryHome == Spec => []HomeTogether
<1>1. IInv => HomeTogether
  <2>. SUFFICES ASSUME IInv, NEW w \in Workers, pc[w] = "end"
       PROVE  /\ mpc \in {"join", "end"}
              /\ \A c \in Cars : left[c] = 0
              /\ \A v \in Workers : pc[v] \in {"day", "end"}
    BY DEF HomeTogether
  <2>1. mpc \in {"join", "end"}
    BY DEF IInv, Phases
  <2>. QED
    BY <2>1, Constants DEF IInv, Phases, Booked
<1>. QED
  BY <1>1, Invariant, PTL

(* The factory never comes to a standstill before the end: the worker of   *)
(* the smallest pending part cannot be asleep.                             *)
THEOREM FactoryMoves == Spec => []SomebodyCanMove
<1>1. IInv => SomebodyCanMove
  <2>. SUFFICES ASSUME IInv, ~ SomebodyCanMove
       PROVE  FALSE
    OBVIOUS
  <2>0. TypeOK /\ Phases /\ Booked /\ DayOfCar /\ NoLostWakeup
    BY DEF IInv
  <2>1. mpc = "eop"
    BY <2>0 DEF SomebodyCanMove, Phases, TypeOK
  <2>2. /\ \A w \in Workers : pc[w] \in {"waiting", "eop"}
        /\ \E w \in Workers : pc[w] = "waiting"
    BY <2>0, <2>1 DEF SomebodyCanMove, Phases
  <2> DEFINE S == {p \in Parts(current_car) : PSTAT[p] = "PENDING"}
             p == First(S)
  <2>3. S \in SUBSET Nat /\ S # {}
    <3>1. PICK w \in Workers : pc[w] = "waiting"
      BY <2>2
    <3>2. todo[w] = Pending(current_car, w) /\ todo[w] # {}
      BY <2>0, <2>1, <3>1 DEF DayOfCar, AtWork
    <3>. QED
      BY <2>0, <3>2, Constants DEF Pending, assignment, TypeOK
  <2>4. p \in S /\ \A q \in S : p <= q
    BY <2>3, Least
  <2> DEFINE v == part_worker_map[current_car][p]
  <2>5. v \in Workers /\ p \in Pending(current_car, v)
    BY <2>0, <2>4, Constants DEF TypeOK, Pending, assignment
  <2>6. pc[v] = "waiting" /\ p \in todo[v] /\ todo[v] \subseteq S
    BY <2>0, <2>1, <2>2, <2>5 DEF DayOfCar, AtWork, Pending, assignment
  <2>7. First(todo[v]) = p
    <3>1. todo[v] \in SUBSET Nat /\ todo[v] # {}
      BY <2>3, <2>6
    <3>2. First(todo[v]) \in todo[v] /\ First(todo[v]) <= p
      BY <2>6, <3>1, Least
    <3>. QED
      BY <2>3, <2>4, <2>6, <3>2
  <2>8. PICK q \in prerequisites(current_car, p) : PSTAT[q] = "PENDING"
    <3> HIDE DEF v, p
    <3>1. ~ checkPrerequisitesComplete(PSTAT, p)
      BY <2>0, <2>5, <2>6, <2>7 DEF NoLostWakeup
    <3>. QED
      BY <3>1 DEF checkPrerequisitesComplete
  <2>9. q < p /\ q \in S
    BY <2>0, <2>8, Constants DEF prerequisites, TypeOK
  <2>. QED
    BY <2>3, <2>4, <2>9
<1>. QED
  BY <1>1, Invariant, PTL
-----------------------------------------------------------------------------
(* The threads implement the plant: every step begins a car, does a part   *)
(* whose prerequisites are done, completes a car, or changes nothing that  *)
(* the plant knows about.                                                  *)
Stutter == /\ (IF Producing THEN current_car ELSE "NONE")'
                = (IF Producing THEN current_car ELSE "NONE")
           /\ (IF Producing THEN {p \in Parts(current_car) : PSTAT[p] = "DONE"} ELSE {})'
                = (IF Producing THEN {p \in Parts(current_car) : PSTAT[p] = "DONE"} ELSE {})
           /\ (IF mpc = "count" THEN [left EXCEPT ![type] = @ - 1] ELSE left)'
                = (IF mpc = "count" THEN [left EXCEPT ![type] = @ - 1] ELSE left)

LEMMA StepRefines ==
  ASSUME IInv, Next
  PROVE  Plant!Next \/ Stutter
<1>0. TypeOK /\ Phases /\ Booked /\ DayOfCar
  BY DEF IInv
<1>1. ASSUME NEW w \in Workers, ~ Work(w), Worker(w) \/ SpuriousWakeup(w)
      PROVE  Stutter
  <2>1. UNCHANGED <<PSTAT, current_car, left, mpc, type>>
    BY <1>1 DEF Worker, Ready, Quit, DayOff, Begin, Wait, SpuriousWakeup, AllDone, Idle
  <2>. QED
    BY <2>1 DEF Stutter, Producing
<1>2. ASSUME NEW w \in Workers, Work(w)
      PROVE  Plant!Next
  <2> DEFINE p == First(todo[w])
  <2>1. /\ UNCHANGED <<current_car, left, mpc, type>>
        /\ pc[w] \in {"pick", "woken"} /\ todo[w] # {}
        /\ checkPrerequisitesComplete(PSTAT, p)
        /\ PSTAT' = [PSTAT EXCEPT ![p] = "DONE"]
    BY <1>2 DEF Work, Idle
  <2>2. mpc = "eop" /\ w \in AtWork
    BY <1>0, <2>1 DEF Phases, AtWork, TypeOK
  <2>3. todo[w] = Pending(current_car, w) /\ todo[w] \in SUBSET Nat
    BY <1>0, <2>2, Constants DEF DayOfCar, TypeOK
  <2>4. p \in Parts(current_car) /\ p \in AllParts /\ PSTAT[p] = "PENDING"
    BY <1>0, <2>1, <2>3, Least, Constants DEF Pending, assignment, TypeOK
  <2>5. current_car \in Cars /\ current_car # "NONE"
    BY <1>0 DEF TypeOK, Cars
  <2>6. \A q \in Parts(current_car) : <<q, p>> \in graph[current_car] => PSTAT[q] = "DONE"
    BY <1>0, <2>1, <2>5, Constants DEF checkPrerequisitesComplete, prerequisites, TypeOK
  <2>7. {r \in Parts(current_car) : PSTAT'[r] = "DONE"}
          = {r \in Parts(current_car) : PSTAT[r] = "DONE"} \cup {p}
    BY <1>0, <2>1, <2>4, <2>5, Constants DEF TypeOK
  <2> HIDE DEF p
  <2>8. Producing /\ Producing' /\ mpc # "count" /\ mpc' # "count"
    BY <2>1, <2>2 DEF Producing
  <2>9. Plant!Work(p)
    BY <2>1, <2>4, <2>5, <2>6, <2>7, <2>8 DEF Plant!Work
  <2>. QED
    BY <2>4, <2>5, <2>9 DEF Plant!Next, Plant!Work
<1>3. CASE Manager
  <2>1. ~ Producing /\ ~ Producing'
    BY <1>3 DEF Producing, Manager, initStats, Skip, processCar, CountCar,
       AllProductionsCompleted, Join, Decide, Other
  <2>2. (IF mpc = "count" THEN [left EXCEPT ![type] = @ - 1] ELSE left)'
          = (IF mpc = "count" THEN [left EXCEPT ![type] = @ - 1] ELSE left)
    BY <1>3 DEF Manager, initStats, Skip, processCar, CountCar,
       AllProductionsCompleted, Join, Decide, Other
  <2>. QED
    BY <2>1, <2>2 DEF Stutter
<1>4. CASE BopOpens
  <2>1. CASE mpc = "last"
    BY <1>4, <2>1 DEF BopOpens, Stutter, Producing
  <2>2. CASE mpc = "bop"
    <3>1. /\ current_car \in Cars /\ left[current_car] > 0
          /\ ~ Producing /\ Producing' /\ mpc # "count" /\ mpc' # "count"
          /\ UNCHANGED <<PSTAT, current_car, left>>
      BY <1>0, <1>4, <2>2 DEF BopOpens, Booked, TypeOK, Producing
    <3>2. \A p \in Parts(current_car) : PSTAT[p] = "PENDING"
      <4>1. current_car = type
        BY <1>0, <2>2 DEF Booked
      <4>2. \A p \in Parts(type) : \E w \in Workers : p \in assignment(type, w)
        BY <1>0, Constants DEF assignment, TypeOK
      <4>. QED
        BY <1>0, <2>2, <4>1, <4>2 DEF DayOfCar, Pending
    <3>3. {p \in Parts(current_car) : PSTAT[p] = "DONE"} = {}
      BY <3>2
    <3>4. Plant!Begin(current_car)
      BY <3>1, <3>3 DEF Plant!Begin
    <3>. QED
      BY <3>1, <3>4 DEF Plant!Next, Plant!Begin
  <2>. QED
    BY <1>4, <2>1, <2>2 DEF BopOpens
<1>5. CASE EopOpens
  <2>1. /\ current_car \in Cars /\ current_car # "NONE" /\ current_car = type
        /\ Producing /\ ~ Producing' /\ mpc # "count" /\ mpc' = "count"
        /\ UNCHANGED <<PSTAT, current_car, left, type>>
    BY <1>0, <1>5 DEF EopOpens, Booked, TypeOK, Producing, Cars
  <2>2. \A p \in Parts(current_car) : PSTAT[p] = "DONE"
    <3>1. \A p \in Parts(current_car) : \E w \in Workers : p \in assignment(current_car, w)
      BY <2>1, Constants DEF assignment
    <3>2. \A w \in Workers : Pending(current_car, w) = {}
      BY <1>0, <1>5 DEF EopOpens, DayOfCar
    <3>. QED
      BY <1>0, <2>1, <3>1, <3>2, Constants DEF Pending, TypeOK
  <2>3. {p \in Parts(current_car) : PSTAT[p] = "DONE"} = Parts(current_car)
    BY <2>2
  <2>4. Plant!Finish
    BY <2>1, <2>3 DEF Plant!Finish
  <2>. QED
    BY <2>4 DEF Plant!Next
<1>. QED
  BY <1>1, <1>2, <1>3, <1>4, <1>5 DEF Next, Worker

THEOREM ImplementsCarPlant == Spec => Refines
<1>1. Init => Plant!Init
  BY DEF Init, Plant!Init, Producing
<1>2. IInv /\ [Next]_vars => [Plant!Next]_(Plant!vars)
  <2>. SUFFICES ASSUME IInv, [Next]_vars
       PROVE  Plant!Next \/ Plant!vars' = Plant!vars
    OBVIOUS
  <2>1. CASE Next
    BY <2>1, StepRefines DEF Stutter, Plant!vars
  <2>2. CASE UNCHANGED vars
    BY <2>2 DEF vars, Plant!vars, Producing
  <2>. QED
    BY <2>1, <2>2
<1>. QED
  BY <1>1, <1>2, Invariant, PTL DEF Spec, Refines, Plant!Safety
=============================================================================
