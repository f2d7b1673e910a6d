------------------------------ MODULE Factory -------------------------------
(***************************************************************************)
(* Lab 7 ("7 Lab"): a car factory.  The manager thread starts one car      *)
(* after the other, a foocar and a barcar in turns; the workers make its   *)
(* parts, each one its own, between the barriers bop and eop of the day,   *)
(* and wait on a condition variable each for parts that need others'.      *)
(*                                                                         *)
(* PSTAT, WSTAT and WINFO are read and written only under mtx, which is    *)
(* given back at the end of each step or by pthread_cond_wait: a critical  *)
(* section is one step, and mtx needs no variable.  Spurious wake-ups are  *)
(* modelled.  A thread that has reached a barrier is at "bop" or "eop"     *)
(* until the barrier opens for all.                                        *)
(***************************************************************************)
EXTENDS Integers, FiniteSets

CONSTANTS n_workers, n_parts,   \* of each type of car, from its file
          part_worker_map,      \* who makes a part
          graph,                \* the pairs <<p, q>> where q depends on p
          Orders                \* f and b, the arguments of the program

Cars     == {"FOO", "BAR"}
Parts(c) == 0 .. n_parts[c] - 1
M        == IF n_workers["FOO"] < n_workers["BAR"] THEN n_workers["BAR"]
                                                   ELSE n_workers["FOO"]
Workers  == 0 .. M - 1
AllParts == Parts("FOO") \cup Parts("BAR")

(* A part depends only on parts with smaller numbers: genschedule.c:20.    *)
ASSUME FactoryAssumption ==
  /\ n_workers \in [Cars -> Nat \ {0}] /\ n_parts \in [Cars -> Nat]
  /\ Orders \in [Cars -> Nat]
  /\ \A c \in Cars :
        /\ part_worker_map[c] \in [Parts(c) -> 0 .. n_workers[c] - 1]
        /\ graph[c] \subseteq {e \in Parts(c) \X Parts(c) : e[1] < e[2]}

VARIABLES PSTAT,        \* status of each part
          WSTAT,        \* status of each worker
          WINFO,        \* the part a waiting worker waits for
          current_car,
          left,         \* f and b
          pc, todo,     \* a worker: place, assignments from index i on
          mpc, type     \* the manager: place, argument of processCar

vars == <<PSTAT, WSTAT, WINFO, current_car, left, pc, todo, mpc, type>>

Init == /\ PSTAT = [p \in AllParts |-> "PENDING"]
        /\ WSTAT = [w \in Workers |-> "START"]
        /\ WINFO = [w \in Workers |-> 0]
        /\ current_car = "FOO"
        /\ left = Orders
        /\ pc = [w \in Workers |-> "start"]
        /\ todo = [w \in Workers |-> {}]
        /\ mpc = "foo" /\ type = "FOO"

assignment(c, w)    == {p \in Parts(c) : part_worker_map[c][p] = w}
prerequisites(c, q) == {p \in Parts(c) : <<p, q>> \in graph[c]}
dependencies(c, p)  == {q \in Parts(c) : <<p, q>> \in graph[c]}

(* The vectors are filled, and walked, in the order of the part numbers.   *)
First(S) == CHOOSE p \in S : \A q \in S : p <= q

(* Mutants, here and below: a plausible bug in the definition that follows. *)
checkSomePrerequisite(stat, q) ==                          \* return 1 too early
  LET needed == prerequisites(current_car, q)
  IN  needed = {} \/ \E p \in needed : stat[p] # "PENDING"

checkPrerequisitesComplete(stat, q) ==
  \A p \in prerequisites(current_car, q) : stat[p] # "PENDING"

ToWakeBefore(stat, wstat, p) ==                            \* p not yet DONE
  {v \in Workers : /\ wstat[v] = "WAITING"
                   /\ WINFO[v] \in dependencies(current_car, p)
                   /\ part_worker_map[current_car][WINFO[v]] = v
                   /\ checkPrerequisitesComplete(PSTAT, WINFO[v])}

(* The workers to be signalled when p is done: those that wait for a part  *)
(* that depends on it and needs nothing else.                              *)
ToWake(stat, wstat, p) ==
  {v \in Workers : /\ wstat[v] = "WAITING"
                   /\ WINFO[v] \in dependencies(current_car, p)
                   /\ part_worker_map[current_car][WINFO[v]] = v
                   /\ checkPrerequisitesComplete(stat, WINFO[v])}

Goto(w, from, to) == pc[w] = from /\ pc' = [pc EXCEPT ![w] = to]

Idle == UNCHANGED <<mpc, type, current_car, left>>
-----------------------------------------------------------------------------
Ready(w) == /\ Goto(w, "start", "bop")
            /\ WSTAT' = [WSTAT EXCEPT ![w] = "START"]
            /\ Idle /\ UNCHANGED <<PSTAT, WINFO, todo>>

(* After bop: home when all cars are built, or nothing to do today, or the *)
(* assignments.  f, b and current_car are read without the mutex.          *)
Quit(w) == /\ Goto(w, "day", "end")
           /\ left["FOO"] + left["BAR"] <= 0
           /\ WSTAT' = [WSTAT EXCEPT ![w] = "DONE"]
           /\ Idle /\ UNCHANGED <<PSTAT, WINFO, todo>>

DayOff(w) == /\ Goto(w, "day", "eop")
             /\ left["FOO"] + left["BAR"] > 0
             /\ w >= n_workers[current_car]
             /\ WSTAT' = [WSTAT EXCEPT ![w] = "DONE"]
             /\ Idle /\ UNCHANGED <<PSTAT, WINFO, todo>>

Begin(w) == /\ Goto(w, "day", "pick")
            /\ left["FOO"] + left["BAR"] > 0
            /\ w < n_workers[current_car]
            /\ WSTAT' = [WSTAT EXCEPT ![w] = "WORKING"]
            /\ todo' = [todo EXCEPT ![w] = assignment(current_car, w)]
            /\ Idle /\ UNCHANGED <<PSTAT, WINFO>>

Wait(w) == /\ pc[w] \in {"pick", "woken"} /\ todo[w] # {}
           /\ LET p == First(todo[w])
              IN  /\ ~ checkPrerequisitesComplete(PSTAT, p)
                  /\ WINFO' = [WINFO EXCEPT ![w] = p]
           /\ WSTAT' = [WSTAT EXCEPT ![w] = "WAITING"]
           /\ pc' = [pc EXCEPT ![w] = "waiting"]
           /\ Idle /\ UNCHANGED <<PSTAT, todo>>

SpuriousWakeup(w) == /\ Goto(w, "waiting", "woken")
                     /\ Idle /\ UNCHANGED <<PSTAT, WSTAT, WINFO, todo>>

Work(w) ==
  /\ pc[w] \in {"pick", "woken"} /\ todo[w] # {}
  /\ LET p == First(todo[w])
     IN  /\ checkPrerequisitesComplete(PSTAT, p)
         /\ WSTAT' = [WSTAT EXCEPT ![w] = "WORKING"]
         /\ PSTAT' = [PSTAT EXCEPT ![p] = "DONE"]
         /\ todo' = [todo EXCEPT ![w] = @ \ {p}]
         /\ pc' = [v \in Workers |->
                     IF v = w THEN "pick"
                     ELSE IF v \in ToWake(PSTAT', WSTAT', p) /\ pc[v] = "waiting"
                          THEN "woken" ELSE pc[v]]
  /\ Idle /\ UNCHANGED WINFO

AllDone(w) == /\ Goto(w, "pick", "eop")
              /\ todo[w] = {}
              /\ WSTAT' = [WSTAT EXCEPT ![w] = "DONE"]
              /\ Idle /\ UNCHANGED <<PSTAT, WINFO, todo>>

Worker(w) == \/ Ready(w) \/ Quit(w) \/ DayOff(w) \/ Begin(w)
             \/ Wait(w) \/ Work(w) \/ AllDone(w)
-----------------------------------------------------------------------------
(* The manager's loop: at "foo" and "bar" it decides on the next car.      *)
Decide(c) == IF c = "FOO" THEN "foo" ELSE "bar"
Other(c)  == IF c = "FOO" THEN "BAR" ELSE "FOO"

initStats(c) ==
  /\ mpc = Decide(c) /\ mpc' = "set"
  /\ left[c] > 0
  /\ type' = c
  /\ PSTAT' = [p \in AllParts |-> IF p \in Parts(c) THEN "PENDING" ELSE PSTAT[p]]
  /\ WSTAT' = [w \in Workers |-> IF w < n_workers[c] THEN "START" ELSE WSTAT[w]]
  /\ WINFO' = [w \in Workers |-> IF w < n_workers[c] THEN -1 ELSE WINFO[w]]
  /\ UNCHANGED <<current_car, left, pc, todo>>

(* The test of the while is made at "foo" only. *)
Skip(c) == /\ mpc = Decide(c) /\ mpc' = Decide(Other(c))
           /\ left[c] = 0
           /\ c = "FOO" => left["BAR"] > 0
           /\ UNCHANGED <<PSTAT, WSTAT, WINFO, current_car, left, pc, todo, type>>

processCar == /\ mpc = "set" /\ mpc' = "bop"
              /\ current_car' = type
              /\ UNCHANGED <<PSTAT, WSTAT, WINFO, left, pc, todo, type>>

CountNothing == /\ mpc = "count" /\ mpc' = Decide(Other(type))   \* no f--
                /\ UNCHANGED <<PSTAT, WSTAT, WINFO, current_car, left, pc, todo, type>>

CountCar == /\ mpc = "count" /\ mpc' = Decide(Other(type))
            /\ left' = [left EXCEPT ![type] = @ - 1]
            /\ UNCHANGED <<PSTAT, WSTAT, WINFO, current_car, pc, todo, type>>

AllProductionsCompleted ==
  /\ mpc = "foo" /\ mpc' = "last"
  /\ left["FOO"] + left["BAR"] <= 0
  /\ UNCHANGED <<PSTAT, WSTAT, WINFO, current_car, left, pc, todo, type>>

Join == /\ mpc = "join" /\ mpc' = "end"
        /\ \A w \in Workers : pc[w] = "end"
        /\ UNCHANGED <<PSTAT, WSTAT, WINFO, current_car, left, pc, todo, type>>

Manager == \/ \E c \in Cars : initStats(c) \/ Skip(c)
           \/ processCar \/ CountCar \/ AllProductionsCompleted \/ Join

(* The barriers, of M + 1 threads each. *)
BopOpens == /\ mpc \in {"bop", "last"}
            /\ \A w \in Workers : pc[w] = "bop"
            /\ pc' = [w \in Workers |-> "day"]
            /\ mpc' = IF mpc = "bop" THEN "eop" ELSE "join"
            /\ UNCHANGED <<PSTAT, WSTAT, WINFO, current_car, left, todo, type>>

EopOpens == /\ mpc = "eop"
            /\ \A w \in Workers : pc[w] = "eop"
            /\ pc' = [w \in Workers |-> "start"]
            /\ mpc' = "count"
            /\ UNCHANGED <<PSTAT, WSTAT, WINFO, current_car, left, todo, type>>

Next == \/ \E w \in Workers : Worker(w) \/ SpuriousWakeup(w)
        \/ Manager \/ BopOpens \/ EopOpens

Spec == Init /\ [][Next]_vars

(* Every thread that can run does, and a full barrier opens.               *)
Fairness == /\ \A w \in Workers : WF_vars(Worker(w))
            /\ WF_vars(Manager) /\ WF_vars(BopOpens \/ EopOpens)

FairSpec == Spec /\ Fairness
-----------------------------------------------------------------------------
(* Every variable keeps its range. *)
TypeOK ==
  /\ PSTAT \in [AllParts -> {"PENDING", "DONE"}]
  /\ WSTAT \in [Workers -> {"START", "WORKING", "WAITING", "DONE"}]
  /\ WINFO \in [Workers -> Int]
  /\ current_car \in Cars /\ type \in Cars
  /\ left \in [Cars -> Nat]
  /\ pc \in [Workers -> {"start", "bop", "day", "pick", "waiting", "woken", "eop", "end"}]
  /\ todo \in [Workers -> SUBSET AllParts]
  /\ mpc \in {"foo", "bar", "set", "bop", "eop", "count", "last", "join", "end"}

AtWork == {w \in Workers : pc[w] \in {"pick", "waiting", "woken"}}

(* work.c:82-116: no wake-up is lost.  A worker asleep on its condition    *)
(* variable really lacks a prerequisite, so whoever completes it will find *)
(* it in WSTAT and WINFO and signal.                                       *)
NoLostWakeup ==
  \A w \in Workers : pc[w] = "waiting" =>
     /\ ~ checkPrerequisitesComplete(PSTAT, First(todo[w]))
     /\ WSTAT[w] = "WAITING" /\ WINFO[w] = First(todo[w])

(* PSTAT and the private loops agree, although PSTAT is reset by the       *)
(* manager and shared by two types of car: during the work on a car, what  *)
(* a worker has before it are exactly its parts that are pending.          *)
TodoIsPending ==
  \A w \in AtWork :
     todo[w] = {p \in assignment(current_car, w) : PSTAT[p] = "PENDING"}

(* work.c:45: all workers read the same f + b after bop, unlocked.  Nobody *)
(* goes home while another one still waits for it at eop.                  *)
HomeTogether ==
  \A w \in Workers : pc[w] = "end" =>
     /\ mpc \in {"join", "end"}
     /\ \A c \in Cars : left[c] = 0
     /\ \A v \in Workers : pc[v] \in {"day", "end"}

(* The program has ended, or some thread can go on: the workers never wait *)
(* for one another in a circle, nor all at a barrier that is not full.     *)
SomebodyCanMove ==
  \/ mpc \in {"foo", "bar", "set", "count", "end"}
  \/ mpc = "join" /\ \A w \in Workers : pc[w] = "end"
  \/ \E w \in Workers : pc[w] \in {"start", "day", "pick", "woken"}
  \/ mpc \in {"bop", "last"} /\ \A w \in Workers : pc[w] = "bop"
  \/ mpc = "eop" /\ \A w \in Workers : pc[w] = "eop"

(* The threads implement the plant: a car is in production while the       *)
(* barriers of its day hold.                                               *)
Producing == mpc = "eop"
Plant     == INSTANCE CarPlant WITH
               Edges <- graph,
               car   <- IF Producing THEN current_car ELSE "NONE",
               done  <- IF Producing THEN {p \in Parts(current_car) : PSTAT[p] = "DONE"}
                                     ELSE {},
               left  <- IF mpc = "count" THEN [left EXCEPT ![type] = @ - 1] ELSE left
Refines   == Plant!Safety

(* All cars are built and everyone goes home. *)
Terminates == <>(mpc = "end")
=============================================================================
