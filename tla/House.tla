------------------------------- MODULE House -------------------------------
(***************************************************************************)
(* The house of lab 6 ("6 Lab"): the loops of nomad.c and demon.c over the *)
(* shared struct house, and the condition variable that cond.c builds from *)
(* two System V semaphores (0: the mutex, 1: the sleepers) and a counter   *)
(* in shared memory.  A step is one semaphore operation, or the code that  *)
(* runs between two of them; the shared words are touched only between a   *)
(* cond_lock and the matching cond_unlock or cond_wait.                    *)
(***************************************************************************)
EXTENDS Naturals, FiniteSets

CONSTANTS Nomads,   \* the processes forked by nomad.c
          Demons,   \* the processes forked by demon.c
          SEMVMX    \* the largest value of a semaphore; semop fails beyond it

Visitors == Nomads \cup Demons

ASSUME HouseAssumption ==
  /\ IsFiniteSet(Nomads) /\ IsFiniteSet(Demons)
  /\ Nomads \cap Demons = {}
  /\ SEMVMX \in Nat \ {0}
  /\ Cardinality(Visitors) <= SEMVMX

VARIABLES state,        \* house.state
          count,        \* house.count
          wait_count,   \* house.wait_count
          mtx,          \* semaphore 0 of the condition variable
          cnd,          \* semaphore 1: wake-up tokens not consumed yet
          sleepers,     \* *count_ptr of cond.c
          pc            \* where each visitor is in its loop

house == <<state, count, wait_count>>
vars  == <<state, count, wait_count, mtx, cnd, sleepers, pc>>

(* Where a visitor stands, in program order. *)
Labels == {"away",      \* outside, about to cond_lock
           "test",      \* has the mutex, at the while
           "release",   \* in cond_wait, counted, about to free the mutex
           "blocked",   \* in cond_wait, at semWait on semaphore 1
           "woken",     \* in cond_wait, at semWait on the mutex
           "resume",    \* in cond_wait, has the mutex again
           "entered",   \* counted in, about to cond_unlock
           "inside",    \* staying; then about to cond_lock
           "leaving",   \* has the mutex, about to count itself out
           "left"}      \* counted out, about to cond_unlock

Init == /\ state = "EMPTY"
        /\ count = 0
        /\ wait_count = 0
        /\ mtx = 1
        /\ cnd = 0
        /\ sleepers = 0
        /\ pc = [p \in Visitors |-> "away"]

Goto(p, from, to) == pc[p] = from /\ pc' = [pc EXCEPT ![p] = to]

(* semop with a positive operand: past SEMVMX it fails with ERANGE, the    *)
(* value stays, and the code does not look at the result.                  *)
SemPost(value, k) == IF value + k > SEMVMX THEN value ELSE value + k

(* Mutants, here and below: a plausible bug in the definition that follows. *)
Acquire == mtx > 0 /\ mtx' = mtx - 1
Release == mtx' = SemPost(mtx, 1)

cond_signal    == cnd' = IF sleepers > 0 THEN SemPost(cnd, 1) ELSE cnd
cond_broadcast == cnd' = IF sleepers > 0 THEN SemPost(cnd, sleepers) ELSE cnd

(* The state that keeps a visitor out, and the one it establishes. *)
Hostile(p) == IF p \in Nomads THEN "DEMON_INSIDE" ELSE "NOMAD_INSIDE"
Own(p)     == IF p \in Nomads THEN "NOMAD_INSIDE" ELSE "DEMON_INSIDE"
-----------------------------------------------------------------------------
Arrive(p) == /\ Goto(p, "away", "test")
             /\ Acquire
             /\ UNCHANGED <<house, cnd, sleepers>>

StartSpin(p) == /\ Goto(p, "test", "test")                 \* no cond_wait
                /\ state = Hostile(p)
                /\ UNCHANGED <<house, mtx, cnd, sleepers>>

(* The body of the while: wait_count++, then cond_wait up to its unlock. *)
StartWait(p) == /\ Goto(p, "test", "release")
                /\ state = Hostile(p)
                /\ wait_count' = wait_count + 1
                /\ sleepers' = sleepers + 1
                /\ UNCHANGED <<state, count, mtx, cnd>>

WaitRelease(p) == /\ Goto(p, "release", "blocked")
                  /\ Release
                  /\ UNCHANGED <<house, cnd, sleepers>>

WaitToken(p) == /\ Goto(p, "blocked", "woken")
                /\ cnd > 0
                /\ cnd' = cnd - 1
                /\ UNCHANGED <<house, mtx, sleepers>>

WaitRelock(p) == /\ Goto(p, "woken", "resume")
                 /\ Acquire
                 /\ UNCHANGED <<house, cnd, sleepers>>

EndWaitNoRetest(p) == /\ Goto(p, "resume", "entered")      \* if for while
                      /\ wait_count' = wait_count - 1
                      /\ sleepers' = sleepers - 1
                      /\ count' = count + 1
                      /\ state' = IF count' = 1 THEN Own(p) ELSE state
                      /\ UNCHANGED <<mtx, cnd>>

(* The end of cond_wait and wait_count--: back to the while. *)
EndWait(p) == /\ Goto(p, "resume", "test")
              /\ wait_count' = wait_count - 1
              /\ sleepers' = sleepers - 1
              /\ UNCHANGED <<state, count, mtx, cnd>>

(* count++; the first one in sets the state.  A first nomad wakes everyone *)
(* that waits (for its fellow nomads); a first demon wakes nobody.         *)
NomadEnter(p) == /\ p \in Nomads
                 /\ Goto(p, "test", "entered")
                 /\ state # Hostile(p)
                 /\ count' = count + 1
                 /\ IF count' = 1
                    THEN /\ state' = Own(p)
                         /\ IF wait_count > 0 THEN cond_broadcast ELSE cnd' = cnd
                    ELSE UNCHANGED <<state, cnd>>
                 /\ UNCHANGED <<wait_count, mtx, sleepers>>

DemonEnter(p) == /\ p \in Demons
                 /\ Goto(p, "test", "entered")
                 /\ state # Hostile(p)
                 /\ count' = count + 1
                 /\ state' = IF count' = 1 THEN Own(p) ELSE state
                 /\ UNCHANGED <<wait_count, mtx, cnd, sleepers>>

EnterUnlock(p) == /\ Goto(p, "entered", "inside")
                  /\ Release
                  /\ UNCHANGED <<house, cnd, sleepers>>

LeaveLock(p) == /\ Goto(p, "inside", "leaving")
                /\ Acquire
                /\ UNCHANGED <<house, cnd, sleepers>>

NomadLeaveEarly(p) == /\ p \in Nomads                      \* no count == 0
                      /\ Goto(p, "leaving", "left")
                      /\ count' = count - 1
                      /\ state' = "EMPTY"
                      /\ cond_broadcast
                      /\ UNCHANGED <<wait_count, mtx, sleepers>>

(* count--; the last one out empties the house: a nomad wakes everyone     *)
(* that waits, a demon wakes one.                                          *)
NomadLeave(p) == /\ p \in Nomads
                 /\ Goto(p, "leaving", "left")
                 /\ count' = count - 1
                 /\ IF count' = 0
                    THEN /\ state' = "EMPTY"
                         /\ IF wait_count > 0 THEN cond_broadcast ELSE cnd' = cnd
                    ELSE UNCHANGED <<state, cnd>>
                 /\ UNCHANGED <<wait_count, mtx, sleepers>>

DemonLeaveSilent(p) == /\ p \in Demons                     \* no cond_signal
                       /\ Goto(p, "leaving", "left")
                       /\ count' = count - 1
                       /\ state' = IF count' = 0 THEN "EMPTY" ELSE state
                       /\ UNCHANGED <<wait_count, mtx, cnd, sleepers>>

DemonLeave(p) == /\ p \in Demons
                 /\ Goto(p, "leaving", "left")
                 /\ count' = count - 1
                 /\ IF count' = 0
                    THEN /\ state' = "EMPTY"
                         /\ IF wait_count > 0 THEN cond_signal ELSE cnd' = cnd
                    ELSE UNCHANGED <<state, cnd>>
                 /\ UNCHANGED <<wait_count, mtx, sleepers>>

LeaveUnlock(p) == /\ Goto(p, "left", "away")
                  /\ Release
                  /\ UNCHANGED <<house, cnd, sleepers>>

(* The steps that take a semaphore, and the ones that never block. *)
Take(p)  == Arrive(p) \/ WaitToken(p) \/ WaitRelock(p) \/ LeaveLock(p)
Run(p)   == \/ StartWait(p) \/ WaitRelease(p) \/ EndWait(p)
            \/ NomadEnter(p) \/ DemonEnter(p) \/ EnterUnlock(p)
            \/ NomadLeave(p) \/ DemonLeave(p) \/ LeaveUnlock(p)

Visit(p) == Take(p) \/ Run(p)

Next == \E p \in Visitors : Visit(p)

Spec == Init /\ [][Next]_vars

(* A process that can run does; semop serves the processes that sleep on a *)
(* semaphore first come, first served, which makes taking it strongly fair.*)
Fairness == \A p \in Visitors : WF_vars(Run(p)) /\ SF_vars(Take(p))

FairSpec == Spec /\ Fairness
-----------------------------------------------------------------------------
At(labels) == {p \in Visitors : pc[p] \in labels}

InsideLabels  == {"entered", "inside", "leaving"}
WaitingLabels == {"release", "blocked", "woken", "resume"}
MutexLabels   == {"test", "release", "resume", "entered", "leaving", "left"}

Inside   == At(InsideLabels)
Waiting  == At(WaitingLabels)
HasMutex == At(MutexLabels)

(* Every variable keeps its range; the mutex never exceeds 1. *)
TypeOK == /\ state \in {"EMPTY", "DEMON_INSIDE", "NOMAD_INSIDE"}
          /\ count \in Nat /\ wait_count \in Nat /\ sleepers \in Nat
          /\ mtx \in {0, 1}
          /\ cnd \in 0 .. SEMVMX
          /\ pc \in [Visitors -> Labels]

(* cond.c:36 "mtx should be locked before this", and what every reader of  *)
(* the house relies on: between cond_lock and cond_unlock, and in          *)
(* cond_wait before its unlock and after its relock, a visitor is alone    *)
(* and the semaphore is down.                                              *)
MutexInv == /\ (mtx = 1) <=> (HasMutex = {})
            /\ \A p, q \in HasMutex : p = q

(* The point of the lab: a nomad and a demon are never inside together     *)
(* (nomad.c:31, demon.c:21), whatever wake-ups come early, late or twice.  *)
NeverTogether == Inside \subseteq Nomads \/ Inside \subseteq Demons

(* house.count and house.state, kept apart by first-in and last-out code   *)
(* in two programs, always describe who is really inside.                  *)
HouseDescribed ==
  /\ count = Cardinality(Inside)
  /\ state = CASE Inside = {}          -> "EMPTY"
               [] Inside \cap Nomads # {} -> "NOMAD_INSIDE"
               [] OTHER                -> "DEMON_INSIDE"

(* The two independent counts of waiters, wait_count of the house and      *)
(* *count_ptr of cond.c, agree with each other and with who waits: the     *)
(* wake-up code tests the first and posts by the second.                   *)
WaitersCounted == wait_count = Cardinality(Waiting) /\ sleepers = wait_count

(* No lost wake-up: an empty house with a visitor asleep on semaphore 1    *)
(* holds a token for it, or somebody is on the way to the while who will   *)
(* enter and wake the others when leaving.  It is what makes one signal    *)
(* (demon.c:51) enough although tokens are stolen and wasted.              *)
NoLostWakeup ==
  state = "EMPTY" /\ At({"blocked"}) # {} =>
     cnd > 0 \/ At({"woken", "resume", "test"}) # {}

(* Never does everyone wait for everyone: some visitor has the mutex, can  *)
(* take it, or has a token to wake up on.                                  *)
SomebodyCanMove ==
  \E p \in Visitors : \/ pc[p] \in MutexLabels
                      \/ pc[p] \in {"away", "woken", "inside"} /\ mtx = 1
                      \/ pc[p] = "blocked" /\ cnd > 0

(* Whoever stays in the house gets out again, although it must win the     *)
(* mutex against arrivals and woken visitors.                              *)
VisitEnds == \A p \in Visitors : p \in Inside ~> p \notin Inside

(* If the house empties again and again, nobody sleeps in it for ever: the *)
(* token of the last one out (cond.c:52-74) reaches every visitor in the   *)
(* end, although each may be taken by a visitor of the wrong kind.         *)
SleepersWoken ==
  \A p \in Visitors :
     []<>(state = "EMPTY") => (pc[p] = "blocked" ~> pc[p] # "blocked")

(* The house implements the abstract one: entering and leaving are the     *)
(* steps that count in and out, everything else stutters.                  *)
Abstract  == INSTANCE SharedHouse WITH inside <- Inside
Refines   == Abstract!Spec
=============================================================================
