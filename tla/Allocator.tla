----------------------------- MODULE Allocator ------------------------------
(***************************************************************************)
(* What the resource manager of lab 8 promises, without threads, locks or  *)
(* queues: units are lent and returned but never created or lost, a worker *)
(* waits until its request is granted in full, and resources are taken     *)
(* away only from a worker that is really deadlocked.                      *)
(***************************************************************************)
EXTENDS Allocation

VARIABLES alloc,    \* what each worker holds
          want      \* what each worker asks for, Zero when it asks nothing

(* What is not lent is available. *)
Free == Less(TOTAL, Held(alloc, Workers))

(* The step changes f for no worker but w. *)
Only(f, w) == f' = [f EXCEPT ![w] = f'[w]]

Init == /\ alloc = [w \in Workers |-> Zero]
        /\ want  = [w \in Workers |-> Zero]

(* A worker only asks for what can exist beside what it holds already.     *)
Ask(w) == /\ want[w] = Zero
          /\ want'[w] # Zero
          /\ Fits(want'[w], Less(TOTAL, alloc[w]))
          /\ Only(want, w)
          /\ alloc' = alloc

Grant(w) == /\ want[w] # Zero
            /\ Fits(want[w], Free)
            /\ alloc' = [alloc EXCEPT ![w] = Plus(@, want[w])]
            /\ want' = [want EXCEPT ![w] = Zero]

(* Only a worker that asks for nothing gives back, and only what it holds. *)
Return(w) == /\ want[w] = Zero
             /\ Fits(alloc'[w], alloc[w])
             /\ Only(alloc, w)
             /\ want' = want

Preempt(w) == /\ w \in Deadlocked(Free, alloc, want)
              /\ alloc' = [alloc EXCEPT ![w] = Zero]
              /\ want' = want

Next == \E w \in Workers : Ask(w) \/ Grant(w) \/ Return(w) \/ Preempt(w)

Spec == Init /\ [][Next]_<<alloc, want>>
=============================================================================
