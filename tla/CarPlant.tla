------------------------------ MODULE CarPlant ------------------------------
(***************************************************************************)
(* What the factory of lab 7 promises: cars are built one after the other, *)
(* every part of a car once and after its prerequisites, and an order      *)
(* counts as done when the car has all its parts.  No workers, no waiting: *)
(* Factory implements this specification.                                  *)
(***************************************************************************)
EXTENDS Integers

CONSTANTS Cars,     \* the types of car
          Parts(_), \* the parts of a car of each type
          Edges,    \* the pairs <<p, q>> where q needs p
          Orders    \* how many cars of each type are ordered

VARIABLES car,      \* the type of the car in production, or "NONE"
          done,     \* its parts that are done
          left      \* the orders not done yet

Init == car = "NONE" /\ done = {} /\ left = Orders

Begin(c) == /\ car = "NONE" /\ left[c] > 0
            /\ car' = c /\ done' = {} /\ left' = left

Work(p) == /\ car # "NONE"
           /\ p \in Parts(car) \ done
           /\ \A q \in Parts(car) : <<q, p>> \in Edges[car] => q \in done
           /\ done' = done \cup {p}
           /\ UNCHANGED <<car, left>>

Finish == /\ car # "NONE" /\ done = Parts(car)
          /\ car' = "NONE" /\ done' = {}
          /\ left' = [left EXCEPT ![car] = @ - 1]

Next == (\E c \in Cars : Begin(c) \/ \E p \in Parts(c) : Work(p)) \/ Finish

vars == <<car, done, left>>

Safety == Init /\ [][Next]_vars
=============================================================================
