---------------------------- MODULE MCScheduler -----------------------------
(***************************************************************************)
(* Scheduler for TLC: three processes of different priorities; two arrive  *)
(* at once, and the third while they run.                                  *)
(***************************************************************************)
EXTENDS Scheduler

Arrivals   == [p \in 0 .. 2 |-> <<0, 0, 2>>[p+1]]
Priorities == [p \in 0 .. 2 |-> <<1, 2, 0>>[p+1]]
Quanta     == [q \in 0 .. 2 |-> <<4, 3, 2>>[q+1]]

Load(order, a, b, c) == [inturn |-> order, bursts |-> [p \in 0 .. 2 |-> <<a, b, c>>[p+1]]]

InTurn  == {Load(TRUE, a, b, c) : a \in {<<4, 1, 1>>, <<3, 2, 1>>},
                                  b \in {<<1, 1, 3>>, <<3, 2, 4>>, <<4, 1, 1>>},
                                  c \in {<<1, 2, 1>>, <<2, 1, 5>>, <<5>>}}
(* A last burst that ends with the quantum, and so perhaps before the      *)
(* window: that of process 0, whose unit is lost, and that of process 1.   *)
Exact   == {Load(order, <<3>>, <<1, 1, 1>>, <<1>>) : order \in BOOLEAN}
             \cup {Load(TRUE, <<4, 1, 1>>, <<2>>, <<1>>)}
Overlap == {Load(FALSE, <<3, 1, 1>>, <<1, 1, 3>>, <<1, 2, 1>>)}
Both    == InTurn \cup Exact \cup Overlap
=============================================================================
