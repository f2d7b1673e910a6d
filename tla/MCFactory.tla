----------------------------- MODULE MCFactory ------------------------------
(***************************************************************************)
(* Factory for TLC: a foocar whose parts wait for one another across three *)
(* workers, and a barcar with fewer workers.                               *)
(***************************************************************************)
EXTENDS Factory

NWorkers == [FOO |-> 3, BAR |-> 2]
NParts   == [FOO |-> 5, BAR |-> 3]

(* Worker 0 makes parts 0 and 4, worker 1 part 1 and 3, worker 2 part 2.   *)
Makers == [FOO |-> [p \in 0 .. 4 |-> <<0, 1, 2, 1, 0>>[p+1]],
           BAR |-> [p \in 0 .. 2 |-> <<1, 0, 1>>[p+1]]]

(* Part 0 wakes two workers at once; part 4 needs parts of two workers.    *)
Needs == [FOO |-> {<<0, 1>>, <<0, 2>>, <<2, 3>>, <<2, 4>>, <<3, 4>>},
          BAR |-> {<<0, 1>>, <<1, 2>>}]

Ordered == [FOO |-> 2, BAR |-> 1]
=============================================================================
