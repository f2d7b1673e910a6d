----------------------------- MODULE Allocation -----------------------------
(***************************************************************************)
(* The vectors of lab 8 ("8 Lab"): N workers, M types of resource, and the *)
(* two computations the manager and dlhandler threads make on them, the    *)
(* test that a request fits and the deadlock detection, written as         *)
(* operators on the matrices.  Indices start at 0 as in the code.          *)
(***************************************************************************)
EXTENDS Integers, FiniteSets

CONSTANTS N, M,     \* numbers of workers and of resource types
          TOTAL     \* how many units of each type exist

Workers   == 0 .. N - 1
Resources == 0 .. M - 1

ASSUME AllocationAssumption == /\ N \in Nat \ {0} /\ M \in Nat \ {0}
                               /\ TOTAL \in [Resources -> Nat]

Zero       == [j \in Resources |-> 0]
Plus(u, v) == [j \in Resources |-> u[j] + v[j]]
Less(u, v) == [j \in Resources |-> u[j] - v[j]]
Fits(u, v) == \A j \in Resources : u[j] <= v[j]

(* f[0] + ... + f[n-1]. *)
SumOf(f, n) == LET sum[k \in 0 .. n] == IF k = 0 THEN 0 ELSE sum[k-1] + f[k-1]
               IN  sum[n]

Part(alloc, S, j) == [w \in Workers |-> IF w \in S THEN alloc[w][j] ELSE 0]
Held(alloc, S)    == [j \in Resources |-> SumOf(Part(alloc, S, j), N)]
Units(v)          == SumOf(v, M)
-----------------------------------------------------------------------------
(* One pass of the do-while: worker by worker, whoever can finish with     *)
(* what is in Work returns all it holds to Work.                           *)
Look(s, w, alloc, req) ==
  IF w \notin s.Finish /\ Fits(req[w], s.Work)
  THEN [Work |-> Plus(s.Work, alloc[w]), Finish |-> s.Finish \cup {w}]
  ELSE s

Pass(start, alloc, req) ==
  LET scan[k \in 0 .. N] == IF k = 0 THEN start
                            ELSE Look(scan[k-1], k - 1, alloc, req)
  IN  scan[N]

(* Mutants, here and below: a plausible bug in the definition that follows. *)
UnfinishedInOnePass(avail, alloc, req, exited) ==          \* if for do-while
  Workers \ Pass([Work |-> avail, Finish |-> exited], alloc, req).Finish

(* The passes, until none finishes anybody; N of them always get there.    *)
Unfinished(avail, alloc, req, exited) ==
  LET rounds[k \in 0 .. N] == IF k = 0 THEN [Work |-> avail, Finish |-> exited]
                              ELSE Pass(rounds[k-1], alloc, req)
  IN  Workers \ rounds[N].Finish

(* The unfinished worker that holds most, the first one of several.        *)
Victim(alloc, unfinished) ==
  CHOOSE v \in unfinished :
    \A w \in unfinished \ {v} : \/ Units(alloc[w]) < Units(alloc[v])
                                \/ Units(alloc[w]) = Units(alloc[v]) /\ v < w

(* What the detection is for: a set of workers is stuck when none of them  *)
(* can be satisfied even after all the others have returned what they      *)
(* hold, and a worker is deadlocked when it is in such a set.              *)
Stuck(S, avail, alloc, req) ==
  \A i \in S : ~ Fits(req[i], Plus(avail, Held(alloc, Workers \ S)))

Deadlocked(avail, alloc, req) ==
  UNION {S \in SUBSET Workers : Stuck(S, avail, alloc, req)}
=============================================================================
