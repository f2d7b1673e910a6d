----------------------------- MODULE RoundRobin -----------------------------
(***************************************************************************)
(* What the scheduler of lab 5 promises: one CPU, given to the processes   *)
(* in the order in which they became ready, for at most a quantum, and not *)
(* idle for a tick while someone is ready.  No processes that schedule one *)
(* another, no timer: Scheduler implements this specification.             *)
(***************************************************************************)
EXTENDS Integers, Sequences

CONSTANTS Processes,
          Quantum,   \* of each process
          NOBODY

VARIABLES now,
          ready,     \* the ready queue
          cpu,       \* the process that has the CPU, or NOBODY
          until,     \* the end of its quantum
          io, new    \* the processes in I/O, and those not arrived yet

vars == <<now, ready, cpu, until, io, new>>

Init == /\ now = 0 /\ ready = <<>> /\ cpu = NOBODY /\ until = 0
        /\ io = {} /\ new = Processes

Arrive(p) == /\ p \in new /\ new' = new \ {p}
             /\ ready' = Append(ready, p)
             /\ UNCHANGED <<now, cpu, until, io>>

IoDone(p) == /\ p \in io /\ io' = io \ {p}
             /\ ready' = Append(ready, p)
             /\ UNCHANGED <<now, cpu, until, new>>

Dispatch == /\ cpu = NOBODY /\ ready # <<>>
            /\ cpu' = Head(ready) /\ ready' = Tail(ready)
            /\ until' = now + Quantum[cpu']
            /\ UNCHANGED <<now, io, new>>

FreeCpu == cpu # NOBODY /\ cpu' = NOBODY /\ until' = 0 /\ UNCHANGED <<now, new>>

Block   == FreeCpu /\ io' = io \cup {cpu} /\ UNCHANGED ready

Exit    == FreeCpu /\ UNCHANGED <<io, ready>>

Preempt == FreeCpu /\ now = until /\ ready' = Append(ready, cpu) /\ UNCHANGED io

(* No tick with an idle CPU and someone ready, nor beyond a quantum.       *)
Tick == /\ IF cpu = NOBODY THEN ready = <<>> ELSE now < until
        /\ now' = now + 1
        /\ UNCHANGED <<ready, cpu, until, io, new>>

Next == \/ \E p \in Processes : Arrive(p) \/ IoDone(p)
        \/ Dispatch \/ Block \/ Exit \/ Preempt \/ Tick

Safety == Init /\ [][Next]_vars
=============================================================================
