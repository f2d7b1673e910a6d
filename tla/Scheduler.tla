----------------------------- MODULE Scheduler ------------------------------
(***************************************************************************)
(* Lab 5 ("5 Lab"): a scheduler without a scheduler process.  The launcher *)
(* forks a process at each arrival; a process that ends a burst, or whose  *)
(* quantum the timer ends with SIGUSR1, takes itself off the CPU and gives *)
(* it to the next of the ready queue.  The queue, the table of the         *)
(* processes and the words of the timer are shared memory, each under a    *)
(* semaphore.                                                              *)
(*                                                                         *)
(* A step is what is done under a semaphore (scheduleNext holds all three  *)
(* and the other sections one, so they never wait for one another), or an  *)
(* operation on the semaphore sync.  The timer opens a window in which     *)
(* sync is zero once per tick; a process sleeps UPPER_DELTA, waits for     *)
(* zero and then does the work of the tick.                                *)
(*                                                                         *)
(* TIMING.  UPPER_DELTA (50 ms) and LOWER_DELTA (5 ms) are assumed long    *)
(* against the work of a tick: when the timer ticks everybody waits for    *)
(* the window, and when it closes the window everybody sleeps again.       *)
(* Nothing is assumed of the order of the steps inside one tick, unless    *)
(* the workload is inturn: then the work of one process in a tick does not *)
(* overlap with that of another.                                           *)
(***************************************************************************)
EXTENDS Integers, Sequences, FiniteSets

CONSTANTS Arrival,        \* when each process arrives; process 0 first, at 0
          Priority,       \* of each process, in 0 .. 2
          Quantum,        \* of each priority
          Workloads,      \* the bursts of all processes, and whether inturn
          S,              \* size of the queue
          MaxTime         \* bound of the clocks

Processes == DOMAIN Arrival
N         == Cardinality(Processes)

(* genbursts.c: sorted, the first at 0; CPU and I/O bursts alternate.  The *)
(* quanta of shared.c:118 are 10, 5 and 2: with a quantum of one tick, the *)
(* signal could come before a process has seen that it runs.               *)
ASSUME SchedulerAssumption ==
  /\ Processes = 0 .. N - 1 /\ N \in 1 .. S
  /\ Arrival \in [Processes -> Nat] /\ Arrival[0] = 0
  /\ \A p, q \in Processes : p < q => Arrival[p] <= Arrival[q]
  /\ Priority \in [Processes -> 0 .. 2]
  /\ Quantum \in [0 .. 2 -> Nat \ {0, 1}]
  /\ \A w \in Workloads :
        /\ w.inturn \in BOOLEAN /\ DOMAIN w.bursts = Processes
        /\ \A p \in Processes : w.bursts[p] \in Seq(Nat \ {0}) /\ Len(w.bursts[p]) % 2 = 1
  /\ S \in Nat /\ MaxTime \in Nat

VARIABLES
  now, running, next_interrupt,     \* timer_ptr[0], [1], [2]
  queue,
  state,                            \* in the table, zero = READY
  registered,                       \* processes whose priority is in the table
  sync,                             \* value of the semaphore
  inturn,                           \* the work of a tick does not overlap
  pc, burst_times, local_time, burst_idx, rem, got_sigusr1,
  seen,                             \* state as read at the top of the loop
  tpc, lpc, ltime, forked           \* timer; launcher: place, time, children

shared == <<now, running, next_interrupt, queue, state, registered, sync>>
fixed  == <<inturn, burst_times>>
own    == <<fixed, local_time, burst_idx, rem, got_sigusr1, seen>>
others == <<tpc, lpc, ltime, forked>>
vars   == <<shared, own, others, pc>>

Init ==
  /\ now = 0 /\ running = -1 /\ next_interrupt = -1
  /\ queue = <<>>
  /\ state = [p \in Processes |-> "READY"] /\ registered = {}
  /\ sync = 0
  /\ pc = [p \in Processes |-> "unborn"]
  /\ \E w \in Workloads : burst_times = w.bursts /\ inturn = w.inturn
  /\ local_time = Arrival
  /\ burst_idx = [p \in Processes |-> 1]
  /\ rem = [p \in Processes |-> burst_times[p][1]]
  /\ got_sigusr1 = [p \in Processes |-> FALSE]
  /\ seen = [p \in Processes |-> "READY"]
  /\ tpc = "start" /\ lpc = "loop" /\ ltime = 0 /\ forked = 0

Goto(p, from, to) == pc[p] = from /\ pc' = [pc EXCEPT ![p] = to]

(* In the middle of the work of a tick, from its first to its last step.   *)
Working == {p \in Processes : pc[p] \in
              {"pcb", "look", "schedule", "pop", "idle", "release", "enqueue",
               "ready", "preempt", "requeue", "block", "exit", "quit"}}
Asleep  == {p \in Processes : pc[p] \in {"unborn", "nap", "rest", "gone"}}
MayWork(p) == inturn => Working \subseteq {p}

(* The timer waits for sync, which nobody will raise again.                *)
ClockStopped == tpc = "open" /\ sync = 0
Between      == tpc = "sleep" \/ ClockStopped

(* Process 0 has left, and its unit of sync with it: nothing ticks again.  *)
UnitLost == pc[0] = "gone" /\ sync = 0 /\ tpc \notin {"start", "window"}
-----------------------------------------------------------------------------
(* The ready queue, and the table.  Mutants, here and below: a plausible   *)
(* bug in the definition that follows.                                     *)
queuePush(q, p) == IF Len(q) = S THEN q ELSE Append(q, p)

AfterPush == [push |-> "pcb", enqueue |-> "ready", requeue |-> "schedule"]

Push(p) ==
  /\ pc[p] \in DOMAIN AfterPush
  /\ pc[p] = "push" => MayWork(p)
  /\ queue' = queuePush(queue, p)
  /\ pc' = [pc EXCEPT ![p] = AfterPush[@]]
  /\ UNCHANGED <<now, running, next_interrupt, state, registered, sync, own, others>>

NewState == [pcb |-> "READY", ready |-> "READY", preempt |-> "READY",
             block |-> "IO", exit |-> "EXITED"]
AfterSetNoPush == [pcb |-> "look", ready |-> "look", preempt |-> "schedule",
                   block |-> "release", exit |-> "release"]
AfterSet == [pcb |-> "look", ready |-> "look", preempt |-> "requeue",
             block |-> "release", exit |-> "release"]

SetState(p) ==
  /\ pc[p] \in DOMAIN NewState
  /\ state' = [state EXCEPT ![p] = NewState[pc[p]]]
  /\ registered' = registered \cup {p}
  /\ pc' = [pc EXCEPT ![p] = AfterSet[@]]
  /\ UNCHANGED <<now, running, next_interrupt, queue, sync, own, others>>

Release(p) == /\ Goto(p, "release", "schedule")
              /\ running' = -1
              /\ UNCHANGED <<now, next_interrupt, queue, state, registered, sync, own, others>>

LookNever(p) ==                                            \* test reversed
  /\ Goto(p, "look", IF running = -1 THEN "read" ELSE "schedule")
  /\ UNCHANGED <<shared, own, others>>

Look(p) == /\ Goto(p, "look", IF running = -1 THEN "schedule" ELSE "read")
           /\ UNCHANGED <<shared, own, others>>
-----------------------------------------------------------------------------
(* scheduleNext: the test of the queue, without its semaphore, and then    *)
(* one of two sections.  After it the caller goes on, or quits.            *)
scheduleNext(p) == /\ Goto(p, "schedule", IF queue = <<>> THEN "idle" ELSE "pop")
                   /\ UNCHANGED <<shared, own, others>>

AfterSchedule(p) == IF burst_idx[p] > Len(burst_times[p]) THEN "quit" ELSE "read"

getQuantum(p) == Quantum[IF p \in registered THEN Priority[p] ELSE 0]

GoIdle(p) == /\ Goto(p, "idle", AfterSchedule(p))
             /\ running' = -1 /\ next_interrupt' = -1
             /\ UNCHANGED <<now, queue, state, registered, sync, own, others>>

PopLast(p) ==                                              \* a stack
  /\ Goto(p, "pop", AfterSchedule(p))
  /\ queue # <<>>
  /\ LET next == queue[Len(queue)]
     IN  /\ state' = [state EXCEPT ![next] = "RUNNING"]
         /\ running' = next
         /\ next_interrupt' = local_time[p] + getQuantum(next)
  /\ queue' = SubSeq(queue, 1, Len(queue) - 1)
  /\ UNCHANGED <<now, registered, sync, own, others>>

PopAgain(p) ==                                             \* front_idx kept
  /\ Goto(p, "pop", AfterSchedule(p))
  /\ queue # <<>>
  /\ state' = [state EXCEPT ![Head(queue)] = "RUNNING"]
  /\ running' = Head(queue)
  /\ next_interrupt' = local_time[p] + getQuantum(Head(queue))
  /\ UNCHANGED <<now, queue, registered, sync, own, others>>

PopUnmarked(p) ==                                          \* state not set
  /\ Goto(p, "pop", AfterSchedule(p))
  /\ queue # <<>>
  /\ running' = Head(queue)
  /\ next_interrupt' = local_time[p] + getQuantum(Head(queue))
  /\ queue' = Tail(queue)
  /\ UNCHANGED <<now, state, registered, sync, own, others>>

Pop(p) == /\ Goto(p, "pop", AfterSchedule(p))
          /\ queue # <<>>
          /\ LET next == Head(queue)
             IN  /\ state' = [state EXCEPT ![next] = "RUNNING"]
                 /\ running' = next
                 /\ next_interrupt' = local_time[p] + getQuantum(next)
          /\ queue' = Tail(queue)
          /\ UNCHANGED <<now, registered, sync, own, others>>

(* SEM_UNDO takes back what process 0 gave to sync, but not below zero.    *)
UndoAnybody(p) == sync' = IF sync > 0 THEN sync - 1 ELSE sync  \* given by all

Undo(p) == sync' = IF p = 0 /\ sync > 0 THEN sync - 1 ELSE sync

(* Another process was faster: queuePop returns -1 and the state goes to   *)
(* the word before the table, which is foreign memory or not mapped.       *)
PopNothing(p) ==
  /\ pc[p] = "pop" /\ queue = <<>>
  /\ running' = -1
  /\ \/ /\ pc' = [pc EXCEPT ![p] = AfterSchedule(p)]
        /\ next_interrupt' \in {local_time[p] + q : q \in {0, Quantum[0], Quantum[1], Quantum[2]}}
        /\ UNCHANGED sync
     \/ /\ pc' = [pc EXCEPT ![p] = "gone"]                 \* SIGSEGV
        /\ Undo(p) /\ UNCHANGED next_interrupt
  /\ UNCHANGED <<now, queue, state, registered, own, others>>

quit(p) == /\ Goto(p, "quit", "gone")
           /\ Undo(p)
           /\ UNCHANGED <<now, running, next_interrupt, queue, state, registered, own, others>>
-----------------------------------------------------------------------------
(* A process: start, and the loop.                                         *)
StartTimer(p) == /\ Goto(p, "signal", "push")              \* process 0 only
                 /\ sync' = sync + 1
                 /\ UNCHANGED <<now, running, next_interrupt, queue, state, registered, own, others>>

ReadState(p) == /\ Goto(p, "read", "nap")
                /\ seen' = [seen EXCEPT ![p] = state[p]]
                /\ rem' = [rem EXCEPT ![p] = IF state[p] \in {"RUNNING", "IO"} THEN @ - 1 ELSE @]
                /\ UNCHANGED <<shared, fixed, local_time, burst_idx, got_sigusr1, others>>

EndNap(p) == /\ Between
             /\ Goto(p, "nap", "sync")
             /\ UNCHANGED <<shared, own, others>>

PassWindow(p) == /\ Goto(p, "sync", "ticked")
                 /\ sync = 0 /\ local_time[p] < MaxTime
                 /\ local_time' = [local_time EXCEPT ![p] = @ + 1]
                 /\ UNCHANGED <<shared, fixed, burst_idx, rem, got_sigusr1, seen, others>>

Rest(p) == /\ Goto(p, "ticked", "rest")
           /\ seen[p] = "READY"
           /\ UNCHANGED <<shared, own, others>>

EndRest(p) == /\ Between
              /\ Goto(p, "rest", "read")
              /\ UNCHANGED <<shared, own, others>>

EndBurstSignalled(p) ==                                    \* got_sigusr1 kept
  /\ seen[p] # "READY" /\ rem[p] <= 0 /\ MayWork(p)
  /\ burst_idx' = [burst_idx EXCEPT ![p] = @ + 1]
  /\ IF burst_idx[p] = Len(burst_times[p])
     THEN Goto(p, "ticked", "exit") /\ UNCHANGED rem
     ELSE /\ Goto(p, "ticked", IF seen[p] = "RUNNING" THEN "block" ELSE "enqueue")
          /\ rem' = [rem EXCEPT ![p] = burst_times[p][burst_idx[p] + 1]]
  /\ UNCHANGED <<shared, fixed, local_time, got_sigusr1, seen, others>>

EndBurst(p) ==
  /\ seen[p] # "READY" /\ rem[p] <= 0 /\ MayWork(p)
  /\ burst_idx' = [burst_idx EXCEPT ![p] = @ + 1]
  /\ got_sigusr1' = [got_sigusr1 EXCEPT ![p] = FALSE]
  /\ IF burst_idx[p] = Len(burst_times[p])
     THEN Goto(p, "ticked", "exit") /\ UNCHANGED rem
     ELSE /\ Goto(p, "ticked", IF seen[p] = "RUNNING" THEN "block" ELSE "enqueue")
          /\ rem' = [rem EXCEPT ![p] = burst_times[p][burst_idx[p] + 1]]
  /\ UNCHANGED <<shared, fixed, local_time, seen, others>>

Interrupted(p) == /\ Goto(p, "ticked", "preempt")
                  /\ seen[p] # "READY" /\ rem[p] > 0 /\ got_sigusr1[p] /\ MayWork(p)
                  /\ got_sigusr1' = [got_sigusr1 EXCEPT ![p] = FALSE]
                  /\ UNCHANGED <<shared, fixed, local_time, burst_idx, rem, seen, others>>

Continue(p) == /\ Goto(p, "ticked", "read")
               /\ seen[p] # "READY" /\ rem[p] > 0 /\ ~ got_sigusr1[p]
               /\ UNCHANGED <<shared, own, others>>

Process(p) ==
  \/ Push(p) \/ SetState(p) \/ Release(p) \/ Look(p)
  \/ scheduleNext(p) \/ GoIdle(p) \/ Pop(p) \/ PopNothing(p) \/ quit(p)
  \/ StartTimer(p) \/ ReadState(p) \/ EndNap(p) \/ PassWindow(p)
  \/ Rest(p) \/ EndRest(p) \/ EndBurst(p) \/ Interrupted(p) \/ Continue(p)
-----------------------------------------------------------------------------
(* The timer.                                                              *)
NobodyTouched == UNCHANGED <<queue, state, registered, fixed, burst_idx, rem, seen, lpc, ltime, forked>>

StartClock == /\ tpc = "start" /\ tpc' = "sleep"
              /\ sync > 0                        \* down, and up again
              /\ now' = 0
              /\ NobodyTouched
              /\ UNCHANGED <<running, next_interrupt, sync, pc, local_time, got_sigusr1>>

Tick == /\ tpc = "sleep" /\ tpc' = "timeout"
        /\ \A p \in Processes : pc[p] \in {"unborn", "sync", "gone"}
        /\ lpc \in {"sync", "wait", "end"}
        /\ now < MaxTime
        /\ now' = now + 1
        /\ NobodyTouched
        /\ UNCHANGED <<running, next_interrupt, sync, pc, local_time, got_sigusr1>>

(* SIGUSR1 is delivered, and ends the semop the process is in with EINTR:  *)
(* to the process this is as good as the window.                           *)
handleTimeout ==
  /\ tpc = "timeout" /\ tpc' = "open"
  /\ IF next_interrupt # -1 /\ running # -1 /\ now = next_interrupt
     THEN /\ got_sigusr1' = [got_sigusr1 EXCEPT ![running] = TRUE]
          /\ IF pc[running] = "sync"
             THEN /\ pc' = [pc EXCEPT ![running] = "ticked"]
                  /\ local_time' = [local_time EXCEPT ![running] = @ + 1]
             ELSE UNCHANGED <<pc, local_time>>
     ELSE UNCHANGED <<got_sigusr1, pc, local_time>>
  /\ NobodyTouched
  /\ UNCHANGED <<now, running, next_interrupt, sync>>

OpenWindow == /\ tpc = "open" /\ tpc' = "window"
              /\ sync > 0 /\ sync' = sync - 1
              /\ NobodyTouched
              /\ UNCHANGED <<now, running, next_interrupt, pc, local_time, got_sigusr1>>

CloseWindow == /\ tpc = "window" /\ tpc' = "sleep"
               /\ Asleep = Processes /\ lpc \in {"nap", "wait", "end"}
               /\ sync' = sync + 1
               /\ NobodyTouched
               /\ UNCHANGED <<now, running, next_interrupt, pc, local_time, got_sigusr1>>

Timer == StartClock \/ Tick \/ handleTimeout \/ OpenWindow \/ CloseWindow
-----------------------------------------------------------------------------
(* The launcher.                                                           *)
forkProcess == /\ lpc = "loop" /\ forked < N
               /\ ltime = Arrival[forked]
               /\ pc' = [pc EXCEPT ![forked] = IF forked = 0 THEN "signal" ELSE "push"]
               /\ forked' = forked + 1
               /\ UNCHANGED <<shared, own, tpc, lpc, ltime>>

NextTick == /\ lpc = "loop"
            /\ IF forked = N THEN lpc' = "wait"
                             ELSE ltime # Arrival[forked] /\ lpc' = "nap"
            /\ UNCHANGED <<shared, own, pc, tpc, ltime, forked>>

LauncherEndNap == /\ lpc = "nap" /\ Between /\ lpc' = "sync"
                  /\ UNCHANGED <<shared, own, pc, tpc, ltime, forked>>

LauncherPassWindow == /\ lpc = "sync" /\ sync = 0 /\ ltime < MaxTime
                      /\ lpc' = "loop" /\ ltime' = ltime + 1
                      /\ UNCHANGED <<shared, own, pc, tpc, forked>>

(* All children waited for: SIGINT ends the timer and the manager.         *)
LauncherQuit == /\ lpc = "wait" /\ lpc' = "end"
                /\ \A p \in Processes : pc[p] = "gone"
                /\ tpc' = "end"
                /\ UNCHANGED <<shared, own, pc, ltime, forked>>

Launcher == forkProcess \/ NextTick \/ LauncherEndNap \/ LauncherPassWindow \/ LauncherQuit

Next == (\E p \in Processes : Process(p)) \/ Timer \/ Launcher

Spec == Init /\ [][Next]_vars

(* Whatever can run does; the window, once open, is passed.                *)
Fairness == WF_vars(Timer) /\ WF_vars(Launcher) /\ \A p \in Processes : WF_vars(Process(p))

FairSpec == Spec /\ Fairness
-----------------------------------------------------------------------------
(* Every variable keeps its range. *)
TypeOK ==
  /\ now \in 0 .. MaxTime /\ running \in {-1} \cup Processes
  /\ next_interrupt \in Int
  /\ queue \in Seq(Processes)
  /\ state \in [Processes -> {"READY", "RUNNING", "IO", "EXITED"}]
  /\ registered \subseteq Processes
  /\ sync \in {0, 1}
  /\ burst_idx \in [Processes -> Nat] /\ rem \in [Processes -> Int]
  /\ local_time \in [Processes -> Nat]
  /\ got_sigusr1 \in [Processes -> BOOLEAN]
  /\ tpc \in {"start", "sleep", "timeout", "open", "window", "end"}
  /\ lpc \in {"loop", "nap", "sync", "wait", "end"}
  /\ forked \in 0 .. N

Queued == {queue[i] : i \in 1 .. Len(queue)}

(* No process is in the middle of its work, and no event of this tick is   *)
(* still to be handled.                                                    *)
Settled == \A p \in Processes :
              pc[p] \in {"unborn", "signal", "push", "nap", "rest", "read", "sync", "gone"}

(* manager.c:24 "timer[1] = serial number of running process else -1", and *)
(* so there is one at most, although any process may schedule another.     *)
TimerNamesRunner ==
  Settled => \A p \in Processes : (state[p] = "RUNNING") <=> (running = p)

(* That holds if the work of a tick is done in turn.                       *)
OneRunner == inturn => TimerNamesRunner

(* Who is ready is in the queue once, so that nobody is forgotten, and the *)
(* CPU is idle only if nobody is ready.                                    *)
ReadyIsQueued ==
  inturn /\ Settled =>
    /\ \A p \in Processes :
          (p \in registered /\ state[p] = "READY") <=> p \in Queued
    /\ Cardinality(Queued) = Len(queue)
    /\ running = -1 => queue = <<>>

(* Every place of the queue holds another process, so that S places are    *)
(* enough for all, whatever the processes of one tick do to each other.    *)
QueuedOnce == \A i, j \in 1 .. Len(queue) : queue[i] = queue[j] => i = j

(* A signal does not outlive the turn on the CPU that it is to end: nobody *)
(* takes the CPU with a stale SIGUSR1, which would take it away at once.   *)
SignalIsFresh ==
  \A p \in Processes : inturn /\ got_sigusr1[p] =>
     running = p /\ now = next_interrupt /\ state[p] = "RUNNING"

(* timer.c:74: global time.  Nobody is ahead of the timer, with overlapped *)
(* work as well: sync is zero in the window only, until the kernel takes   *)
(* back the unit of process 0 because that left outside of the window.     *)
(* The others then find sync at zero for ever and count on without the     *)
(* timer; nothing is claimed of them.                                      *)
GlobalTime == ~ UnitLost => \A p \in Processes : pc[p] # "unborn" => local_time[p] <= now

(* In turn, the processes implement the round robin: each step does, but   *)
(* for those taken after the unit of sync is lost.                         *)
Holder == IF running = -1 \/ running \in Queued THEN -1 ELSE running
Robin  == INSTANCE RoundRobin WITH
            Quantum <- [p \in Processes |-> Quantum[Priority[p]]],
            NOBODY  <- -1,
            ready   <- queue,
            cpu     <- Holder,
            until   <- IF Holder = -1 THEN 0 ELSE next_interrupt,
            io      <- {p \in Processes : state[p] = "IO" /\ p # running /\ p \notin Queued},
            new     <- {p \in Processes : pc[p] \in {"unborn", "signal", "push"}}
Refines == (inturn => Robin!Init) /\ [][inturn /\ ~ UnitLost => Robin!Next]_(Robin!vars)

(* All processes end, and with them the timer, or the unit of sync is lost *)
(* on the way.                                                             *)
Terminates == inturn ~> lpc = "end" \/ UnitLost
=============================================================================
