# Formal models of the operating-systems lab programs

The repository holds ten programs written for an operating-systems laboratory,
one per directory `N Lab`. Each is a system of its own: processes or threads
that coordinate through one mechanism (exec, signals, pipes, shared memory,
System V semaphores, POSIX barriers and condition variables) or a data
structure on which a simulation runs. This directory holds TLA+ models of nine
of them, TLC configurations that check the models on small instances, and TLAPS
proofs for every size.

Contents: 1 inventory, 2 plan, 3 how the code is modelled, 4 lab 6 (house),
5 lab 8 (resource manager), 6 lab 7 (car factory), 7 lab 5 (scheduler), 8 lab 10
(disk), 9 lab 4 (ludo), 10 lab 3 (distributed automaton), 11 lab 2 (booking),
12 lab 9 (paging), 13 the runs, 14 what is proved, 15 what is only checked,
16 what is not modelled, 17 disagreements found.

## 1. Inventory

| part | state | operations | interaction | hard behaviour | what makes it correct |
|---|---|---|---|---|---|
| **Lab 1** `submission.cpp`: a Hamiltonian cycle, searched depth first by one process per node of the path | the path, in `argv`; the graph, read by each process | fork, exec, waitpid, exit status | a parent waits for one child at a time | none: one process acts at a time | a cycle is found if there is one |
| **Lab 2** `agent.cpp`, `customer.cpp`: tickets | the agent's queue and tickets; each customer's flag and number of bookings; `require.txt` | two signal handlers on each side, the agent's loop | SIGUSR1, SIGUSR2, one file | SIGUSR1 is call and grant in one; a signal before the `pause` it should end | both sides count the same bookings, who is in the queue is called |
| **Lab 3** `rundfa.cpp`: a coordinator and one process per state of a DFA | the pipes, the stdin buffer, the current state | `userLoop`, `stateLoop`, `quit` | pipes, SIGINT | a slow state, an invalid symbol, control characters, words and numbers typed ahead, shutdown in a word | the processes are the automaton, all of them end |
| **Lab 4** `ludo.c`, `board.c`, `players.c` | the board and the players' cells in shared memory, the pipe of acknowledgments | throw, land, finish, draw, end | SIGUSR1, SIGUSR2, pipe, shared memory without a lock | a board drawn in the middle of a move, a signal to a player that has left, the end in a move | the moves obey the rules, in turn; what is drawn is a whole move; all processes end |
| **Lab 5** `launcher.c`, `process.c`, `timer.c`, `manager.c`, `shared.c` | ready queue, clock, state and remaining time of each process | `tick_clock`, `scheduleNext`, burst end, I/O end, time-out | shared memory, semaphores, signals | two events in the same tick | one process runs, nobody is lost from the queue |
| **Lab 6** `nomad.c`, `demon.c`, `cond.c`, `shared.c`, `manager.c` | the house: who is inside, how many, how many wait | arrive, wait, enter, leave; lock, wait, signal, broadcast | shared memory, System V semaphores | lost, stolen and wasted wake-ups, two programs that maintain one invariant | the kinds are never mixed, no wake-up is lost |
| **Lab 7** `manager.c`, `work.c`, `global.c`: a car factory | cars, their parts, the schedule of the day | assign, work, end of day | pthread barriers, mutexes | work that depends on other work, the last day | every part is made once, after its prerequisites; the days end |
| **Lab 8** `manager.c`, `worker.c`, `dlhandler.c`: a resource manager with deadlock recovery | available, allocated, requested and released vectors, queue of waiting workers | request, release, grant, wait, detect, preempt, quit | threads, mutexes, condition variables | handshake over shared words, two threads on one queue, deadlock | a deadlock is found exactly, every request is answered |
| **Lab 9** `LRU.c` | a doubly linked list of the pages in memory and a page table of pointers into it | page access, fault, `blur` over six layouts of an image | none (sequential) | one frame, pages of two images, a window beyond the image | the list is the LRU order, the pages of the two images are apart |
| **Lab 10** `diskutils.c`, `diskmanager.c`, `foosh.c` | in shared memory: a bitmap, a count, links, blocks; in the shell: the current directory | `md`, `cd`, `cp`, `ls`, `prn` | the disk outlives the shells | full disk, an operation that fails half way, a shell killed half way | no block is in two files, none is lost, a command happens whole or not at all |

Programs that only make inputs (`gen.cpp`, `gendfa.c`, `genbursts.c`,
`genschedule.c`, `foobar.c`), the makefiles, sample outputs and the course
material under `Materials` and `Theory` are not modelled. The hazards of each
part, at their lines and with the properties that are about them, are listed in
`PROJECT.json`.

## 2. Plan

In order of the importance and the difficulty of the behaviour; an abstract
module states the promise, a detailed one is the code and implements it.

| lab | abstract | detailed | proved | left to prove |
|---|---|---|---|---|
| 6 | `SharedHouse` | `House` | all safety, the refinement | |
| 8 | `Allocator` (over `Allocation`) | `ResourceManager` | all safety, the refinement | |
| 7 | `CarPlant` | `Factory` | all safety, the refinement | |
| 5 | `RoundRobin` | `Scheduler` | all safety and the refinement, until the unit of `sync` is lost | |
| 10 | `FileTree` | `VirtualDisk` | all safety | the refinement |
| 4 | `LudoRules` | `Ludo` | all safety, the refinement | |
| 3 | `Automaton` | `RunDfa` | all safety, the refinement | |
| 2 | | `Booking` | the agreement | |
| 9 | `PageCache` | `LRU` | all safety, the refinement | |
| 1 | | | | not modelled, see section 16 |

The theorems about a detailed module are in a module of the same name and
`_proofs`; those of labs 2 and 5 are together in `Signals_proofs`, because both
programs keep a queue of whom to call, or to run, next and need the same lemmas
about it. (This is why the operators of `Booking` have names of their own for
`Init`, `Next` and `Spec`: the two modules are extended side by side.)

Variants still to be written: lab 6 with interruption (SIGINT, SEM_UNDO), lab 8
with spurious wake-ups, lab 10 with two shells.

## 3. How the code is modelled

A process or a thread has a place (`pc`, `mpc`, `dpc`, ...) and a step is one
operation that can block or that another one can tell apart from the next: a
semaphore operation, a mutex, a condition variable, a signal, a read or a write
of a pipe, a write to memory that is read without a lock, or the code between
two of them. Code that runs under a lock which every reader of the words takes
is one step.

A signal is a pending bit: the second of two signals before the handler runs is
lost, and a handler masks its own signal only. `scanf` and the C library's
buffers are modelled by what they take out and leave behind, where a program
reads a pipe and the terminal through the same buffer (labs 3 and 4).

Time that the code spends sleeping is not modelled: a step may come at any time,
which includes the real timing. Where the code relies on a sleep or on being
quick, the assumption has a name, and it is the whole of what is assumed:

| assumption | lab | what it says | what happens without it |
|---|---|---|---|
| `Prompt` | 2 | who has sent a signal is in its `pause`, its flag set, before the answer; the agent's `sleep(1)` outlasts the customer's handler | the `pause` waits for ever, or a call is taken for a booking |
| guard of `FirstDraw` | 4 | the board's `sleep(1)` before its first ACK outlasts the start of `players.c` | a move is asked of a parent that has no players yet |
| guards `Between`, of `Tick` and of `CloseWindow` | 5 | the sleeps of 50 and 5 ms are long against the work of a tick | processes miss a window |
| `inturn` | 5 | the work of one process in a tick does not overlap with another's | section 17, `scheduler_two_runners` |
| `unhurried` | 8 | threads come for RMTX only when the manager is in its `cond_wait` | section 5 |

`inturn` and `unhurried` are variables that are chosen at the start and stay:
one run has both kinds of behaviours, and the properties that need the
assumption say so.

A definition whose name is announced as a *mutant* is a wrong form of the one
that follows it. No specification uses it: it records a plausible bug and serves
to show that the property named in `PROJECT.json` would notice it. The places
have comments with the point of the code they stand for, and `PROJECT.json`
gives the lines of every definition.

## 4. Lab 6: the house

`SharedHouse` is the promise: a set of visitors inside, all nomads or all
demons, and everyone who is in gets out. `House` is the code.

| code | model |
|---|---|
| `house.state`, `house.count`, `house.wait_count` | `state`, `count`, `wait_count` |
| semaphore 0 and 1 of `cond_t`, `*count_ptr` | `mtx`, `cnd`, `sleepers` |
| `semWait`, `semSignal` on the mutex | `Acquire`, `Release`; `SemPost` for a post with the ERANGE limit |
| `cond_wait` | `StartWait`, `WaitRelease`, `WaitToken`, `WaitRelock`, `EndWait` |
| `nomadLoop`, `demonLoop` | `Arrive`, the tests inside `StartWait`/`NomadEnter`/`DemonEnter`, `EnterUnlock`, `LeaveLock`, `NomadLeave`, `DemonLeave`, `LeaveUnlock` |

The `sleep(1)` between the unlock and the wait for the token is what makes
`cond_wait` interesting: a signal posts a token that stays, and a visitor that
starts to wait later may take it. So a token may be stolen by a visitor of the
same or of the other kind, a broadcast may leave tokens nobody needs, and
several may pile up to `SEMVMX`, beyond which `semop` fails and the code does
not notice. `NoLostWakeup` says why it still works, and `SleepersWoken` that
every sleeper of a house that empties again and again is woken.

**Not promised.** A demon may wait for ever while nomads come and go (and the
other way round): the house need never be empty. `SleepersWoken` therefore has
the premise that it empties infinitely often.

**Run.** `house`: 3 nomads and 2 demons with `SEMVMX = 6`. Two of a kind are
needed for a house that does not empty when one leaves, three so that one can be
inside, one asleep and one on the way; 6 is one more than the visitors and lower
than the tokens that two broadcasts post, so the limit is reached. No symmetry:
the run also checks liveness, for which it is not sound.

**Fairness.** A process that is able to run does (`WF` of `Run`). Processes
asleep on a semaphore are served first come, first served by the kernel, so one
whose `semop` is possible again and again gets it (`SF` of `Take`).

## 5. Lab 8: the resource manager

`Allocation` has the vectors and the two computations: `Unfinished` is the
do-while of the dlhandler, pass by pass and worker by worker; `Deadlocked` is the
definition of deadlock it should compute (the union of all sets of workers that
cannot be satisfied even if everyone else gives everything back).
`DetectionExact` says that the two agree in every state.

`Allocator` is the promise: ask, grant in full, return, and preempt only a
worker that is really deadlocked; units are never created or lost, by
construction, as `Free` is what is not lent.

`ResourceManager` has the N workers, the main thread (`manager`) and the
dlhandler.

| code | model |
|---|---|
| global matrices, `RQ`, `rq_size`, `REQFROM`, `REQTYPE`, `NACTIVE`, `STATUS` | variables of the same names |
| `RMTX`, `AMTX`, `WMTX[w]` | the thread that holds each, or `NOBODY` |
| `SMTX` | none: see the module's head |
| `genallocationreq`, `genreleasereq` | any vector they can produce (`GenAllocation`, `GenRelease`) |
| `workerThread` | `LockRequest` ... `Exit` |
| `main`'s loop, `serveRq` | `Start`, `Serve...`, `Ack`, `Wake...`, `Clear`, `Join` |
| `dlhandlerThread` | `LockDetect`, `Quit`, `Preempt`, `Scan...` |

**The timing assumption.** The manager acknowledges a request in the middle of
its loop body. The worker then frees RMTX, and another thread may take it and
write `REQFROM` and `REQTYPE` while the manager is still in the body, which goes
on to read the one and clear the other (`manager.c:163`, `:176`). Only the sleeps
of the workers (200 to 500 ms) and of the dlhandler (1 s) keep them apart.
`unhurried` says that they do. It is chosen at the start, from `Timings`: the
properties about requests, grants and the queue are about unhurried runs, and
two hold in every run, that the acknowledgment is heard by the right worker
(`AckIsHeard`) and that no worker goes on without its grant
(`WokenMeansGranted`).

Not unhurried, a request can be overwritten by `REQTYPE = REQ_NONE`
(`manager.c:176`) although `worker.c:55` says the lock sequentializes requests;
`serveRq` and the dlhandler's scan can both grant and dequeue the same worker,
and `rq_size` becomes negative; and a grant can be signalled to the worker that
wrote `REQFROM` last while the granted one waits for ever. The program's own
sleeps make all of these unlikely.

**Runs.** `rm`: 3 workers, 1 type with 2 units, 2 requests each of 1 unit, both
timings. Two workers holding one unit each and asking for another deadlock while
the third queues, so preemption, a queue of two and a scan of it all happen.
`rm_live`: 2 workers that deadlock across 2 types of one unit each, 3 requests,
unhurried. Deadlock checking is off: the program ends, and without the timing
assumption it may hang.

**Fairness.** Threads that can run do. `SF` of a worker is needed for RMTX, which
the dlhandler takes again and again; it sleeps a second in between, while the
workers stand in the mutex's queue.

## 6. Lab 7: the car factory

`CarPlant` is the promise: one car at a time, each part of it once and after the
parts it depends on, and an order is done when its car is complete. `Factory`
is the code: a manager thread and the workers.

| code | model |
|---|---|
| `PSTAT`, `WSTAT`, `WINFO`, `current_car` | variables of the same names |
| `f`, `b` | `left["FOO"]`, `left["BAR"]` |
| the graph of `parseDependency`, `part_worker_map` | constants `graph`, `part_worker_map`; `prerequisites`, `dependencies` |
| barriers `bop`, `eop` | places `bop`, `eop` and the steps `BopOpens`, `EopOpens` |
| a worker's condition variable | place `wait`; woken by `Work` (`ToWake`) or `SpuriousWakeup` |
| `managerLoop`, `initStats`, `processCar` | `initStats`, `Skip`, `processCar`, `CountCar`, `AllProductionsCompleted`, `Join` |
| `worker` | `Ready`, `Quit`, `DayOff`, `Begin`, `Wait`, `Work`, `AllDone` |

What a worker does under the mutex is one step, and so the mutex has no
variable: nobody can see it held except by having to wait, and its holder never
waits. `f`, `b` and `current_car` are read without it, which is why `Quit` and
`CountCar` are steps of their own with both barriers between them.

A worker sleeps on the first of its parts that is not ready. That nobody waits
in a circle rests on the order of the parts: `genschedule.c:20` writes only
edges from a lower to a higher number, which is the assumption `FactoryAssumption`
makes, and workers take their parts in ascending order.

The comment at `global.c:73` says that `WINFO` is the part a worker works on;
for a worker that does not wait it is the part of its last wait or −1. Only the
value of a waiting worker is read, so nothing depends on it.

**Run.** `factory`: 3 workers and 5 parts for a foocar, 2 workers and 3 parts for
a barcar, orders 2 and 1. So one worker has a day off, a part wakes two workers at
once, a part needs parts of two workers, and `PSTAT` is reset both for another
type and for the same type. Deadlock checking is off because the program ends;
`SomebodyCanMove`, which is proved, says that it stops nowhere else.

**Fairness.** Every thread that can run does (`WF`): the code never relies on
winning the mutex again and again against the same thread.

## 7. Lab 5: the scheduler

`RoundRobin` is the promise: one CPU, given in the order of readiness, for at
most a quantum, and no tick with an idle CPU and somebody ready. In `Scheduler`
there is no scheduler: the process that gives up the CPU, or becomes ready when it
is idle, runs `scheduleNext` for the next one.

| code | model |
|---|---|
| `timer_ptr[0]`, `[1]`, `[2]` | `now`, `running`, `next_interrupt` |
| ready queue, process table | `queue`; `state`, `registered` (has it written its entry) |
| semaphore `sync` | `sync`, in {0, 1} |
| `process.c` `processLoop`, `main`, `scheduleNext` | `ReadState` ... `Continue`; `StartTimer`, `Push`, `SetState`, `Look`; `scheduleNext`, `Pop`, `GoIdle` |
| `timerLoop`, `handleTimeout` | `StartClock`, `Tick`, `handleTimeout`, `OpenWindow`, `CloseWindow` |
| `launcherLoop` | `forkProcess`, `NextTick`, `LauncherEndNap`, ..., `LauncherQuit` |

**The timing assumption.** A process sleeps UPPER_DELTA (50 ms), waits for the
window in which `sync` is zero, and does the work of the tick; the timer opens
the window for LOWER_DELTA (5 ms). The model assumes that the sleeps are long
against the work: the guards of `Tick`, `CloseWindow` and `Between`. Nothing is
assumed of the order in a tick. A workload may say `inturn`: then the work of
two processes in one tick comes in either order but does not overlap.

Details of the code that the model keeps and that are easy to miss:

* SIGUSR1 ends the `semop` of the process it interrupts (EINTR), so that process
  passes the window a little before the others; `handleTimeout` does both.
* `queuePop` on an empty queue returns −1, and `scheduleNext` then writes to the
  entry before the table: `PopNothing` either crashes or goes on with a quantum
  made of whatever is there.
* The unit of `sync` was posted by process 0 with SEM_UNDO. When process 0 exits,
  the kernel takes it back. If that happens outside the window, the timer waits
  for ever: the clock stops. It happens when process 0's last burst is exactly as
  long as its quantum, because the signal then lets it run ahead of the window.
  `OnlyItsGiverLosesTheUnit` says that it happens in no other way. After it the
  other processes find `sync` at zero for ever: they no longer wait for one another
  or for the timer. `UnitLost` names the situation, the run enters it, and
  `GlobalTime`, `Refines` and `Terminates` claim something until it is entered:
  without that condition TLC refutes all three. No text of the repository speaks of
  it.
* With a quantum of one tick the signal would come before the process has seen
  that it runs; `shared.c:118-120` has 10, 5 and 2, and the assumption is 2.

**Runs.** `scheduler`: three processes with three priorities, two arriving
together. 18 combinations of CPU and I/O bursts, in turn, make bursts end
before, at and after the end of a quantum. One more workload has the work of a
tick interleaved as the semaphores allow, for what holds all the same: no process
is in the queue twice, so its S places are enough, and nobody is ahead of the
timer. In three more a process leaves with the signal that ends its quantum:
process 0, in turn and overlapped, which loses the unit of `sync` if the window is
not open yet, and process 1, which must not.
`scheduler_two_runners` (violated): see section 17. `MaxTime` bounds the clocks;
the schedules end before 30; after the loss of the unit the clocks of those that wait run to the bound.

**Fairness.** Every process, the timer and the launcher run when they can (`WF`).

## 8. Lab 10: the disk and its shell

`FileTree` is the promise: a tree in which a command appears whole or not at all.
`VirtualDisk` has the disk and one shell.

| code | model |
|---|---|
| bitmap, count, FAT | `used`, `NFREEBLOCKS`, `next` |
| a block | `slots` (as entries) and `data` (as part of a file) |
| `CBN` | `CBN`; the local variables of a command are the record `job` |
| `getfreeblock` | `Take` (bit), `Count`, `TakeFails` |
| `freeblock` | `FreeBit`, `FreeCount` |
| `createdirectory` | `cmd_md`, `Take`, `Count`, `Format`, then as `add_file_entry` |
| `add_file_entry` | `Enter`, `Link`, `EnterNew`, `Grow`, `NoParent` |
| `write_to_disk`, `copyfile` | `WriteBlock`, `CopyBlock`, `Chain` |
| `find_entry`, `listdirectory`, `printfile`, `resolve_path` | operators of the same names |

A step is one write that stays on the disk, and `Crash` may come between any two
of them: the disk is a shared memory segment that outlives the shell. A killed
shell may leave blocks taken that nothing leads to, and the count one off; the
invariants say that this is all it may leave, and `Refines` that the half-made
file or directory is never seen, because the size of the parent is written last.
If the count says one block and the bitmap has none, `getfreeblock` searches for
ever; in the model `Take` is then not possible and the shell stops.

`resolve_path` descends one name at a time (`Descend`) and goes nowhere from a
name that is not found; `.` stays where it is, and a path without names is the
directory it starts from. Memory that was cleared reads as the empty string
(`Empty`).

A command that fails half way for lack of space leaves its blocks as well (`cp`
at `diskutils.c:242` and `:326`); only `md` gives its block back. `spoiled` marks
a disk to which either has happened, and `NothingLeaked` is about the others.

**Run.** `disk`: four free blocks, three entries to a block (two of which are `.`
and `..` in the first one), files of no or two blocks, up to five entries on the
disk, one kill. That fills the disk in every way, makes directories of three
blocks, copies a chain, fails for lack of space in each of the four places that
ask for a block, and nests directories. Blocks are symmetric (no liveness is
checked).

Two commands are taken by the code and must not be. `md` below a file: neither
`cmd_md` (`foosh.c:71`) nor `createdirectory` looks at the type of the parent, and
the entry goes into the file's data, which `add_file_entry` refuses
(`diskutils.c:297`). And `cp` between two places of the disk does not look
whether the destination exists (`foosh.c:245`), as `cp` from the hard disk does
(`foosh.c:183`), and goes on with block −1. The model takes them too and ends in
the place `wild` (`NoParent`): what they overwrite depends on the bytes of the
file, and it may also be nothing. `StaysOnDisk` says that nothing else leaves the
disk: a command whose parent was a directory when it began (`job.known`, which
the code does not have) never gets to `wild`, and `write_to_disk` never goes on
without a block (place `overrun`). The other invariants say nothing about the
disk after `wild`.

## 9. Lab 4: ludo

`LudoRules` is the promise to those who watch the board: the players that have
not finished move in turn, by one throw each (up to two sixes and another die),
a move beyond the last cell or onto a player is not made, snakes and ladders
are followed as long as their ends are free. `Ludo` has the coordinator, the
parent of the players, the players and the board process.

| code | model |
|---|---|
| `shm_board`, `shm_players`, `shm_players[n]` | `shm_board`, `shm_players`, `unfinished` |
| the pipe of pids and ACKs, the stdin buffer | `pipe_p`, `inbuf` |
| SIGUSR1, SIGUSR2 | `sigusr1`, `sigusr2`: the processes with the signal pending |
| `ludo.c` `main`, `handleUserInput`, `play`, `terminateGame` | `ReadBoardPid` ... `ReadFirstAck`, `handleUserInput`, `Play`, `ReadAck`, `WrongAck`, `EndParent`, `EndBoard`, `quit` |
| `players.c` parent: `pid_players`, `parentHandleMove`, `terminatePlayers` | `StillPlaying`, `FirstFrom`, `parentHandleMove`, `Advance`, `HandleQuit`, `terminatePlayers` |
| `playerHandleMove` | `Throw`, `Land`, `Finish`, `Rank`, `Tell` |
| `board.c` | `SendBoardPid`, `FirstDraw`, `BeginDraw`, `printBoard`, `sendAck`, `BoardQuit` |

The memory has no lock. What keeps a drawing from showing half a move is that
the move is handed on: coordinator, parent, player, board, coordinator.
`BoardIsStill` says so, and `Refines` that what is drawn (`shown`) is a game in turn
by the rules. SIGUSR2 may come at any moment of a move, also inside
`parentHandleMove`, after which the player it chose may be killed with its
signal pending: `EverybodyLeaves` says that all processes end all the same.

A word typed ahead (`next next`) is read as the answer to the first move: it
comes before the pipe's ACK in the buffer that both share, is a wrong
acknowledgment, and ends the game (`WrongAck`). The real one stays in the pipe.

A player that has finished exits; its pid must be taken out before the next
signal. `parentHandleMove` looks only at the player before `current`, which is
enough because that is the one which moved last. `MoveAnswered` would notice.

**Run.** `ludo`: three players on a board of six cells, without jumps and with a
ladder that ends on a ladder and a snake that ends on a ladder, so that a move is
blocked at every place, all three players finish in every order, and a
throw can exceed the board. Lines: `next`, `autoplay`, `quit` and `next next`.
Throws are 1 to 17 without 6 and 12, as in the code; on six cells all those above 6
count as one. Deadlock checking is off because the game ends.

**Fairness.** Each process that can run does. The user need not type anything.

## 10. Lab 3: a distributed automaton

`Automaton` is the promise: words are read symbol by symbol, and of each word a
state tells how it ended, perhaps later. `RunDfa` has the coordinator and a
process for each state.

| code | model |
|---|---|
| `word`, `cur_idx`, `cur_state` of `userLoop` | variables of the same names |
| rest of a line, rest of a read of the pipe, in the stdin buffer | `typed`, `inbuf` |
| `pipe_c`, `pipe_s[i]` | sequences of messages; the table itself is written before the start |
| `scanf("%s")`, `scanf("%d")` | `TypedAhead`, `LeftInBuffer`, `Line`; `ScanState` |
| `userLoop` | `ReadWord`, `SendSymbol` (to `SendTo`), `Crash` |
| `stateLoop` | `Announce`, `Ignore`, `Answer`, `Complain`, `Pass` |
| SIGINT in the coordinator, `quit` in a state | `handleInterrupt`, `SendQuit`, `Reap`; `quit` |

After the last symbol of a word the coordinator starts the next one without
waiting: the state that is to answer may not have read its EOI when a TRANSITION
for the next word is behind it in its pipe. `Refines` says that this does no
harm: the history variable `spoilt` marks the runs in which a `#` or a `!` was
sent or words were typed ahead, and until then the processes are the automaton.
In the mapping, a state *owes* the end of a word while it waits for a symbol and
that end is the first message in its pipe.

What a user may type is what a state may be sent: `Letters` are the symbols,
the control characters `>`, `$` and `!` of the program, numbers, and `?` for any
other character. The coordinator sends the first letter that is no symbol and
leaves the word (`rundfa.cpp:305`). What the state makes of it:

* `$` is an end of input (`:359`): the word ends there with a verdict, and
  `Automaton` says so too;
* `!` is an order to quit (`:352`): the state ends and kills those forked before
  it. The next TRANSITION to one of them is never read, and the coordinator waits
  for an answer until SIGINT comes: `spoilt`, and `QuitEnds` still claims its end;
* anything else, `>` and digits included, makes the state write `#` for the
  coordinator, which has gone on to the next word: see section 17.

Words typed ahead come out of the same buffer before the pipe: `scanf("%d")` of
`rundfa.cpp:271` takes a number at their head for the state's number and otherwise fails,
and the coordinator does not wait for the state. A number that is no state's indexes
`pipe_s` out of range (`:285`, `:296`), which C does not define: in the model the
symbol is read by nobody, gets into the pipe of some state, or the coordinator
crashes (`Crash`). Then nobody ends the states, which ignore SIGINT. `AutomatonTypes`
proves that `cur_state` is a state's number until `spoilt`, so that nothing but words
typed ahead leads there. `QuitEnds` is about SIGINT in a coordinator that is there to
receive it, in the middle of a word and when the pipes are in disorder. A state that
quits kills those that were forked before it; the coordinator waits for them in that
order, so it never waits for one that nobody ends.

**Runs.** `dfa`: three states (a loop, a way back to state 0, a state that no word
leaves), two symbols, three words; lines with a valid word, a word with `?`, `>`, `$` or
`!` in its middle, and a second word, one of them with the number of a state and one
with another number at its head; SIGINT at any moment. `dfa_invalid` (violated):
section 17. Three states are enough for a sender, a receiver and one that still owes
an answer, and three words for a confused one with a slow one before and another after.

**Fairness.** Each process that can run does. The user need not type anything, and
SIGINT need not come.

## 11. Lab 2: booking

`Booking` has the agent and the customers. The agent calls the first of its queue
with SIGUSR1. The customer writes a request to `require.txt` and answers with
SIGUSR1, or leaves with SIGUSR2; the agent grants it with SIGUSR1 or refuses it
with SIGUSR2, and puts the customer at the end of the queue.

| code | model |
|---|---|
| `t`, `q_id`, the pid in `require.txt` | `t`, `q_id`, `file`, `customer_id` |
| agent's loop | `Call`, `Pause`, `End` |
| agent's `handleSigUsr1`, `handleSigUsr2` | `handleSigUsr1` and, after its `sleep(1)`, `PushBack`; `handleSigUsr2` |
| customer's SIGUSR1 handler, flag 0 | `Request`, `SetFlag`, `Leave` |
| customer's SIGUSR1 handler, flag 1 | `Booked` |
| customer's SIGUSR2 handler | `Refused` |

SIGUSR1 means two things to a customer, and `flag` tells which: it is set after
the agent has been signalled. So the protocol stands on `Prompt`. `BothAgree`
says what then holds: whenever the agent is about to call the next one, every
customer has counted the bookings that it was granted and waits for a call, and
the queue holds once each that has not left.

**Run.** `booking`: three customers in every order, six tickets, requests of up to
four: enough for every customer to be granted, refused, called again and to
leave, and for the tickets to end with some left in the queue. Customers that are
still in their `pause` when the agent ends stay there, as in the code.

## 12. Lab 9: paging

`PageCache` is the promise: the last f different pages that were accessed are in
memory, and a fault is an access to another one. `LRU` is the code: the list with its
pointers, the table of pointers into it, and the accesses of `blur`.

| code | model |
|---|---|
| `front`, `back`, `length`; `prev`, `next`, `page_no` of a node; `PT` | variables of the same names; nodes are numbers |
| `accessPage`, `handlePageFault`, `pushNodeFront` | the action `accessPage`, by `Hit` or `Fault`; operators of the same names |
| `accessPixel`, six schemes | `Addresses`, `accessPixel` |
| `blur` | `rowstart` ... `colend`; `Accesses`, row by row (`Row`, `Joined`); `NextPixel`, `NextScheme` |

`LRU.c:141` and `:143` mean to cut the window at the last row and column but test
where it starts: the window goes beyond the image. The addresses that are read
there are still those of pages below the output image's. `ImagesApart` says so for
the image of the run, and the theorem `RealImagesApart` for the program's own, up
to a radius of 219; at 220 the sixth layout shares a page with the output.

With one frame `handlePageFault` makes the only node its own successor and
predecessor (`LRU.c:58`). The mapping reads as many nodes as `length` says, and
`Refines` holds.

**Run.** `paging`: an image of 3 × 3 pixels, pages of 4 bytes, radii 0, 1 and 2,
1, 2, 3, 5 and 8 frames: all layouts, lists of one node, of two (where a hit at the
back is also one next to the front) and longer, pages that are evicted and come
back.

## 13. The runs

| run | instance | shows |
|---|---|---|
| `house` | 3 nomads, 2 demons, `SEMVMX` 6 | `HouseDescribed`, `NoLostWakeup`, `VisitEnds`, `SleepersWoken`, `Refines` |
| `factory` | 3 and 2 workers, 5 and 3 parts, orders 2 and 1 | `NoLostWakeup`, `Refines`, `Terminates` |
| `rm` | 3 workers, 1 type of 2 units, 2 requests, both timings | `RequestStands`, `GrantIsHeard`, `PlansStayValid`, `NobodyWaitsInVain`, `DetectionExact`, `AckIsHeard`, `WokenMeansGranted`, `Refines` |
| `rm_live` | 2 workers, 2 types of one unit, 3 requests, unhurried | `Terminates` |
| `scheduler` | 3 processes, 20 workloads in turn and two overlapped | `OneRunner`, `ReadyIsQueued`, `SignalIsFresh`, `QueuedOnce`, `GlobalTime`, `Refines`, `Terminates` |
| `scheduler_two_runners` | the overlapped workload, `MaxTime` 16 | violates `TimerNamesRunner` |
| `disk` | 4 free blocks, 3 entries a block, 5 entries, 1 kill | `OneOwner`, `CountExact`, `NothingLeaked`, `StaysOnDisk`, `Refines` |
| `ludo` | 3 players, 6 cells, 2 boards, 4 lines | `BoardIsStill`, `Refines`, `MoveAnswered`, `EverybodyLeaves` |
| `dfa` | 3 states, 2 symbols, 3 words, all kinds of letters and lines | `Refines`, `WordsAnswered`, `QuitEnds` |
| `dfa_invalid` | the same, 2 words, lines of one word | violates `StartsAgain` |
| `booking` | 3 customers, 6 tickets, prompt | `BothAgree`, `EverybodyIsCalled` |
| `paging` | 3 × 3 pixels, radii 0 to 2, 1 to 8 frames | `ImagesApart`, `Refines` |

Each detailed module also has a type invariant, `Factory` has `SomebodyCanMove`
and `Ludo` has `NoSharedCell`. They hold in these instances too (the type invariant
of `ResourceManager` in unhurried runs); the configurations leave out the types,
which say little beside the properties listed, and those two. All of them are proved
(section 14).
The runs that expect no violation have between 1 700 (`factory`) and 670 000
(`rm`) states.

## 14. What is proved

| theorem | for | says |
|---|---|---|
| `TypeCorrect`, `MutexCorrect`, `Exclusion`, `Described`, `Counted`, `NoneLost` | any finite sets of visitors, any `SEMVMX` not below their number | the invariants of the house |
| `NoDeadlock` | the same | some visitor can always move, if there is any |
| `ImplementsSharedHouse` | the same | `House` implements the safety part of `SharedHouse` |
| `AckHeard`, `WokenGranted` | any N, M, TOTAL, R, either timing | `AckIsHeard`, `WokenMeansGranted` |
| `Sequentialized`, `GrantHeard`, `PlansValid`, `QueueIsFair` | the same | `RequestStands`, `GrantIsHeard`, `PlansStayValid`, `NobodyWaitsInVain`, which are about unhurried runs |
| `DetectionIsExact`, `TypesUnhurried` | the same, unhurried | `DetectionExact`: the passes over the matrices find exactly the deadlocked workers; the ranges |
| `ImplementsAllocator` | the same | unhurried, `ResourceManager` implements `Allocator` |
| `FactoryTypes`, `FactoryNoneLost`, `FactoryTodo`, `FactoryHome` | any plans with ascending edges, any orders | the invariants of the factory |
| `FactoryMoves` | the same | the factory stops only at its end |
| `ImplementsCarPlant` | the same | `Factory` implements `CarPlant` |
| `DiskCounted` | any disk, any commands and kills | `CountExact` |
| `DiskRespected` | the same | `StaysOnDisk`: only `md` below a file and `cp` to no path leave the disk |
| `BlocksOwned` | the same | `OneOwner`: no block belongs to two |
| `BlocksCollected` | the same | `NothingLeaked`, while no command has failed half way |
| `TypesKept` | the same | the ranges, and that directories begin with `.` and `..` |
| `TheBoardIsStill` | any players, boards and lines | nobody moves while the board draws |
| `TheyNeverShareACell` | the same | two players are on one cell only at the start and at the end |
| `TheGameIsByTheRules` | the same | `Ludo` implements `LudoRules` |
| `TheCountIsExact`, `ZeroMeansOver`, `LudoTypes` | the same | the shared count is that of the players who have not finished or have still to count themselves out; when it is read as zero all have finished; the ranges |
| `NobodyIsQueuedTwice`, `TheQueueHasRoom` | any processes, bursts and quanta, interleaved as the semaphores allow | `QueuedOnce`; `queuePush` always finds a place |
| `SchedulerRanges`, `OnlyItsGiverLosesTheUnit` | the same | the ranges; the unit of `sync` is lost only when process 0 leaves |
| `TheClockIsGlobal` | the same | `GlobalTime`: until process 0 has taken the unit of `sync` along nobody is ahead of the timer |
| `TheTimerNamesTheRunner`, `WhoIsReadyIsQueued`, `TheSignalIsFresh` | any processes, bursts and quanta | `OneRunner`, `ReadyIsQueued`, `SignalIsFresh`, which are about work in turn |
| `TheProcessesAreARoundRobin` | the same | in turn and until the unit is lost, `Scheduler` implements `RoundRobin` (`Refines`) |
| `OneStateAtATime` | any table, any lines | until a `#`, a `!`, a word typed ahead or SIGINT, one state at a time is concerned with the word |
| `RunDfaIsAutomaton` | the same | until then `RunDfa` implements `Automaton` |
| `AutomatonTypes` | any table, any lines, SIGINT at any time | the ranges; until `#`, `!` or a word typed ahead `cur_state` is a state's number |
| `AgentAndCustomersAgree` | any customers and tickets | `BothAgree`, when `Prompt` |
| `NeverOversold` | the same, either timing | the ranges: never more tickets are sold than there are, and only customers are answered |
| `RealImagesApart`, `ApartInTheProgram` | the constants of `LRU.c`, any radius up to 219, any frames | the pages of the two images are apart and within `PT`, pixel by pixel and in every state (`ImagesApart`) |
| `ListIsLRU` | any image, radius and frames, while every page accessed has an entry in `PT` | `LRU` implements `PageCache` |
| `ListTyped` | as for `ListIsLRU` | the ranges: no pointer and no entry of `PT` leads to an unused node |
| `ProgramIsLRU` | the constants of `LRU.c`, any radius up to 219 | `LRU` implements `PageCache`, without the condition |

The assumptions are those that the modules name (`FactoryAssumption`,
`LudoAssumption`, ...). They restrict only what the
programs are given as input, and the model's bounds.

**House.** The inductive invariant `IInv` is the conjunction of the types, the
mutex, the two counts and two strengthenings. `StateDescribed` splits
`HouseDescribed` into the facts one step at a time preserves (an empty house is
`EMPTY`, a visitor inside means its own kind's state); `StillHostile` says that a
visitor that has decided to wait (place `release`) does so in a house that is
still hostile, because it has the mutex: without it, it could fall asleep in an
empty house that nobody will signal, and `NoLostWakeup` would not be inductive.
The assumption `Cardinality(Visitors) <= SEMVMX` makes a broadcast with no token
left post at least one.

**Resource manager.** `HInv` is about the handshake: `Owners` (which places of
a worker mean that it has RMTX or AMTX), `FromHolder` (REQFROM is the holder of
RMTX while it waits for its acknowledgment), `ManagerServes` (while the manager
is between a request and its acknowledgment, that worker holds RMTX and either
holds AMTX or waits on ACND), and `LastOneOut` (NACTIVE counts the workers that
have not exited, so the dlhandler's quit meets no request under way). `SInv`
adds, under the timing assumption, that a worker between its lock and its signal
finds the manager waiting. `Grants` needs no timing: whoever has been told of a
grant, or is about to be, has a cleared request.

Unhurried, `Calm` follows the requests and the queue: `Plans` (what a worker drew
without a lock still fits), `AckFits` (the round that is acknowledged), `GrantMutex`
(who holds `WMTX[w]`), `QueueExact` (the queue has no double entry and holds who waits,
but for one that is just being taken out) and `NothingFits` (what the scan has passed
still cannot be granted). `Books` adds the ledger: AVAILABLE is the total less what is
held (`Conserved`), but for units on the way between the two.

`DetectionIsExact` is about a recursive function of passes, each a recursive function of
workers. Both are characterized by what they keep (`Returned`: Work is what is
available plus what the finished hold) and by what they stop at (nobody left
whose request fits); the set that is left is then the largest stuck set, from both
sides. The induction is over the number of passes, with the set of numbers at which
the claim holds (the library's rule with an operator cannot be used).

**Scheduler.** The proof is in layers, each using those before. `Typed` has the types
and which places go with a last burst that is over. `Waiting` (any interleaving): who is
in the queue is READY or about to write so, is on no way that leads into the queue, and
is there once; so `QueuedOnce` and, by counting, a place for each that is pushed.
`OneUnit` and `Timing` (any interleaving, until the unit of `sync` is lost): everyone's
clock is the timer's, less one if it still has this tick's window to pass.

`Turned` (work in turn): one process is in the middle of its work (`Alone`); its place
says what its state, the queue and `timer[1]` are (`Inside`); the others are as they were
after their own work (`InLoop`, `Whose`); and beside an idle CPU and a queue that is not
empty somebody is about to look (`SomebodyLooks`). It holds only together with
`Punctual`: a SIGUSR1 that has been received belongs to this tick and to who has the CPU
(`Fresh`), and for this the end of the quantum must be far enough away that the
signalled process has *seen* that it runs (`Due`): two ticks for one that was
dispatched in its nap and reads its state only in the next tick, one for one that has
read it, none once the signal is there (`Margin`). This is where the assumption of two
ticks per quantum is needed. That the unit is lost at all does no harm to `Turned`: it
is lost only after the clock has been advanced (`LostNext`), the timer waits for ever,
and no signal comes any more. It does break the clocks, and so the refinement: after it
a quantum would begin in a future that the timer never reaches.

The refinement maps a push to `Arrive`, `IoDone` or `Preempt`, `Release` to `Block` or
`Exit`, `Pop` to `Dispatch`, the timer's tick to `Tick`, and all else to nothing.
`Preempt` is by a process that left the loop in a tick that ends its quantum and is still
in that tick (`Overdue`), `Tick` needs `SomebodyLooks` and `Due`.

**Factory.** `IInv` adds to the types and `NoLostWakeup`: `Phases` (which places
of the workers go with which place of the manager, that is what the barriers
do), `Booked` (which car the day is about, and that it is still ordered) and
`DayOfCar` (`PSTAT` through the day: all pending, then pending exactly where
a worker still has the part before it, then all done). `FactoryMoves`
follows from the smallest pending part: its prerequisites are smaller, so done,
so its worker is not asleep on it, nor on a later part, as it takes its parts in
ascending order.

**Disk.** `IInv` follows a command from place to place: `Flow` (what the place
tells of the command), `Holds` (a new directory has its block until it is given
back, so that `freeblock` raises the count for a bit that was set), `Space` (what
`write_to_disk` has counted before its first block is still there before each
later one), `Source` (`copyfile` has a source block for each block it takes, so
that it never runs on as a `write_to_disk`) and `Parent` (the block of a new
directory is not its parent, so a parent that was a directory stays one). The kills need no
invariant of their own: a kill turns the difference due between two writes into
a lasting one.

`DInv`, for `OneOwner`, says who leads to what. The blocks a command has taken and not
yet entered are `Mine`; every other block that a name or a path can lead to is `Proper`
(a directory, or the first of a file, with no link leading to it). Every link leads to a
block of its own (`Links`), so two chains that begin differently never meet and none
comes back: a chain is a recursive function of the number of steps, and that two of
them are apart is an induction over it. `Heads` and `Entries` say that the chain of a
directory is as long as its size, and what its entries look like, `Apart` that no two
of them lead to the same block; `Progress` and `Extension` follow a command through
the writes at which these are almost true: the block that is linked before the entry
is in it, the entry that is in it before the size counts it. `resolve_path` is a recursion too: it
stays among proper blocks.

`Compact`, for `NothingLeaked`, adds that nothing comes after the last block of a
directory or of a file being written: so no link that is overwritten led anywhere.
`TypesKept` needs `Ranges`: `freeblock` gives back a unit of the count that was taken.

**Ludo.** `Baton` says that the move is in one place: a process asks for it, or its
signal is pending, or a player makes it, or the board draws, or the ACK is on its
way, and never two of these (`OneBaton`). While the processes start, the pipe
carries their pids in a fixed order (`PipeIs`). Words typed ahead do not
disturb it, because a wrong acknowledgment ends the game with the real one unread.
`NoSharedCell` follows with `Landing`: the cell that a player is about to step
on was free when it looked, and nobody else moves in between.

For the refinement, `Game` compares the cells with what was last drawn (`shown`): until
the move is drawn only the mover's cell may differ, and it is either still the old
one, or on a way of snakes and ladders that ends where the throw leads (`OnTheWay`), or
the result of the move (`Made`); and the parent knows who has finished, but for the
last mover (`Known`). The rules follow a slide to its end by a recursive function with
at most as many steps as there are cells; the players follow it one cell per step.
That the end of the way does not change along the way, circles included, is the lemma on
which the proof rests.

`Counted` is about `shm_players[n]`. A player steps on the last cell, then counts itself
out, then tells the board; `Placed` says that it is on that cell exactly in these
places. So the count is the number of players in `Uncounted`, except for one that is
killed between the two steps: then the count stays one too high, which nobody reads
any more. The coordinator reads the count at `ludo.c:212`, after an ACK.

**Automaton.** `Inv` describes the word in one of three places: TRANSITION is on its
way (`Called`), the state's number is in the coordinator's pipe (`Announced`), or
the symbol is in the state's pipe (`Sent`). Every other state is `Quiet`: it
waits, or has the end of an earlier word and nothing else in its pipe. The
conjunct about the `Called` state is the delicate one: the TRANSITION may stand
behind such an end. From `Inv`, each step of a process is a step of the automaton or
none.

**Booking.** `BookingInv` says that nobody or exactly one customer is being dealt with,
and then at which point: `Called`, `Asked`, `Left`, `Answered`, `Served`. All others are
`Quiet` (no signal, flag 0, counts equal), and the queue holds those present but
for this one. A granted customer is one ahead in the agent's count until it has
read its answer.

**Paging.** The list: `Listed(nd)` says that a sequence `nd` of nodes is the one along which
the pointers lead in both directions, and that `PT` points back (with one frame the
only node may be its own neighbour). Both ways to bring a node to the front change the
pointers as `Relink` says, and the new sequence is the old one with the node moved; so
the pages read along the list are, after an access, the page and then the others,
without the last if there are too many, which is what `PageCache` says.
`Blurring` says where the loops are and that every page still to be accessed is of the
right image (`Apart`). The accesses of a pixel are put together by recursive functions
over rows and columns (`Joined`); an induction over their length says that all of
them are pages of pixels in the window.

The images: `Window` bounds the window by the image and the radius, `AddressBounds` the
addresses of a pixel in each layout, and the rest is arithmetic: at row 1298 and
column 2138 every address is below 9998336, the start of page 2441.

## 15. What is only checked

* Liveness under fairness: `VisitEnds`, `SleepersWoken`, the three `Terminates`,
  `MoveAnswered`, `EverybodyLeaves`, `WordsAnswered`, `QuitEnds`,
  `EverybodyIsCalled`. It is out of the prover's reach.
* The refinement of `FileTree` by `VirtualDisk`: that the tree as it is shown changes
  by whole commands only. It is not yet proved.
* Lab 5 beyond the loss of the unit of `sync`: there `GlobalTime`, `Refines` and
  `Terminates` claim nothing (section 7).

Where the code computes by recursion (labs 4, 8, 9 and 10), the models use recursive
functions, and the proofs do their inductions over sets of numbers.

## 16. What is not modelled

* Lab 1: a depth-first search in which every process waits for the one child it
  has forked. One process acts at a time, the state is the path in `argv` and
  nothing is shared, so no interleaving and no failure path is left to check;
  what remains is a textbook recursion over graphs.
* Lab 2: printing. A run without `Prompt` can wait for ever at `agent.cpp:133`; no
  text of the repository speaks of it.
* Lab 3: the parsing of the table, which writes a row of s numbers into s bytes
  (`rundfa.cpp:98`; what `malloc` adds hides it for a few symbols); a word longer than
  `BUFF_SIZE`; the end of the terminal's input; a number typed ahead that is a sign
  without a digit (`scanf` consumes the sign); and, of the places `pipe_s` may be read at
  out of range, one that holds the descriptor of `pipe_c` itself.
* Lab 4: SIGINT (it only removes the shared memory), the command `delay`, words
  that are no command, boards with a ladder to the last cell: a player that
  lands there by a ladder is not counted as finished, and the game does not
  end. `LudoAssumption` excludes them.
* Lab 5: SIGINT, the IPC objects, sleeps that are not long against the work. The
  length of a burst in ticks is not checked: a process that is made ready and
  dispatched by another within one tick loses that tick (`process.c:161` reads the
  state before).
* Lab 6: SIGINT and the SEM_UNDO adjustments it triggers (`shared.c:119`), the
  creation and the removal of the IPC objects, `semWaitForZero` (never called).
* Lab 7: the shared print buffer (`work.c:128` writes it outside the mutex, so
  lines of output may be mixed).
* Lab 8: spurious wake-ups of `pthread_cond_wait` (the code has no loop around
  its waits); the partial vectors other threads could read while a generator
  writes its row.
* Lab 9: f = 0 (`LRU.c:43` then takes the node at the back of an empty list), radii
  for which the pages go beyond `PT`, the printed statistics.
* Lab 10: the bytes within a block and of a name, files whose data look like a
  directory, the disk after a write of `md` below a file or of `cp` to no path, the prompt, two shells at once (nothing is locked: they can take
  the same block).

## 17. Disagreements found

* `dfa_invalid`: `rundfa.cpp:304` says "Break if invalid input" and a message
  of `:311`, commented out, "Due to invalid input, starting again". The `#` that the state wrote (`:375`) stays in
  the coordinator's input: in the next word `scanf("%d")` fails on it without
  consuming it, `cur_state` stays 0, and the symbols go to state 0 whatever state
  is current.
* `scheduler_two_runners`: `manager.c:24` says that `timer[1]` is the running process
  or −1. A process writes READY into its entry after it has joined the queue,
  and looks at `timer[1]` before it schedules: when another schedules in between
  the word and the states disagree.
* `disk`: `md` below a file writes into the file's data. A comment of
  `createdirectory` (`diskutils.c:174`) says "Save the new directory as an entry into
  the parent directory", and `add_file_entry` refuses such a parent ("Parent block is
  not a directory", `diskutils.c:298`); `createdirectory` has no such test. The model
  reaches the place `wild` this way, in nine states; `StaysOnDisk`, which the run
  checks, says that a command with a directory as parent never does.
