--------------------------- MODULE ResourceManager ---------------------------
(***************************************************************************)
(* Lab 8 ("8 Lab"): the threads of the resource manager.  N workers send   *)
(* requests to the manager through the shared words REQFROM and REQTYPE    *)
(* under RMTX, are acknowledged through AMTX/ACND and told of a grant      *)
(* through WMTX/WCND; the dlhandler thread looks for deadlocks, preempts   *)
(* and grants by itself.  A step is a lock operation or the code between   *)
(* two places where another thread can tell the difference.                *)
(*                                                                         *)
(* SMTX needs no variable: the manager holds it everywhere but in its      *)
(* cond_wait (mpc "wait", or "woken" until it runs) and before it starts,  *)
(* the others hold it only within one step.  Spurious wake-ups of          *)
(* pthread_cond_wait are not modelled.                                     *)
(***************************************************************************)
EXTENDS Allocation

CONSTANTS R,          \* requests of each worker before its last release
          MaxUnits,   \* at most so many units of a type per request (code: 3)
          Timings     \* the values of unhurried to look at

NOBODY    == -1
DLHANDLER == N
MANAGER   == N + 1

ASSUME ManagerAssumption == /\ R \in Nat \ {0} /\ MaxUnits \in Nat \ {0}
                            /\ Timings \subseteq BOOLEAN

VARIABLES AVAILABLE, ALLOCATION, REQUEST, RELEASE,
          RQ, rq_size,            \* the queue of waiting workers
          REQFROM, REQTYPE,       \* the request the manager is to serve
          NACTIVE, STATUS,
          RMTX, AMTX, WMTX,       \* who holds each mutex
          pc, type, round,        \* a worker: place, kind of request, r
          mpc, i, cur,            \* the manager: place, serveRq's i and w
          dpc, q, dcur,           \* the dlhandler: place, its q and w
          unhurried               \* for the whole run: the threads come for
                                  \* RMTX only when the manager is back in its
                                  \* cond_wait, what the sleeps of worker.c and
                                  \* dlhandler.c make likely, no lock enforces

matrices == <<AVAILABLE, ALLOCATION, REQUEST, RELEASE>>
queue    == <<RQ, rq_size>>
words    == <<REQFROM, REQTYPE>>
active   == <<NACTIVE, STATUS, unhurried>>
locks    == <<RMTX, AMTX, WMTX>>
worker   == <<pc, type, round>>
manager  == <<mpc, i, cur>>
handler  == <<dpc, q, dcur>>
vars == <<matrices, queue, words, active, locks, worker, manager, handler>>

Slots == Workers

Init == /\ AVAILABLE  = TOTAL
        /\ ALLOCATION = [w \in Workers |-> Zero]
        /\ REQUEST    = [w \in Workers |-> Zero]
        /\ RELEASE    = [w \in Workers |-> Zero]
        /\ RQ = [k \in Slots |-> 0] /\ rq_size = 0   \* RQ is never read past rq_size
        /\ REQFROM = 0 /\ REQTYPE = "NONE"
        /\ NACTIVE = N /\ STATUS = [w \in Workers |-> "ACTIVE"]
        /\ RMTX = NOBODY /\ AMTX = NOBODY /\ WMTX = [w \in Workers |-> NOBODY]
        /\ pc = [w \in Workers |-> "gen"]
        /\ type = [w \in Workers |-> "ALLOCATE"]
        /\ round = [w \in Workers |-> 0]
        /\ mpc = "start" /\ i = 0 /\ cur = 0
        /\ dpc = "sleep" /\ q = 0 /\ dcur = 0
        /\ unhurried \in Timings

Goto(w, from, to)  == pc[w] = from /\ pc' = [pc EXCEPT ![w] = to]
Lock(m, thread)    == m = NOBODY /\ m' = thread
LockW(w, thread)   == WMTX[w] = NOBODY /\ WMTX' = [WMTX EXCEPT ![w] = thread]
UnlockW(w)         == WMTX' = [WMTX EXCEPT ![w] = NOBODY]

(* Mutants, here and below: a plausible bug in the definition that follows. *)
NoLockR(thread) == /\ RMTX' = thread                       \* no lock
                   /\ unhurried => mpc = "wait"

(* Taking RMTX, at the time the thread is assumed to come for it. *)
LockR(thread) == /\ Lock(RMTX, thread)
                 /\ unhurried => mpc = "wait"

(* SMTX taken, SCND signalled, SMTX given back: lost unless the manager is *)
(* in its cond_wait.                                                       *)
SignalManager == /\ mpc \in {"start", "wait", "woken"}
                 /\ mpc' = IF mpc = "wait" THEN "woken" ELSE mpc
                 /\ UNCHANGED <<i, cur>>

(* pthread_cond_signal on WCND[w]: lost unless w waits there. *)
Wake(w) == pc' = IF pc[w] = "grantwait" THEN [pc EXCEPT ![w] = "granted"] ELSE pc

canGrant(w) == Fits(REQUEST[w], AVAILABLE)

grantKeepingRequest(w) ==                                  \* REQUEST kept
  /\ AVAILABLE'  = Less(AVAILABLE, REQUEST[w])
  /\ ALLOCATION' = [ALLOCATION EXCEPT ![w] = Plus(@, REQUEST[w])]
  /\ UNCHANGED <<REQUEST, RELEASE>>

grantRequest(w) ==
  /\ AVAILABLE'  = Less(AVAILABLE, REQUEST[w])
  /\ ALLOCATION' = [ALLOCATION EXCEPT ![w] = Plus(@, REQUEST[w])]
  /\ REQUEST'    = [REQUEST EXCEPT ![w] = Zero]
  /\ RELEASE'    = RELEASE

Enqueue(w) == /\ rq_size' = rq_size + 1
              /\ RQ' = IF rq_size \in Slots THEN [RQ EXCEPT ![rq_size] = w] ELSE RQ

Dequeue(k) == /\ rq_size' = rq_size - 1
              /\ RQ' = [s \in Slots |-> IF s \in k .. rq_size - 2 THEN RQ[s+1] ELSE RQ[s]]
-----------------------------------------------------------------------------
(* genallocationreq and genreleasereq, without any lock: a vector that is  *)
(* not zero, at most what can exist, or what is held.  A round that starts *)
(* with a failed genallocationreq has cleared REQUEST[w] on the way.       *)
GenAllocation(w) ==
  /\ round[w] < R
  /\ \E v \in [Resources -> 0 .. MaxUnits] \ {Zero} :
        /\ Fits(v, Less(TOTAL, ALLOCATION[w]))
        /\ REQUEST' = [REQUEST EXCEPT ![w] = v]
  /\ Goto(w, "gen", "lock")
  /\ type' = [type EXCEPT ![w] = "ALLOCATE"]
  /\ UNCHANGED <<AVAILABLE, ALLOCATION, RELEASE, queue, words, active, locks, round, manager, handler>>

GenRelease(w) ==
  /\ round[w] \in 1 .. R - 1
  /\ \E v \in [Resources -> 0 .. Units(ALLOCATION[w])] \ {Zero} :
        /\ Fits(v, ALLOCATION[w])
        /\ RELEASE' = [RELEASE EXCEPT ![w] = v]
  /\ REQUEST' \in {REQUEST, [REQUEST EXCEPT ![w] = Zero]}
  /\ Goto(w, "gen", "lock")
  /\ type' = [type EXCEPT ![w] = "RELEASE"]
  /\ UNCHANGED <<AVAILABLE, ALLOCATION, queue, words, active, locks, round, manager, handler>>

(* The (R+1)-th request: give everything back, if there is anything.       *)
GenFinal(w) ==
  /\ round[w] = R
  /\ RELEASE' = [RELEASE EXCEPT ![w] = ALLOCATION[w]]
  /\ Goto(w, "gen", IF ALLOCATION[w] = Zero THEN "exit" ELSE "lock")
  /\ type' = [type EXCEPT ![w] = "FINAL"]
  /\ UNCHANGED <<AVAILABLE, ALLOCATION, REQUEST, queue, words, active, locks, round, manager, handler>>

LockRequest(w) ==
  /\ Goto(w, "lock", "publish")
  /\ LockR(w)
  /\ REQFROM' = w
  /\ UNCHANGED <<matrices, queue, REQTYPE, active, AMTX, WMTX, type, round, manager, handler>>

Publish(w) ==
  /\ Goto(w, "publish", "lockack")
  /\ REQTYPE' = IF type[w] = "FINAL" THEN "RELEASE" ELSE type[w]
  /\ UNCHANGED <<matrices, queue, REQFROM, active, locks, type, round, manager, handler>>

LockAckNot(w) ==                                           \* no lock of AMTX
  /\ Goto(w, "lockack", IF type[w] = "ALLOCATE" THEN "lockgrant" ELSE "signal")
  /\ UNCHANGED <<matrices, queue, words, active, locks, type, round, manager, handler>>

LockAck(w) ==
  /\ Goto(w, "lockack", IF type[w] = "ALLOCATE" THEN "lockgrant" ELSE "signal")
  /\ Lock(AMTX, w)
  /\ UNCHANGED <<matrices, queue, words, active, RMTX, WMTX, type, round, manager, handler>>

LockGrantNot(w) ==                                         \* no lock of WMTX
  /\ Goto(w, "lockgrant", "signal")
  /\ UNCHANGED <<matrices, queue, words, active, locks, type, round, manager, handler>>

LockGrant(w) ==
  /\ Goto(w, "lockgrant", "signal")
  /\ LockW(w, w)
  /\ UNCHANGED <<matrices, queue, words, active, RMTX, AMTX, type, round, manager, handler>>

Signal(w) ==
  /\ Goto(w, "signal", "acksleep")
  /\ SignalManager
  /\ UNCHANGED <<matrices, queue, words, active, locks, type, round, handler>>

(* pthread_cond_wait on ACND: gives AMTX back and waits.                   *)
AckSleep(w) ==
  /\ Goto(w, "acksleep", "ackwait")
  /\ AMTX' = NOBODY
  /\ UNCHANGED <<matrices, queue, words, active, RMTX, WMTX, type, round, manager, handler>>

(* Acknowledged: AMTX taken again, then RMTX and AMTX given back; an       *)
(* allocation still has to be granted, any other round ends here.          *)
Acked(w) ==
  /\ AMTX = NOBODY
  /\ Goto(w, "acked", CASE type[w] = "ALLOCATE" -> "grantsleep"
                        [] type[w] = "RELEASE"  -> "gen"
                        [] OTHER                -> "exit")
  /\ RMTX' = NOBODY
  /\ round' = IF type[w] = "RELEASE" THEN [round EXCEPT ![w] = @ + 1] ELSE round
  /\ UNCHANGED <<matrices, queue, words, active, AMTX, WMTX, type, manager, handler>>

GrantSleep(w) ==
  /\ Goto(w, "grantsleep", "grantwait")
  /\ UnlockW(w)
  /\ UNCHANGED <<matrices, queue, words, active, RMTX, AMTX, type, round, manager, handler>>

(* Woken on WCND[w]: WMTX[w] taken again and given back, next round.       *)
Granted(w) ==
  /\ WMTX[w] = NOBODY
  /\ Goto(w, "granted", "gen")
  /\ round' = [round EXCEPT ![w] = @ + 1]
  /\ UNCHANGED <<matrices, queue, words, active, locks, type, manager, handler>>

Exit(w) ==
  /\ RMTX = NOBODY
  /\ Goto(w, "exit", "done")
  /\ STATUS' = [STATUS EXCEPT ![w] = "EXITED"]
  /\ NACTIVE' = NACTIVE - 1
  /\ UNCHANGED <<matrices, queue, words, unhurried, locks, type, round, manager, handler>>

Worker(w) == \/ GenAllocation(w) \/ GenRelease(w) \/ GenFinal(w)
             \/ LockRequest(w) \/ Publish(w) \/ LockAck(w) \/ LockGrant(w)
             \/ Signal(w) \/ AckSleep(w) \/ Acked(w)
             \/ GrantSleep(w) \/ Granted(w) \/ Exit(w)
-----------------------------------------------------------------------------
MGoto(from, to) == mpc = from /\ mpc' = to

(* The manager has created the threads and waits on SCND.                  *)
Start == /\ MGoto("start", "wait")
         /\ UNCHANGED <<matrices, queue, words, active, locks, worker, i, cur, handler>>

(* Woken with SMTX: quit ...                                               *)
ServeQuit ==
  /\ REQTYPE = "QUIT"
  /\ MGoto("woken", "join")
  /\ UNCHANGED <<matrices, queue, words, active, locks, worker, i, cur, handler>>

(* ... take resources back, ...                                            *)
ServeRelease ==
  /\ REQTYPE = "RELEASE"
  /\ MGoto("woken", "ackrelease")
  /\ AVAILABLE'  = Plus(AVAILABLE, RELEASE[REQFROM])
  /\ ALLOCATION' = [ALLOCATION EXCEPT ![REQFROM] = Less(@, RELEASE[REQFROM])]
  /\ RELEASE'    = [RELEASE EXCEPT ![REQFROM] = Zero]
  /\ UNCHANGED <<REQUEST, queue, words, active, locks, worker, i, cur, handler>>

(* ... grant at once what fits and queue what does not, ...                *)
ServeGrant ==
  /\ REQTYPE = "ALLOCATE" /\ canGrant(REQFROM)
  /\ MGoto("woken", "ackgrant")
  /\ grantRequest(REQFROM)
  /\ UNCHANGED <<queue, words, active, locks, worker, i, cur, handler>>

ServeWait ==
  /\ REQTYPE = "ALLOCATE" /\ ~ canGrant(REQFROM)
  /\ MGoto("woken", "ackwait")
  /\ Enqueue(REQFROM)
  /\ UNCHANGED <<matrices, words, active, locks, worker, i, cur, handler>>

(* ... or do nothing, when REQTYPE was overwritten.                        *)
ServeNothing ==
  /\ REQTYPE = "NONE"
  /\ MGoto("woken", "clear")
  /\ UNCHANGED <<matrices, queue, words, active, locks, worker, i, cur, handler>>

(* AMTX, a signal on ACND, which wakes at most one worker, and unlock.     *)
AckTo(afterRelease, afterWait) ==
  /\ \/ MGoto("ackrelease", afterRelease)
     \/ MGoto("ackgrant", "lockwake")
     \/ MGoto("ackwait", afterWait)
  /\ AMTX = NOBODY
  /\ LET waiting == {w \in Workers : pc[w] = "ackwait"}
     IN  IF waiting = {} THEN pc' = pc
         ELSE \E w \in waiting : pc' = [pc EXCEPT ![w] = "acked"]
  /\ i' = 0
  /\ UNCHANGED <<matrices, queue, words, active, locks, type, round, cur, handler>>

AckNoServe  == AckTo("clear", "clear")                     \* no serveRq
AckThenWake == AckTo("serve", "lockwake")                  \* WCND[REQFROM] too

Ack == AckTo("serve", "clear")

(* The grant of ServeGrant is announced to REQFROM as it reads now; the    *)
(* unlock frees whatever mutex REQFROM names by then.                      *)
WakeLock ==
  /\ MGoto("lockwake", "wake")
  /\ LockW(REQFROM, MANAGER)
  /\ UNCHANGED <<matrices, queue, words, active, RMTX, AMTX, worker, i, cur, handler>>

WakeRequester ==
  /\ MGoto("wake", "clear")
  /\ Wake(REQFROM)
  /\ UnlockW(REQFROM)
  /\ UNCHANGED <<matrices, queue, words, active, RMTX, AMTX, type, round, i, cur, handler>>

(* serveRq: grant every queued request that fits, in the queue's order.    *)
ServeTest ==
  /\ mpc = "serve"
  /\ \/ i >= rq_size /\ mpc' = "clear" /\ UNCHANGED <<i, cur>>
     \/ /\ i < rq_size
        /\ cur' = RQ[i]
        /\ IF canGrant(RQ[i]) THEN mpc' = "servegrant" /\ i' = i
                              ELSE mpc' = "serve" /\ i' = i + 1
  /\ UNCHANGED <<matrices, queue, words, active, locks, worker, handler>>

ServeQueued ==
  /\ MGoto("servegrant", "dequeue")
  /\ grantRequest(cur)
  /\ UNCHANGED <<queue, words, active, locks, worker, i, cur, handler>>

ServeDequeueSkip ==                                        \* i++ after a grant
  /\ MGoto("dequeue", "servesignal")
  /\ Dequeue(i)
  /\ i' = i + 1
  /\ UNCHANGED <<matrices, words, active, locks, worker, cur, handler>>

ServeDequeue ==
  /\ MGoto("dequeue", "servesignal")
  /\ Dequeue(i)
  /\ UNCHANGED <<matrices, words, active, locks, worker, i, cur, handler>>

ServeSignal ==
  /\ MGoto("servesignal", "serve")
  /\ WMTX[cur] = NOBODY
  /\ Wake(cur)
  /\ UNCHANGED <<matrices, queue, words, active, locks, type, round, i, cur, handler>>

(* The end of the loop body, and the cond_wait that gives SMTX back.       *)
Clear ==
  /\ MGoto("clear", "wait")
  /\ REQTYPE' = "NONE"
  /\ UNCHANGED <<matrices, queue, REQFROM, active, locks, worker, i, cur, handler>>

Join ==
  /\ MGoto("join", "end")
  /\ \A w \in Workers : pc[w] = "done"
  /\ dpc = "end"
  /\ UNCHANGED <<matrices, queue, words, active, locks, worker, i, cur, handler>>

Manager == \/ Start \/ ServeQuit \/ ServeRelease \/ ServeGrant \/ ServeWait
           \/ ServeNothing \/ Ack \/ WakeLock \/ WakeRequester \/ ServeTest
           \/ ServeQueued \/ ServeDequeue \/ ServeSignal \/ Clear \/ Join
-----------------------------------------------------------------------------
DGoto(from, to) == dpc = from /\ dpc' = to

LockDetect ==
  /\ DGoto("sleep", IF NACTIVE = 0 THEN "quit" ELSE "detect")
  /\ LockR(DLHANDLER)
  /\ UNCHANGED <<matrices, queue, words, active, AMTX, WMTX, worker, manager, q, dcur>>

Quit ==
  /\ DGoto("quit", "quitsignal")
  /\ REQTYPE' = "QUIT"
  /\ UNCHANGED <<matrices, queue, REQFROM, active, locks, worker, manager, q, dcur>>

QuitSignal ==
  /\ DGoto("quitsignal", "end")
  /\ SignalManager
  /\ RMTX' = NOBODY
  /\ UNCHANGED <<matrices, queue, words, active, AMTX, WMTX, worker, q, dcur>>

Blocked == Unfinished(AVAILABLE, ALLOCATION, REQUEST, {w \in Workers : STATUS[w] = "EXITED"})

NoDeadlock ==
  /\ DGoto("detect", "sleep")
  /\ Blocked = {}
  /\ RMTX' = NOBODY
  /\ UNCHANGED <<matrices, queue, words, active, AMTX, WMTX, worker, manager, q, dcur>>

Preempt ==
  /\ DGoto("detect", "scan")
  /\ Blocked # {}
  /\ LET victim == Victim(ALLOCATION, Blocked)
     IN  /\ AVAILABLE'  = Plus(AVAILABLE, ALLOCATION[victim])
         /\ ALLOCATION' = [ALLOCATION EXCEPT ![victim] = Zero]
  /\ q' = 0
  /\ UNCHANGED <<REQUEST, RELEASE, queue, words, active, locks, worker, manager, dcur>>

(* The scan of the queue after a preemption, back to detection at its end. *)
ScanTest ==
  /\ dpc = "scan"
  /\ \/ q >= rq_size /\ dpc' = "detect" /\ UNCHANGED <<q, dcur>>
     \/ /\ q < rq_size
        /\ dcur' = RQ[q]
        /\ IF canGrant(RQ[q]) THEN dpc' = "scangrant" /\ q' = q
                              ELSE dpc' = "scan" /\ q' = q + 1
  /\ UNCHANGED <<matrices, queue, words, active, locks, worker, manager>>

ScanGrant ==
  /\ DGoto("scangrant", "scandequeue")
  /\ grantRequest(dcur)
  /\ UNCHANGED <<queue, words, active, locks, worker, manager, q, dcur>>

ScanDequeue ==
  /\ DGoto("scandequeue", "scansignal")
  /\ Dequeue(q)
  /\ UNCHANGED <<matrices, words, active, locks, worker, manager, q, dcur>>

ScanSignal ==
  /\ DGoto("scansignal", "scan")
  /\ WMTX[dcur] = NOBODY
  /\ Wake(dcur)
  /\ UNCHANGED <<matrices, queue, words, active, locks, type, round, manager, q, dcur>>

Handler == \/ LockDetect \/ Quit \/ QuitSignal \/ NoDeadlock \/ Preempt
           \/ ScanTest \/ ScanGrant \/ ScanDequeue \/ ScanSignal

Next == (\E w \in Workers : Worker(w)) \/ Manager \/ Handler

Spec == Init /\ [][Next]_vars

(* Every thread that can run does; a worker that waits for RMTX gets it,   *)
(* because the dlhandler sleeps a second between two detections.           *)
Fairness == /\ \A w \in Workers : SF_vars(Worker(w))
            /\ WF_vars(Manager) /\ WF_vars(Handler)

FairSpec == Spec /\ Fairness
-----------------------------------------------------------------------------
Vectors == [Resources -> Nat]
Kinds   == {"ALLOCATE", "RELEASE", "FINAL"}

WorkerPlaces  == {"gen", "lock", "publish", "lockack", "lockgrant", "signal",
                  "acksleep", "ackwait", "acked", "grantsleep", "grantwait",
                  "granted", "exit", "done"}
ManagerPlaces == {"start", "wait", "woken", "ackrelease", "ackgrant", "ackwait",
                  "lockwake", "wake", "serve", "servegrant", "dequeue",
                  "servesignal", "clear", "join", "end"}
HandlerPlaces == {"sleep", "quit", "quitsignal", "detect", "scan", "scangrant",
                  "scandequeue", "scansignal", "end"}

(* Every variable keeps its range; no vector ever has a negative entry,    *)
(* and the queue never outgrows the array malloc'ed for it.                *)
TypeOK ==
  /\ AVAILABLE \in Vectors
  /\ {ALLOCATION, REQUEST, RELEASE} \subseteq [Workers -> Vectors]
  /\ RQ \in [Slots -> Workers] /\ rq_size \in 0 .. N
  /\ REQFROM \in Workers /\ REQTYPE \in {"NONE", "ALLOCATE", "RELEASE", "QUIT"}
  /\ NACTIVE \in 0 .. N /\ STATUS \in [Workers -> {"ACTIVE", "EXITED"}]
  /\ RMTX \in {NOBODY, DLHANDLER} \cup Workers
  /\ AMTX \in {NOBODY} \cup Workers
  /\ WMTX \in [Workers -> {NOBODY, MANAGER} \cup Workers]
  /\ pc \in [Workers -> WorkerPlaces] /\ mpc \in ManagerPlaces /\ dpc \in HandlerPlaces
  /\ type \in [Workers -> Kinds] /\ round \in [Workers -> 0 .. R]
  /\ unhurried \in BOOLEAN
  /\ i \in 0 .. N /\ cur \in Workers /\ q \in 0 .. N /\ dcur \in Workers

Acking == {"ackrelease", "ackgrant", "ackwait"}

(* worker.c:69: the acknowledgment never goes unheard, and it goes to the  *)
(* worker whose request it answers: AMTX is taken before the manager is    *)
(* signalled and given back only by waiting.                               *)
AckIsHeard ==
  mpc \in Acking /\ AMTX = NOBODY =>
     pc[REQFROM] = "ackwait" /\ RMTX = REQFROM

(* worker.c:75: a worker goes on after "wait for allocation" only with its *)
(* request granted, whichever thread woke it.                              *)
WokenMeansGranted == \A w \in Workers : pc[w] = "granted" => REQUEST[w] = Zero

(* worker.c:55 "Lock RMTX to sequentialize manager requests": while a      *)
(* worker holds RMTX and waits for the acknowledgment, the shared words    *)
(* still say what it wrote there, until the manager has dealt with it.  It *)
(* takes the sleeps: the manager clears REQTYPE without RMTX.              *)
RequestStands ==
  unhurried => \A w \in Workers :
     pc[w] \in {"lockack", "lockgrant", "signal", "acksleep", "ackwait"} =>
        /\ REQFROM = w
        /\ REQTYPE = IF type[w] = "FINAL" THEN "RELEASE" ELSE type[w]

(* A grant is signalled only when the worker is already listening on its   *)
(* WCND or still holds its mutex: it is never lost.                        *)
GrantIsHeard == unhurried =>
  /\ mpc = "wake" => pc[REQFROM] = "grantwait"
  /\ mpc = "servesignal" /\ WMTX[cur] = NOBODY => pc[cur] = "grantwait"
  /\ dpc = "scansignal" /\ WMTX[dcur] = NOBODY => pc[dcur] = "grantwait"

(* The unlocked reads of ALLOCATION in the generators never go stale in a  *)
(* harmful way: until it is served, a release gives back only what is      *)
(* held, and a request asks only for what can exist.                       *)
PlansStayValid ==
  unhurried => \A w \in Workers :
     /\ Fits(RELEASE[w], ALLOCATION[w])
     /\ Fits(Plus(REQUEST[w], ALLOCATION[w]), TOTAL)
     /\ RELEASE[w] = Zero \/ REQUEST[w] = Zero

(* When nobody is at work on the queue, it holds exactly the workers that  *)
(* wait for an allocation, each once, and none of them could be granted:   *)
(* nobody is forgotten, and nobody waits for resources that lie idle.      *)
NobodyWaitsInVain ==
  unhurried /\ RMTX = NOBODY /\ mpc = "wait" =>
     /\ \A k, l \in 0 .. rq_size - 1 : RQ[k] = RQ[l] => k = l
     /\ {RQ[k] : k \in 0 .. rq_size - 1} =
          {w \in Workers : pc[w] \in {"grantsleep", "grantwait"} /\ REQUEST[w] # Zero}
     /\ \A k \in 0 .. rq_size - 1 : ~ canGrant(RQ[k])

(* The passes of dlhandler.c:31-48 find exactly the deadlocked workers, by *)
(* their definition over sets, in whatever order they let the others       *)
(* finish, and although those that exited count as finished.               *)
DetectionExact == Blocked = Deadlocked(AVAILABLE, ALLOCATION, REQUEST)

(* Unhurried threads implement the allocator.                              *)
Promise  == INSTANCE Allocator WITH alloc <- ALLOCATION, want <- REQUEST
Refines  == /\ unhurried => Promise!Init
            /\ [][unhurried => Promise!Next]_<<ALLOCATION, REQUEST>>

(* The program ends: every request is answered, if need be after a         *)
(* preemption, all workers leave, and the manager hears of it.             *)
Terminates == <>(mpc = "end")
=============================================================================
