------------------------ MODULE ResourceManager_proofs ------------------------
(***************************************************************************)
(* The handshake between the workers, the manager and the dlhandler of     *)
(* lab 8, for any number of threads and resources.                         *)
(***************************************************************************)
EXTENDS ResourceManager, FiniteSetTheorems, TLAPS

(* The places of a worker that holds RMTX, and AMTX. *)
HoldsR == {"publish", "lockack", "lockgrant", "signal", "acksleep", "ackwait", "acked"}
HoldsA == {"lockgrant", "signal", "acksleep"}

(* The types of what the handshake uses. *)
HandshakeTypes == /\ pc \in [Workers -> WorkerPlaces]
                  /\ mpc \in ManagerPlaces /\ dpc \in HandlerPlaces
                  /\ RMTX \in {NOBODY, DLHANDLER} \cup Workers
                  /\ AMTX \in {NOBODY} \cup Workers
                  /\ REQFROM \in Workers
                  /\ NACTIVE = Cardinality({w \in Workers : pc[w] # "done"})

(* The two mutexes are where the places say they are. *)
Owners == /\ \A w \in Workers : /\ pc[w] \in HoldsR <=> RMTX = w
                                /\ pc[w] \in HoldsA <=> AMTX = w
          /\ dpc \notin {"sleep", "end"} <=> RMTX = DLHANDLER

(* Once the dlhandler has seen the last worker go, nobody is left to send  *)
(* a request.                                                              *)
LastOneOut == /\ dpc \in {"quit", "quitsignal", "end"} =>
                    \A w \in Workers : pc[w] = "done"
              /\ dpc \in {"quitsignal", "end"} => REQTYPE \in {"QUIT", "NONE"}

(* REQFROM names the holder of RMTX, from the moment it has it. *)
FromHolder == \A w \in Workers : RMTX = w => REQFROM = w

(* The manager that was signalled and has not acknowledged yet works for   *)
(* the worker that holds RMTX and listens for it, or is about to.          *)
Served == /\ REQFROM = RMTX
          /\ pc[REQFROM] \in {"acksleep", "ackwait"}

ManagerServes ==
  /\ mpc \in Acking => Served
  /\ mpc = "woken" => Served \/ dpc = "end"

HInv == HandshakeTypes /\ Owners /\ LastOneOut /\ FromHolder /\ ManagerServes
-----------------------------------------------------------------------------
(* No worker is the dlhandler, and neither is nobody. *)
LEMMA Threads == /\ \A w \in Workers : w # NOBODY /\ w # DLHANDLER
                 /\ NOBODY # DLHANDLER
                 /\ IsFiniteSet(Workers) /\ Workers # {} /\ 0 \in Workers
                 /\ Cardinality(Workers) = N
<1>1. N \in Nat \ {0}
  BY AllocationAssumption
<1>2. IsFiniteSet(Workers) /\ Cardinality(Workers) = N
  BY <1>1, FS_Interval DEF Workers
<1>. QED
  BY <1>1, <1>2 DEF Workers, NOBODY, DLHANDLER

(* A step of a worker that is not its exit keeps the number of the active. *)
LEMMA StillActive ==
  ASSUME NEW w \in Workers, NEW from, NEW to, pc \in [Workers -> WorkerPlaces],
         Goto(w, from, to), from # "done", to # "done"
  PROVE  {v \in Workers : pc[v] # "done"}' = {v \in Workers : pc[v] # "done"}
BY DEF Goto

LEMMA HInit == Init => HInv
<1> SUFFICES ASSUME Init PROVE HInv
  OBVIOUS
<1>1. {w \in Workers : pc[w] # "done"} = Workers
  BY DEF Init
<1>2. HandshakeTypes
  BY <1>1, Threads DEF Init, HandshakeTypes, WorkerPlaces, ManagerPlaces, HandlerPlaces
<1>3. Owners
  BY Threads DEF Init, Owners, HoldsR, HoldsA
<1>. QED
  BY <1>2, <1>3, Threads DEF Init, HInv, LastOneOut, FromHolder, ManagerServes, Acking
-----------------------------------------------------------------------------
(* What every step has to show: Owners and ManagerServes are about the     *)
(* handshake, the rest follows from which variables move.                  *)

(* A worker step away from RMTX.                                           *)
LEMMA AwayStep ==
  ASSUME HInv, NEW w \in Workers, NEW from, NEW to \in WorkerPlaces,
         Goto(w, from, to),
         from \notin HoldsR \cup {"done"}, to \notin HoldsR \cup {"done"},
         UNCHANGED <<RMTX, AMTX, mpc, dpc, words, NACTIVE>>
  PROVE  HInv'
<1> USE DEF HoldsR, HoldsA
<1>0. HandshakeTypes /\ Owners /\ LastOneOut /\ FromHolder /\ ManagerServes
  BY DEF HInv
<1>1. {v \in Workers : pc[v] # "done"}' = {v \in Workers : pc[v] # "done"}
  BY <1>0, StillActive DEF HandshakeTypes
<1>2. pc' \in [Workers -> WorkerPlaces] /\ \A v \in Workers : v # w => pc'[v] = pc[v]
  BY <1>0 DEF HandshakeTypes, Goto
<1>3. pc[w] = from /\ pc'[w] = to
  BY <1>0 DEF HandshakeTypes, Goto
<1>4. HandshakeTypes'
  BY <1>0, <1>1, <1>2 DEF HandshakeTypes, words
<1>5. Owners'
  BY <1>0, <1>2, <1>3 DEF Owners
<1>6. LastOneOut' /\ FromHolder'
  BY <1>0, <1>3 DEF LastOneOut, FromHolder, words
<1>7. Served => Served'
  BY <1>0, <1>2, <1>3 DEF Served, HandshakeTypes, words
<1>8. ManagerServes'
  BY <1>0, <1>7 DEF ManagerServes
<1>. QED
  BY <1>4, <1>5, <1>6, <1>8 DEF HInv

(* A step of the manager away from the handshake.                          *)
LEMMA ManagerStep ==
  ASSUME HInv, mpc' \in ManagerPlaces \ (Acking \cup {"woken"}),
         UNCHANGED <<pc, RMTX, AMTX, dpc, REQFROM, NACTIVE>>,
         REQTYPE' \in {REQTYPE, "NONE"}
  PROVE  HInv'
BY DEF HInv, HandshakeTypes, Owners, LastOneOut, FromHolder, ManagerServes

(* A step of the dlhandler while it has RMTX.                              *)
LEMMA HandlerStep ==
  ASSUME HInv, dpc \notin {"sleep", "quit", "quitsignal", "end"},
         dpc' \in HandlerPlaces \ {"sleep", "quit", "quitsignal", "end"},
         UNCHANGED <<pc, RMTX, AMTX, mpc, words, NACTIVE>>
  PROVE  HInv'
BY DEF HInv, HandshakeTypes, Owners, LastOneOut, FromHolder, ManagerServes, Served, words

(* A wake-up on a WCND, by the manager or the dlhandler, whose own place   *)
(* may move as in the two lemmas above.                                    *)
LEMMA WakeStep ==
  ASSUME HInv, NEW w, Wake(w), UNCHANGED <<RMTX, AMTX, words, NACTIVE>>,
         \/ mpc' \in ManagerPlaces \ (Acking \cup {"woken"}) /\ dpc' = dpc
         \/ /\ dpc \notin {"sleep", "quit", "quitsignal", "end"}
            /\ dpc' \in HandlerPlaces \ {"sleep", "quit", "quitsignal", "end"}
            /\ mpc' = mpc
  PROVE  HInv'
<1> USE DEF HoldsR, HoldsA
<1>0. HandshakeTypes /\ Owners /\ LastOneOut /\ FromHolder /\ ManagerServes
  BY DEF HInv
<1>1. pc' \in [Workers -> WorkerPlaces]
  BY <1>0 DEF Wake, HandshakeTypes, WorkerPlaces
<1>2. \A v \in Workers : \/ pc'[v] = pc[v]
                         \/ pc[v] = "grantwait" /\ pc'[v] = "granted"
  BY <1>0 DEF Wake, HandshakeTypes
<1>3. {v \in Workers : pc[v] # "done"}' = {v \in Workers : pc[v] # "done"}
  BY <1>2
<1>4. HandshakeTypes'
  BY <1>0, <1>1, <1>3 DEF HandshakeTypes, words
<1>5. Owners'
  BY <1>0, <1>2 DEF Owners
<1>6. LastOneOut' /\ FromHolder'
  BY <1>0, <1>2 DEF LastOneOut, FromHolder, words
<1>7. Served => Served'
  BY <1>0, <1>2 DEF Served, HandshakeTypes, words
<1>8. ManagerServes'
  BY <1>0, <1>7 DEF ManagerServes
<1>. QED
  BY <1>4, <1>5, <1>6, <1>8 DEF HInv

(* The steps of a worker from taking RMTX to giving it back.               *)
LEMMA RequestSteps ==
  ASSUME HInv, NEW w \in Workers,
         \/ LockRequest(w) \/ Publish(w) \/ LockAck(w) \/ LockGrant(w)
         \/ Signal(w) \/ AckSleep(w) \/ Acked(w)
  PROVE  HInv'
<1> USE DEF HoldsR, HoldsA
<1>0. HandshakeTypes /\ Owners /\ LastOneOut /\ FromHolder /\ ManagerServes
  BY DEF HInv
<1>1. CASE LockRequest(w)
  <2>1. /\ pc[w] \in {"lock"} /\ pc'[w] \in {"publish"}
        /\ pc' \in [Workers -> WorkerPlaces]
        /\ \A v \in Workers : v # w => pc'[v] = pc[v]
    BY <1>0, <1>1 DEF LockRequest, Goto, HandshakeTypes, WorkerPlaces, Kinds
  <2>2. {v \in Workers : pc[v] # "done"}' = {v \in Workers : pc[v] # "done"}
    BY <2>1
  <2>3. HandshakeTypes'
    BY <1>0, <1>1, <2>1, <2>2, Threads
       DEF LockRequest, HandshakeTypes, SignalManager, Lock, LockR, ManagerPlaces, manager, handler, words, active, locks
  <2>4. Owners'
    BY <1>0, <1>1, <2>1, Threads
       DEF LockRequest, Owners, Lock, LockR, HandshakeTypes, manager, handler, locks
  <2>5. LastOneOut' /\ FromHolder'
    BY <1>0, <1>1, <2>1, Threads
       DEF LockRequest, LastOneOut, FromHolder, Owners, HandshakeTypes, Lock, LockR, manager, handler, words, locks
  <2>6. ManagerServes'
    BY <1>0, <1>1, <2>1, Threads
       DEF LockRequest, ManagerServes, Served, Owners, FromHolder, HandshakeTypes, Lock, LockR, SignalManager, Acking, manager, handler, words, locks
  <2>. QED
    BY <2>3, <2>4, <2>5, <2>6 DEF HInv
<1>2. CASE Publish(w)
  <2>1. /\ pc[w] \in {"publish"} /\ pc'[w] \in {"lockack"}
        /\ pc' \in [Workers -> WorkerPlaces]
        /\ \A v \in Workers : v # w => pc'[v] = pc[v]
    BY <1>0, <1>2 DEF Publish, Goto, HandshakeTypes, WorkerPlaces, Kinds
  <2>2. {v \in Workers : pc[v] # "done"}' = {v \in Workers : pc[v] # "done"}
    BY <2>1
  <2>3. HandshakeTypes'
    BY <1>0, <1>2, <2>1, <2>2, Threads
       DEF Publish, HandshakeTypes, SignalManager, Lock, LockR, ManagerPlaces, manager, handler, words, active, locks
  <2>4. Owners'
    BY <1>0, <1>2, <2>1, Threads
       DEF Publish, Owners, Lock, LockR, HandshakeTypes, manager, handler, locks
  <2>5. LastOneOut' /\ FromHolder'
    BY <1>0, <1>2, <2>1, Threads
       DEF Publish, LastOneOut, FromHolder, Owners, HandshakeTypes, Lock, LockR, manager, handler, words, locks
  <2>6. ManagerServes'
    BY <1>0, <1>2, <2>1, Threads
       DEF Publish, ManagerServes, Served, Owners, FromHolder, HandshakeTypes, Lock, LockR, SignalManager, Acking, manager, handler, words, locks
  <2>. QED
    BY <2>3, <2>4, <2>5, <2>6 DEF HInv
<1>3. CASE LockAck(w)
  <2>1. /\ pc[w] \in {"lockack"} /\ pc'[w] \in {"lockgrant", "signal"}
        /\ pc' \in [Workers -> WorkerPlaces]
        /\ \A v \in Workers : v # w => pc'[v] = pc[v]
    BY <1>0, <1>3 DEF LockAck, Goto, HandshakeTypes, WorkerPlaces, Kinds
  <2>2. {v \in Workers : pc[v] # "done"}' = {v \in Workers : pc[v] # "done"}
    BY <2>1
  <2>3. HandshakeTypes'
    BY <1>0, <1>3, <2>1, <2>2, Threads
       DEF LockAck, HandshakeTypes, SignalManager, Lock, LockR, ManagerPlaces, manager, handler, words, active, locks
  <2>4. Owners'
    BY <1>0, <1>3, <2>1, Threads
       DEF LockAck, Owners, Lock, LockR, HandshakeTypes, manager, handler, locks
  <2>5. LastOneOut' /\ FromHolder'
    BY <1>0, <1>3, <2>1, Threads
       DEF LockAck, LastOneOut, FromHolder, Owners, HandshakeTypes, Lock, LockR, manager, handler, words, locks
  <2>6. ManagerServes'
    BY <1>0, <1>3, <2>1, Threads
       DEF LockAck, ManagerServes, Served, Owners, FromHolder, HandshakeTypes, Lock, LockR, SignalManager, Acking, manager, handler, words, locks
  <2>. QED
    BY <2>3, <2>4, <2>5, <2>6 DEF HInv
<1>4. CASE LockGrant(w)
  <2>1. /\ pc[w] \in {"lockgrant"} /\ pc'[w] \in {"signal"}
        /\ pc' \in [Workers -> WorkerPlaces]
        /\ \A v \in Workers : v # w => pc'[v] = pc[v]
    BY <1>0, <1>4 DEF LockGrant, Goto, HandshakeTypes, WorkerPlaces, Kinds
  <2>2. {v \in Workers : pc[v] # "done"}' = {v \in Workers : pc[v] # "done"}
    BY <2>1
  <2>3. HandshakeTypes'
    BY <1>0, <1>4, <2>1, <2>2, Threads
       DEF LockGrant, HandshakeTypes, SignalManager, Lock, LockR, ManagerPlaces, manager, handler, words, active, locks
  <2>4. Owners'
    BY <1>0, <1>4, <2>1, Threads
       DEF LockGrant, Owners, Lock, LockR, HandshakeTypes, manager, handler, locks
  <2>5. LastOneOut' /\ FromHolder'
    BY <1>0, <1>4, <2>1, Threads
       DEF LockGrant, LastOneOut, FromHolder, Owners, HandshakeTypes, Lock, LockR, manager, handler, words, locks
  <2>6. ManagerServes'
    BY <1>0, <1>4, <2>1, Threads
       DEF LockGrant, ManagerServes, Served, Owners, FromHolder, HandshakeTypes, Lock, LockR, SignalManager, Acking, manager, handler, words, locks
  <2>. QED
    BY <2>3, <2>4, <2>5, <2>6 DEF HInv
<1>5. CASE Signal(w)
  <2>1. /\ pc[w] \in {"signal"} /\ pc'[w] \in {"acksleep"}
        /\ pc' \in [Workers -> WorkerPlaces]
        /\ \A v \in Workers : v # w => pc'[v] = pc[v]
    BY <1>0, <1>5 DEF Signal, Goto, HandshakeTypes, WorkerPlaces, Kinds
  <2>2. {v \in Workers : pc[v] # "done"}' = {v \in Workers : pc[v] # "done"}
    BY <2>1
  <2>3. HandshakeTypes'
    BY <1>0, <1>5, <2>1, <2>2, Threads
       DEF Signal, HandshakeTypes, SignalManager, Lock, LockR, ManagerPlaces, manager, handler, words, active, locks
  <2>4. Owners'
    BY <1>0, <1>5, <2>1, Threads
       DEF Signal, Owners, Lock, LockR, HandshakeTypes, manager, handler, locks
  <2>5. LastOneOut' /\ FromHolder'
    BY <1>0, <1>5, <2>1, Threads
       DEF Signal, LastOneOut, FromHolder, Owners, HandshakeTypes, Lock, LockR, manager, handler, words, locks
  <2>6. ManagerServes'
    BY <1>0, <1>5, <2>1, Threads
       DEF Signal, ManagerServes, Served, Owners, FromHolder, HandshakeTypes, Lock, LockR, SignalManager, Acking, manager, handler, words, locks
  <2>. QED
    BY <2>3, <2>4, <2>5, <2>6 DEF HInv
<1>6. CASE AckSleep(w)
  <2>1. /\ pc[w] \in {"acksleep"} /\ pc'[w] \in {"ackwait"}
        /\ pc' \in [Workers -> WorkerPlaces]
        /\ \A v \in Workers : v # w => pc'[v] = pc[v]
    BY <1>0, <1>6 DEF AckSleep, Goto, HandshakeTypes, WorkerPlaces, Kinds
  <2>2. {v \in Workers : pc[v] # "done"}' = {v \in Workers : pc[v] # "done"}
    BY <2>1
  <2>3. HandshakeTypes'
    BY <1>0, <1>6, <2>1, <2>2, Threads
       DEF AckSleep, HandshakeTypes, SignalManager, Lock, LockR, ManagerPlaces, manager, handler, words, active, locks
  <2>4. Owners'
    BY <1>0, <1>6, <2>1, Threads
       DEF AckSleep, Owners, Lock, LockR, HandshakeTypes, manager, handler, locks
  <2>5. LastOneOut' /\ FromHolder'
    BY <1>0, <1>6, <2>1, Threads
       DEF AckSleep, LastOneOut, FromHolder, Owners, HandshakeTypes, Lock, LockR, manager, handler, words, locks
  <2>6. ManagerServes'
    BY <1>0, <1>6, <2>1, Threads
       DEF AckSleep, ManagerServes, Served, Owners, FromHolder, HandshakeTypes, Lock, LockR, SignalManager, Acking, manager, handler, words, locks
  <2>. QED
    BY <2>3, <2>4, <2>5, <2>6 DEF HInv
<1>7. CASE Acked(w)
  <2>1. /\ pc[w] \in {"acked"} /\ pc'[w] \in {"grantsleep", "gen", "exit"}
        /\ pc' \in [Workers -> WorkerPlaces]
        /\ \A v \in Workers : v # w => pc'[v] = pc[v]
    BY <1>0, <1>7 DEF Acked, Goto, HandshakeTypes, WorkerPlaces, Kinds
  <2>2. {v \in Workers : pc[v] # "done"}' = {v \in Workers : pc[v] # "done"}
    BY <2>1
  <2>3. HandshakeTypes'
    BY <1>0, <1>7, <2>1, <2>2, Threads
       DEF Acked, HandshakeTypes, SignalManager, Lock, LockR, ManagerPlaces, manager, handler, words, active, locks
  <2>4. Owners'
    BY <1>0, <1>7, <2>1, Threads
       DEF Acked, Owners, Lock, LockR, HandshakeTypes, manager, handler, locks
  <2>5. LastOneOut' /\ FromHolder'
    BY <1>0, <1>7, <2>1, Threads
       DEF Acked, LastOneOut, FromHolder, Owners, HandshakeTypes, Lock, LockR, manager, handler, words, locks
  <2>6. ManagerServes'
    BY <1>0, <1>7, <2>1, Threads
       DEF Acked, ManagerServes, Served, Owners, FromHolder, HandshakeTypes, Lock, LockR, SignalManager, Acking, manager, handler, words, locks
  <2>. QED
    BY <2>3, <2>4, <2>5, <2>6 DEF HInv
<1>. QED
  BY <1>1, <1>2, <1>3, <1>4, <1>5, <1>6, <1>7

(* A worker leaves: one active worker less.                                *)
LEMMA ExitStep ==
  ASSUME HInv, NEW w \in Workers, Exit(w)
  PROVE  HInv'
<1> USE DEF HoldsR, HoldsA
<1>0. HandshakeTypes /\ Owners /\ LastOneOut /\ FromHolder /\ ManagerServes
  BY DEF HInv
<1>1. /\ pc[w] = "exit" /\ pc'[w] = "done" /\ pc' \in [Workers -> WorkerPlaces]
      /\ \A v \in Workers : v # w => pc'[v] = pc[v]
  BY <1>0 DEF Exit, Goto, HandshakeTypes, WorkerPlaces
<1> DEFINE act == {v \in Workers : pc[v] # "done"}
<1>2. act' = act \ {w} /\ w \in act
  BY <1>1
<1>3. IsFiniteSet(act)
  BY Threads, FS_Subset
<1>4. Cardinality(act)' = Cardinality(act) - 1
  BY <1>2, <1>3, FS_RemoveElement
<1>. HIDE DEF act
<1>5. NACTIVE' = Cardinality(act)'
  BY <1>0, <1>4 DEF HandshakeTypes, Exit, act
<1>6. HandshakeTypes'
  BY <1>0, <1>1, <1>5 DEF Exit, HandshakeTypes, manager, handler, words, locks, act
<1>7. Owners'
  BY <1>0, <1>1, Threads DEF Exit, Owners, handler, locks
<1>8. LastOneOut' /\ FromHolder'
  BY <1>0, <1>1 DEF Exit, LastOneOut, FromHolder, handler, words, locks
<1>9. ManagerServes'
  BY <1>0, <1>1, Threads
     DEF Exit, ManagerServes, Served, HandshakeTypes, manager, handler, words, locks
<1>. QED
  BY <1>6, <1>7, <1>8, <1>9 DEF HInv

(* The manager reads the request of the worker that holds RMTX: after the  *)
(* quit signal there is none.                                              *)
LEMMA ServeSteps ==
  ASSUME HInv, ServeRelease \/ ServeGrant \/ ServeWait
  PROVE  HInv'
<1>1. mpc = "woken" /\ mpc' \in Acking /\ REQTYPE \in {"RELEASE", "ALLOCATE"}
  BY DEF ServeRelease, ServeGrant, ServeWait, MGoto, Acking
<1>2. UNCHANGED <<pc, RMTX, AMTX, dpc, REQFROM, REQTYPE, NACTIVE>>
  BY DEF ServeRelease, ServeGrant, ServeWait, words, active, locks, worker, handler
<1>3. Served
  BY <1>1 DEF HInv, ManagerServes, LastOneOut
<1>. QED
  BY <1>1, <1>2, <1>3 DEF HInv, HandshakeTypes, Owners, LastOneOut, FromHolder,
     ManagerServes, Served, Acking, ManagerPlaces

(* The acknowledgment.                                                     *)
LEMMA AckStep ==
  ASSUME HInv, Ack
  PROVE  HInv'
<1> USE DEF HoldsR, HoldsA
<1>0. HandshakeTypes /\ Owners /\ LastOneOut /\ FromHolder /\ ManagerServes
  BY DEF HInv
<1>1. /\ mpc' \in {"serve", "lockwake", "clear"}
      /\ UNCHANGED <<RMTX, AMTX, dpc, REQFROM, REQTYPE, NACTIVE>>
  BY DEF Ack, AckTo, MGoto, words, active, locks, handler
<1>2. \A v \in Workers : \/ pc'[v] = pc[v]
                         \/ pc[v] = "ackwait" /\ pc'[v] = "acked"
  BY <1>0 DEF Ack, AckTo, HandshakeTypes
<1>3. pc' \in [Workers -> WorkerPlaces]
  BY <1>0 DEF Ack, AckTo, HandshakeTypes, WorkerPlaces
<1>4. {v \in Workers : pc[v] # "done"}' = {v \in Workers : pc[v] # "done"}
  BY <1>2
<1>5. HandshakeTypes'
  BY <1>0, <1>1, <1>3, <1>4 DEF HandshakeTypes, ManagerPlaces
<1>6. Owners' /\ LastOneOut' /\ FromHolder'
  BY <1>0, <1>1, <1>2 DEF Owners, LastOneOut, FromHolder
<1>7. ManagerServes'
  BY <1>1 DEF ManagerServes, Acking
<1>. QED
  BY <1>5, <1>6, <1>7 DEF HInv

(* The steps of the dlhandler that take RMTX or give it back.              *)
LEMMA LockSteps ==
  ASSUME HInv, LockDetect \/ Quit \/ QuitSignal \/ NoDeadlock
  PROVE  HInv'
<1> USE DEF HoldsR, HoldsA
<1>0. HandshakeTypes /\ Owners /\ LastOneOut /\ FromHolder /\ ManagerServes
  BY DEF HInv
<1>1. CASE LockDetect
  <2>1. NACTIVE = 0 => \A v \in Workers : pc[v] = "done"
    <3> DEFINE act == {v \in Workers : pc[v] # "done"}
    <3>1. IsFiniteSet(act)
      BY Threads, FS_Subset
    <3>2. Cardinality(act) = 0 <=> act = {}
      BY <3>1, FS_EmptySet
    <3>. QED
      BY <1>0, <3>2 DEF HandshakeTypes
  <2>. QED
    BY <1>0, <1>1, <2>1, Threads
       DEF HInv, HandshakeTypes, Owners, LastOneOut, FromHolder, ManagerServes, Served,
           LockDetect, DGoto, LockR, Lock, HandlerPlaces, words, active, worker, manager
<1>2. CASE Quit
  BY <1>0, <1>2, Threads
     DEF HInv, HandshakeTypes, Owners, LastOneOut, FromHolder, ManagerServes, Served,
         Quit, DGoto, HandlerPlaces, active, locks, worker, manager
<1>3. CASE QuitSignal
  BY <1>0, <1>3, Threads
     DEF HInv, HandshakeTypes, Owners, LastOneOut, FromHolder, ManagerServes, Served,
         QuitSignal, DGoto, SignalManager, HandlerPlaces, ManagerPlaces, Acking, words, active, worker
<1>4. CASE NoDeadlock
  BY <1>0, <1>4, Threads
     DEF HInv, HandshakeTypes, Owners, LastOneOut, FromHolder, ManagerServes, Served,
         NoDeadlock, DGoto, HandlerPlaces, words, active, worker, manager
<1>. QED
  BY <1>1, <1>2, <1>3, <1>4

(* The invariant is inductive.                                             *)
LEMMA HNext == HInv /\ [Next]_vars => HInv'
<1> SUFFICES ASSUME HInv, [Next]_vars PROVE HInv'
  OBVIOUS
<1>1. ASSUME NEW w \in Workers, Worker(w) PROVE HInv'
  <2>1. CASE GenAllocation(w)
    BY <2>1, AwayStep DEF GenAllocation, HoldsR, WorkerPlaces, active, locks, manager, handler
  <2>2. CASE GenRelease(w)
    BY <2>2, AwayStep DEF GenRelease, HoldsR, WorkerPlaces, active, locks, manager, handler
  <2>3. CASE GenFinal(w)
    <3>1. Goto(w, "gen", "exit") \/ Goto(w, "gen", "lock")
      BY <2>3 DEF GenFinal
    <3>. QED
      BY <2>3, <3>1, AwayStep DEF GenFinal, HoldsR, WorkerPlaces, active, locks, manager, handler
  <2>4. CASE GrantSleep(w)
    BY <2>4, AwayStep DEF GrantSleep, HoldsR, WorkerPlaces, active, manager, handler
  <2>5. CASE Granted(w)
    BY <2>5, AwayStep DEF Granted, HoldsR, WorkerPlaces, active, locks, manager, handler
  <2>. QED
    BY <1>1, <2>1, <2>2, <2>3, <2>4, <2>5, RequestSteps, ExitStep DEF Worker
<1>2. CASE Manager
  <2> USE DEF MGoto, ManagerPlaces, Acking, words, active, locks, worker, handler
  <2>1. CASE Start \/ ServeQuit \/ ServeNothing \/ WakeLock
    BY <2>1, ManagerStep DEF Start, ServeQuit, ServeNothing, WakeLock
  <2>2. CASE ServeTest \/ ServeQueued \/ ServeDequeue \/ Clear \/ Join
    BY <2>2, ManagerStep DEF ServeTest, ServeQueued, ServeDequeue, Clear, Join
  <2>3. CASE WakeRequester
    BY <2>3, WakeStep DEF WakeRequester
  <2>4. CASE ServeSignal
    BY <2>4, WakeStep DEF ServeSignal
  <2>. QED
    BY <1>2, <2>1, <2>2, <2>3, <2>4, ServeSteps, AckStep DEF Manager
<1>3. CASE Handler
  <2> USE DEF DGoto, HandlerPlaces, words, active, locks, worker, manager
  <2>1. CASE Preempt \/ ScanTest \/ ScanGrant \/ ScanDequeue
    BY <2>1, HandlerStep DEF Preempt, ScanTest, ScanGrant, ScanDequeue
  <2>2. CASE ScanSignal
    BY <2>2, WakeStep DEF ScanSignal
  <2>. QED
    BY <1>3, <2>1, <2>2, LockSteps DEF Handler
<1>4. CASE UNCHANGED vars
  BY <1>4 DEF vars, worker, manager, handler, words, active, locks, HInv,
     HandshakeTypes, Owners, LastOneOut, FromHolder, ManagerServes, Served
<1>. QED
  BY <1>1, <1>2, <1>3, <1>4 DEF Next

LEMMA Handshake == Spec => []HInv
  BY HInit, HNext, PTL DEF Spec
-----------------------------------------------------------------------------
(* Every acknowledgment is heard, by the worker it is for, in every order  *)
(* of the threads: whatever the timing.                                    *)
THEOREM AckHeard == Spec => []AckIsHeard
<1>1. HInv => AckIsHeard
  <2> SUFFICES ASSUME HInv, mpc \in Acking, AMTX = NOBODY
               PROVE  pc[REQFROM] = "ackwait" /\ RMTX = REQFROM
    BY DEF AckIsHeard
  <2>1. Served /\ REQFROM \in Workers
    BY DEF HInv, ManagerServes, HandshakeTypes
  <2>2. pc[REQFROM] # "acksleep"
    BY <2>1, Threads DEF HInv, Owners, HoldsA
  <2>. QED
    BY <2>1, <2>2 DEF Served
<1>. QED
  BY <1>1, Handshake, PTL
-----------------------------------------------------------------------------
(* With every thread unhurried, the manager is in its cond_wait whenever   *)
(* RMTX is held and no request is signalled, and before its acknowledgment *)
(* from the signal on.                                                     *)
Before == {"publish", "lockack", "lockgrant", "signal"}
After  == {"acksleep", "ackwait"}

ManagerWaits == /\ RMTX = DLHANDLER => mpc = "wait"
                /\ \A w \in Workers : /\ pc[w] \in Before => mpc = "wait"
                                      /\ pc[w] \in After => mpc \in Acking \cup {"woken"}

Stands == HInv /\ type \in [Workers -> Kinds] /\ ManagerWaits /\ RequestStands

SInv == unhurried => Stands

LEMMA SInit == Init => SInv
<1> SUFFICES ASSUME Init PROVE SInv
  OBVIOUS
<1>. QED
  BY HInit, Threads DEF Init, SInv, Stands, ManagerWaits, RequestStands, Kinds, Before, After

LEMMA SWorker ==
  ASSUME unhurried, Stands, NEW w \in Workers, Worker(w)
  PROVE  type' \in [Workers -> Kinds] /\ ManagerWaits' /\ RequestStands'
<1> USE DEF Before, After, HoldsR
<1>0. /\ HandshakeTypes /\ Owners /\ FromHolder
      /\ type \in [Workers -> Kinds] /\ ManagerWaits /\ RequestStands
  BY DEF Stands, HInv
<1>1. type' \in [Workers -> Kinds]
  BY <1>0 DEF Worker, GenAllocation, GenRelease, GenFinal, LockRequest, Publish, LockAck,
     LockGrant, Signal, AckSleep, Acked, GrantSleep, Granted, Exit, Kinds
<1>2. /\ \A v \in Workers : v # w => pc'[v] = pc[v]
      /\ \A v \in Workers : v # w /\ pc[w] \in HoldsR => pc[v] \notin HoldsR
  BY <1>0, Threads DEF Worker, GenAllocation, GenRelease, GenFinal, LockRequest, Publish,
     LockAck, LockGrant, Signal, AckSleep, Acked, GrantSleep, Granted, Exit, Goto,
     HandshakeTypes, Owners
<1>3. CASE \/ GenAllocation(w) \/ GenRelease(w) \/ GenFinal(w)
           \/ GrantSleep(w) \/ Granted(w) \/ Exit(w)
  <2>1. /\ pc[w] \notin HoldsR /\ pc'[w] \notin HoldsR
        /\ UNCHANGED <<RMTX, mpc, REQFROM, REQTYPE>>
        /\ \A v \in Workers : v # w => type'[v] = type[v]
    BY <1>0, <1>3 DEF GenAllocation, GenRelease, GenFinal, GrantSleep, Granted, Exit, Goto,
       HandshakeTypes, locks, manager, words
  <2>. QED
    BY <1>0, <1>1, <1>2, <2>1 DEF ManagerWaits, RequestStands
<1>4. CASE LockRequest(w)
  <2>1. /\ mpc = "wait" /\ mpc' = mpc /\ RMTX = NOBODY /\ RMTX' = w
        /\ pc'[w] = "publish"
    BY <1>0, <1>4 DEF LockRequest, LockR, Lock, Goto, HandshakeTypes, manager
  <2>2. \A v \in Workers : v # w => pc[v] \notin HoldsR
    BY <1>0, <2>1, Threads DEF Owners
  <2>. QED
    BY <1>1, <1>2, <2>1, <2>2, Threads DEF ManagerWaits, RequestStands, Acking
<1>5. CASE Publish(w)
  <2>1. /\ pc[w] = "publish" /\ pc'[w] = "lockack" /\ REQFROM = w
        /\ REQTYPE' = IF type[w] = "FINAL" THEN "RELEASE" ELSE type[w]
        /\ UNCHANGED <<RMTX, mpc, REQFROM, type>>
    BY <1>0, <1>5 DEF Publish, Goto, HandshakeTypes, Owners, FromHolder, locks, manager
  <2>. QED
    BY <1>0, <1>1, <1>2, <2>1 DEF ManagerWaits, RequestStands
<1>6. CASE LockAck(w) \/ LockGrant(w) \/ AckSleep(w)
  <2>1. /\ pc[w] \in HoldsR \ {"publish", "acked"} /\ pc'[w] \in HoldsR \ {"publish", "acked"}
        /\ pc[w] \in Before <=> pc'[w] \in Before
        /\ UNCHANGED <<RMTX, mpc, REQFROM, REQTYPE, type>>
    BY <1>0, <1>6 DEF LockAck, LockGrant, AckSleep, Goto, HandshakeTypes, words, manager
  <2>. QED
    BY <1>0, <1>1, <1>2, <2>1 DEF ManagerWaits, RequestStands
<1>7. CASE Signal(w)
  <2>1. /\ pc[w] = "signal" /\ pc'[w] = "acksleep" /\ mpc = "wait" /\ mpc' = "woken"
        /\ UNCHANGED <<RMTX, REQFROM, REQTYPE, type>>
    BY <1>0, <1>7 DEF Signal, SignalManager, ManagerWaits, Goto, HandshakeTypes, words, locks
  <2>2. RMTX # DLHANDLER
    BY <1>0, <2>1, Threads DEF Owners
  <2>. QED
    BY <1>0, <1>1, <1>2, <2>1, <2>2 DEF ManagerWaits, RequestStands
<1>8. CASE Acked(w)
  <2>1. /\ pc[w] = "acked" /\ pc'[w] \notin HoldsR /\ RMTX' = NOBODY
        /\ UNCHANGED <<mpc, REQFROM, REQTYPE, type>>
    BY <1>0, <1>8 DEF Acked, Goto, HandshakeTypes, words, manager
  <2>. QED
    BY <1>0, <1>1, <1>2, <2>1, Threads DEF ManagerWaits, RequestStands
<1>. QED
  BY <1>3, <1>4, <1>5, <1>6, <1>7, <1>8 DEF Worker

LEMMA SManager ==
  ASSUME unhurried, Stands, Manager
  PROVE  type' \in [Workers -> Kinds] /\ ManagerWaits' /\ RequestStands'
<1> USE DEF Before, After, HoldsR, MGoto, Acking
<1>0. /\ HandshakeTypes /\ Owners /\ FromHolder /\ ManagerServes
      /\ type \in [Workers -> Kinds] /\ ManagerWaits /\ RequestStands
  BY DEF Stands, HInv
<1>1. type' = type /\ RMTX' = RMTX /\ REQFROM' = REQFROM
  <2>1. CASE Start \/ ServeQuit \/ ServeNothing \/ Join \/ Clear
    BY <2>1 DEF Start, ServeQuit, ServeNothing, Join, Clear, worker, words, locks
  <2>2. CASE ServeRelease \/ ServeGrant \/ ServeWait
    BY <2>2 DEF ServeRelease, ServeGrant, ServeWait, worker, words, locks
  <2>3. CASE Ack \/ WakeLock \/ WakeRequester
    BY <2>3 DEF Ack, AckTo, WakeLock, WakeRequester, worker, words, locks
  <2>4. CASE ServeTest \/ ServeQueued \/ ServeDequeue \/ ServeSignal
    BY <2>4 DEF ServeTest, ServeQueued, ServeDequeue, ServeSignal, worker, words, locks
  <2>. QED
    BY <2>1, <2>2, <2>3, <2>4 DEF Manager
<1>2. CASE Start
  BY <1>0, <1>1, <1>2 DEF Start, ManagerWaits, RequestStands, worker, words
<1>3. CASE ServeQuit \/ ServeNothing
  <2>1. \A w \in Workers : pc[w] \notin After
    BY <1>0, <1>3 DEF ServeQuit, ServeNothing, RequestStands, Kinds
  <2>. QED
    BY <1>0, <1>1, <1>3, <2>1
       DEF ServeQuit, ServeNothing, ManagerWaits, RequestStands, worker, words
<1>4. CASE ServeRelease \/ ServeGrant \/ ServeWait
  BY <1>0, <1>1, <1>4
     DEF ServeRelease, ServeGrant, ServeWait, ManagerWaits, RequestStands, worker, words
<1>5. CASE Ack
  <2>1. mpc \in Acking /\ AMTX = NOBODY /\ REQTYPE' = REQTYPE
    BY <1>5 DEF Ack, AckTo, words
  <2>2. /\ REQFROM \in Workers /\ RMTX = REQFROM
        /\ pc[REQFROM] = "ackwait"
    BY <1>0, <2>1, Threads DEF ManagerServes, Served, HandshakeTypes, Owners, HoldsA
  <2>3. \A w \in Workers : pc[w] \in HoldsR => w = REQFROM
    BY <1>0, <2>2 DEF Owners
  <2>4. pc' = [pc EXCEPT ![REQFROM] = "acked"]
    BY <1>5, <2>2, <2>3 DEF Ack, AckTo
  <2>5. \A w \in Workers : pc'[w] \notin Before \cup After
    BY <1>0, <2>3, <2>4 DEF HandshakeTypes
  <2>. QED
    BY <1>0, <1>1, <2>2, <2>5, Threads DEF ManagerWaits, RequestStands
<1>6. CASE \/ WakeLock \/ WakeRequester \/ ServeTest \/ ServeQueued
           \/ ServeDequeue \/ ServeSignal \/ Clear \/ Join
  <2>1. mpc \notin Acking \cup {"wait", "woken"}
    BY <1>6 DEF WakeLock, WakeRequester, ServeTest, ServeQueued, ServeDequeue,
       ServeSignal, Clear, Join
  <2>2. RMTX # DLHANDLER /\ \A w \in Workers : pc[w] \notin Before \cup After
    BY <1>0, <2>1 DEF ManagerWaits
  <2>3. \A w \in Workers : pc'[w] \in Before \cup After => pc[w] \in Before \cup After
    BY <1>0, <1>6 DEF WakeLock, WakeRequester, ServeTest, ServeQueued, ServeDequeue,
       ServeSignal, Clear, Join, Wake, HandshakeTypes, worker
  <2>. QED
    BY <1>0, <1>1, <2>2, <2>3 DEF ManagerWaits, RequestStands
<1>. QED
  BY <1>2, <1>3, <1>4, <1>5, <1>6 DEF Manager

LEMMA SHandler ==
  ASSUME unhurried, Stands, Handler
  PROVE  type' \in [Workers -> Kinds] /\ ManagerWaits' /\ RequestStands'
<1> USE DEF Before, After, HoldsR, DGoto
<1>0. /\ HandshakeTypes /\ Owners
      /\ type \in [Workers -> Kinds] /\ ManagerWaits /\ RequestStands
  BY DEF Stands, HInv
<1>1. type' = type
  BY DEF Handler, LockDetect, Quit, QuitSignal, NoDeadlock, Preempt, ScanTest,
     ScanGrant, ScanDequeue, ScanSignal, worker
<1>2. CASE LockDetect
  <2>1. mpc = "wait" /\ UNCHANGED <<pc, mpc, REQFROM, REQTYPE>>
    BY <1>2 DEF LockDetect, LockR, worker, words, manager
  <2>. QED
    BY <1>0, <1>1, <2>1 DEF ManagerWaits, RequestStands
<1>3. CASE ~ LockDetect
  <2>1. RMTX = DLHANDLER /\ mpc = "wait"
    BY <1>0, <1>3 DEF Handler, Quit, QuitSignal, NoDeadlock, Preempt, ScanTest,
       ScanGrant, ScanDequeue, ScanSignal, Owners, ManagerWaits
  <2>2. \A w \in Workers : pc[w] \notin HoldsR
    BY <1>0, <2>1, Threads DEF Owners
  <2>3. \A w \in Workers : pc'[w] \in HoldsR => pc[w] \in HoldsR
    BY <1>0, <1>3 DEF Handler, Quit, QuitSignal, NoDeadlock, Preempt, ScanTest,
       ScanGrant, ScanDequeue, ScanSignal, Wake, HandshakeTypes, worker
  <2>4. RMTX' = NOBODY \/ mpc' = mpc
    BY <1>3 DEF Handler, Quit, QuitSignal, NoDeadlock, Preempt, ScanTest,
       ScanGrant, ScanDequeue, ScanSignal, manager
  <2>. QED
    BY <1>1, <1>0, <2>1, <2>2, <2>3, <2>4, Threads DEF ManagerWaits, RequestStands
<1>. QED
  BY <1>2, <1>3

LEMMA SNext == HInv /\ SInv /\ [Next]_vars => SInv'
<1> SUFFICES ASSUME HInv, SInv, [Next]_vars, unhurried' PROVE Stands'
  BY DEF SInv
<1>1. HInv'
  BY HNext
<1>2. CASE Next
  <2>1. unhurried' = unhurried
    <3>1. ASSUME NEW w \in Workers, Worker(w) PROVE unhurried' = unhurried
      BY <3>1 DEF Worker, GenAllocation, GenRelease, GenFinal, LockRequest, Publish, LockAck,
         LockGrant, Signal, AckSleep, Acked, GrantSleep, Granted, Exit, active
    <3>2. CASE Manager
      BY <3>2 DEF Manager, Start, ServeQuit, ServeRelease, ServeGrant, ServeWait, ServeNothing,
         Ack, AckTo, WakeLock, WakeRequester, ServeTest, ServeQueued, ServeDequeue, ServeSignal,
         Clear, Join, active
    <3>3. CASE Handler
      BY <3>3 DEF Handler, LockDetect, Quit, QuitSignal, NoDeadlock, Preempt, ScanTest,
         ScanGrant, ScanDequeue, ScanSignal, active
    <3>. QED
      BY <1>2, <3>1, <3>2, <3>3 DEF Next
  <2>2. unhurried /\ Stands
    BY <2>1 DEF SInv
  <2>. QED
    BY <1>1, <1>2, <2>2, SWorker, SManager, SHandler DEF Next, Stands
<1>3. CASE UNCHANGED vars
  <2>1. UNCHANGED <<pc, type, REQFROM, REQTYPE, RMTX, mpc, unhurried>>
    BY <1>3 DEF vars, worker, words, active, locks, manager
  <2>. QED
    BY <1>1, <2>1 DEF SInv, Stands, ManagerWaits, RequestStands
<1>. QED
  BY <1>2, <1>3

(* worker.c:55: RMTX does sequentialize the requests in every run whose    *)
(* threads come for it only when the manager is back in its cond_wait.     *)
THEOREM Sequentialized == Spec => []RequestStands
<1>1. SInv => RequestStands
  BY DEF SInv, Stands, RequestStands
<1>. QED
  BY <1>1, HInit, HNext, SInit, SNext, PTL DEF Spec
-----------------------------------------------------------------------------
(* A grant: whoever is told of it, and listens for it already, has had its *)
(* request cleared, and stays like this until it is told; a worker that    *)
(* could ask for more first has to signal the manager.                     *)
Listening == {"acksleep", "ackwait", "acked", "grantsleep", "grantwait"}

Answered(w) == pc[w] \in Listening => REQUEST[w] = Zero

Told(w) == \/ mpc \in {"ackgrant", "lockwake", "wake"} /\ w = REQFROM
           \/ mpc \in {"dequeue", "servesignal"} /\ w = cur
           \/ dpc \in {"scandequeue", "scansignal"} /\ w = dcur

Grants == /\ REQUEST \in [Workers -> Vectors]
          /\ \A w \in Workers : /\ Told(w) => Answered(w)
                                /\ pc[w] = "granted" => REQUEST[w] = Zero

LEMMA ZeroVector == Zero \in Vectors
  BY DEF Zero, Vectors

LEMMA GrantsInit == Init => Grants
  BY ZeroVector DEF Init, Grants, Told

LEMMA GrantsWorker ==
  ASSUME HInv, Grants, NEW w \in Workers, Worker(w)
  PROVE  Grants'
<1> USE DEF Listening
<1>0. /\ HandshakeTypes /\ Owners /\ REQUEST \in [Workers -> Vectors]
      /\ dpc' = dpc /\ dcur' = dcur /\ cur' = cur
  BY DEF HInv, Grants, Worker, GenAllocation, GenRelease, GenFinal, LockRequest, Publish, LockAck,
     LockGrant, Signal, AckSleep, Acked, GrantSleep, Granted, Exit, handler, manager, SignalManager
<1>1. \A v \in Workers : v # w => pc'[v] = pc[v]
  BY <1>0 DEF Worker, GenAllocation, GenRelease, GenFinal, LockRequest, Publish, LockAck,
     LockGrant, Signal, AckSleep, Acked, GrantSleep, Granted, Exit, Goto, HandshakeTypes
<1>2. CASE GenAllocation(w) \/ GenRelease(w) \/ GenFinal(w)
  <2>1. /\ REQUEST' \in [Workers -> Vectors] /\ pc'[w] \in {"lock", "exit"}
        /\ \A v \in Workers : v # w => REQUEST'[v] = REQUEST[v]
        /\ UNCHANGED <<mpc, REQFROM>>
    <3>1. CASE GenAllocation(w)
      BY <1>0, <3>1 DEF GenAllocation, Goto, HandshakeTypes, Vectors, words, manager
    <3>2. CASE GenRelease(w)
      BY <1>0, <3>2, ZeroVector DEF GenRelease, Goto, HandshakeTypes, words, manager
    <3>3. CASE GenFinal(w)
      BY <1>0, <3>3 DEF GenFinal, Goto, HandshakeTypes, words, manager
    <3>. QED
      BY <1>2, <3>1, <3>2, <3>3
  <2>. QED
    BY <1>0, <1>1, <2>1 DEF Grants, Told, Answered
<1>3. CASE LockRequest(w)
  <2>1. pc'[w] = "publish" /\ REQFROM' = w /\ REQUEST' = REQUEST /\ mpc' = mpc
    BY <1>0, <1>3 DEF LockRequest, Goto, HandshakeTypes, matrices, manager
  <2>. QED
    BY <1>0, <1>1, <2>1 DEF Grants, Told, Answered
<1>4. CASE Signal(w)
  <2>1. /\ REQUEST' = REQUEST /\ pc[w] = "signal" /\ pc'[w] = "acksleep"
        /\ mpc \in {"start", "wait", "woken"} /\ mpc' \in {"start", "wait", "woken"}
        /\ dpc \notin {"scandequeue", "scansignal"}
    BY <1>0, <1>4, Threads DEF Signal, SignalManager, Goto, HandshakeTypes, matrices, Owners, HoldsR
  <2>. QED
    BY <1>0, <1>1, <2>1 DEF Grants, Told, Answered
<1>5. CASE \/ Publish(w) \/ LockAck(w) \/ LockGrant(w) \/ AckSleep(w) \/ Acked(w)
           \/ GrantSleep(w) \/ Granted(w) \/ Exit(w)
  <2>1. /\ REQUEST' = REQUEST /\ mpc' = mpc /\ REQFROM' = REQFROM
        /\ pc'[w] \in Listening => pc[w] \in Listening
        /\ pc'[w] # "granted"
    BY <1>0, <1>5 DEF Publish, LockAck, LockGrant, AckSleep, Acked, GrantSleep, Granted, Exit,
       Goto, HandshakeTypes, matrices, manager, words
  <2>. QED
    BY <1>0, <1>1, <2>1 DEF Grants, Told, Answered
<1>. QED
  BY <1>2, <1>3, <1>4, <1>5 DEF Worker

(* What a grant leaves of the requests.                                    *)
LEMMA GrantRequests ==
  ASSUME REQUEST \in [Workers -> Vectors], NEW w, grantRequest(w)
  PROVE  /\ REQUEST' \in [Workers -> Vectors]
         /\ \A v \in Workers : REQUEST'[v] = IF v = w THEN Zero ELSE REQUEST[v]
BY ZeroVector DEF grantRequest

LEMMA GrantsManager ==
  ASSUME HInv, Grants, Manager
  PROVE  Grants'
<1> USE DEF Listening, MGoto
<1>0. /\ HandshakeTypes /\ REQUEST \in [Workers -> Vectors]
      /\ dpc' = dpc /\ dcur' = dcur /\ REQFROM' = REQFROM
  BY DEF HInv, Grants, Manager, Start, ServeQuit, ServeRelease, ServeGrant, ServeWait, ServeNothing,
     Ack, AckTo, WakeLock, WakeRequester, ServeTest, ServeQueued, ServeDequeue, ServeSignal,
     Clear, Join, words, handler
<1>1. CASE \/ Start \/ ServeQuit \/ ServeRelease \/ ServeWait \/ ServeNothing
           \/ ServeTest \/ Clear \/ Join
  <2>1. /\ REQUEST' = REQUEST /\ pc' = pc
        /\ mpc' \notin {"ackgrant", "lockwake", "wake", "dequeue", "servesignal"}
    BY <1>1 DEF Start, ServeQuit, ServeRelease, ServeWait, ServeNothing, ServeTest, Clear, Join,
       matrices, worker
  <2>. QED
    BY <1>0, <2>1 DEF Grants, Told, Answered
<1>2. CASE ServeGrant
  <2>1. pc' = pc /\ mpc' = "ackgrant" /\ grantRequest(REQFROM)
    BY <1>2 DEF ServeGrant, worker
  <2>. QED
    BY <1>0, <2>1, GrantRequests DEF Grants, Told, Answered
<1>3. CASE ServeQueued
  <2>1. pc' = pc /\ mpc' = "dequeue" /\ grantRequest(cur) /\ cur' = cur
    BY <1>3 DEF ServeQueued, worker
  <2>. QED
    BY <1>0, <2>1, GrantRequests DEF Grants, Told, Answered
<1>4. CASE Ack
  <2>1. /\ REQUEST' = REQUEST
        /\ \/ mpc = "ackgrant" /\ mpc' = "lockwake"
           \/ mpc' \in {"serve", "clear"}
    BY <1>4 DEF Ack, AckTo, matrices
  <2>2. \A v \in Workers : \/ pc'[v] = pc[v]
                           \/ pc[v] = "ackwait" /\ pc'[v] = "acked"
    BY <1>0, <1>4 DEF Ack, AckTo, HandshakeTypes
  <2>. QED
    BY <1>0, <2>1, <2>2 DEF Grants, Told, Answered
<1>5. CASE WakeLock \/ ServeDequeue
  <2>1. /\ REQUEST' = REQUEST /\ pc' = pc /\ cur' = cur
        /\ \/ mpc = "lockwake" /\ mpc' = "wake"
           \/ mpc = "dequeue" /\ mpc' = "servesignal"
    BY <1>5 DEF WakeLock, ServeDequeue, matrices, worker
  <2>. QED
    BY <1>0, <2>1 DEF Grants, Told, Answered
<1>6. CASE WakeRequester \/ ServeSignal
  <2>1. /\ REQUEST' = REQUEST /\ cur' = cur /\ mpc' \in {"clear", "serve"}
        /\ \A v \in Workers : \/ pc'[v] = pc[v]
                              \/ pc[v] = "grantwait" /\ pc'[v] = "granted" /\ Told(v)
    BY <1>0, <1>6 DEF WakeRequester, ServeSignal, Wake, matrices, HandshakeTypes, Told
  <2>. QED
    BY <1>0, <2>1 DEF Grants, Told, Answered
<1>. QED
  BY <1>1, <1>2, <1>3, <1>4, <1>5, <1>6 DEF Manager

LEMMA GrantsHandler ==
  ASSUME HInv, Grants, Handler
  PROVE  Grants'
<1> USE DEF Listening, DGoto
<1>0. /\ HandshakeTypes /\ REQUEST \in [Workers -> Vectors]
      /\ REQFROM' = REQFROM /\ cur' = cur
      /\ mpc' = mpc \/ mpc' \notin {"ackgrant", "lockwake", "wake", "dequeue", "servesignal"}
  BY DEF HInv, Grants, Handler, LockDetect, Quit, QuitSignal, NoDeadlock, Preempt, ScanTest,
     ScanGrant, ScanDequeue, ScanSignal, SignalManager, words, manager
<1>1. CASE \/ LockDetect \/ Quit \/ QuitSignal \/ NoDeadlock \/ Preempt \/ ScanTest
  <2>1. REQUEST' = REQUEST /\ pc' = pc /\ dpc' \notin {"scandequeue", "scansignal"}
    BY <1>1 DEF LockDetect, Quit, QuitSignal, NoDeadlock, Preempt, ScanTest, matrices, worker
  <2>. QED
    BY <1>0, <2>1 DEF Grants, Told, Answered
<1>2. CASE ScanGrant
  <2>1. pc' = pc /\ grantRequest(dcur) /\ dcur' = dcur
    BY <1>2 DEF ScanGrant, worker
  <2>. QED
    BY <1>0, <2>1, GrantRequests DEF Grants, Told, Answered
<1>3. CASE ScanDequeue
  <2>1. REQUEST' = REQUEST /\ pc' = pc /\ dcur' = dcur /\ dpc = "scandequeue"
    BY <1>3 DEF ScanDequeue, matrices, worker
  <2>. QED
    BY <1>0, <2>1 DEF Grants, Told, Answered
<1>4. CASE ScanSignal
  <2>1. /\ REQUEST' = REQUEST /\ dcur' = dcur /\ dpc' = "scan"
        /\ \A v \in Workers : \/ pc'[v] = pc[v]
                              \/ pc[v] = "grantwait" /\ pc'[v] = "granted" /\ Told(v)
    BY <1>0, <1>4 DEF ScanSignal, Wake, matrices, HandshakeTypes, Told
  <2>. QED
    BY <1>0, <2>1 DEF Grants, Told, Answered
<1>. QED
  BY <1>1, <1>2, <1>3, <1>4 DEF Handler

LEMMA GrantsNext == HInv /\ Grants /\ [Next]_vars => Grants'
<1> SUFFICES ASSUME HInv, Grants, [Next]_vars PROVE Grants'
  OBVIOUS
<1>1. CASE UNCHANGED vars
  BY <1>1 DEF vars, worker, manager, handler, words, matrices, Grants, Told, Answered
<1>. QED
  BY <1>1, GrantsWorker, GrantsManager, GrantsHandler DEF Next

(* worker.c:75: no worker goes on without its grant, in every order of the *)
(* threads: whoever woke it granted its request first, and it has not      *)
(* asked for anything else since.                                          *)
THEOREM WokenGranted == Spec => []WokenMeansGranted
<1>1. Grants => WokenMeansGranted
  BY DEF Grants, WokenMeansGranted
<1>. QED
  BY <1>1, HInit, HNext, GrantsInit, GrantsNext, PTL DEF Spec
-----------------------------------------------------------------------------
(* Vectors, compared and added entry by entry.                             *)
LEMMA VectorFacts ==
  /\ TOTAL \in Vectors /\ Zero \in Vectors
  /\ \A u, v \in Vectors : /\ Plus(u, v) \in Vectors
                           /\ Plus(u, v) = Plus(v, u)
                           /\ Plus(Zero, u) = u
                           /\ Fits(Zero, u) /\ Fits(u, u)
                           /\ Fits(v, u) => Less(u, v) \in Vectors /\ Fits(Less(u, v), u)
  /\ \A t, u, v \in Vectors : /\ Fits(u, Less(t, v)) => Fits(Plus(u, v), t)
                              /\ Fits(v, u) /\ Fits(t, v) => Fits(t, u)
<1>1. TOTAL \in Vectors /\ Zero \in Vectors
  BY AllocationAssumption, ZeroVector DEF Vectors
<1>2. ASSUME NEW u \in Vectors, NEW v \in Vectors
      PROVE  /\ Plus(u, v) \in Vectors
             /\ Plus(u, v) = Plus(v, u)
             /\ Plus(Zero, u) = u
             /\ Fits(Zero, u) /\ Fits(u, u)
             /\ Fits(v, u) => Less(u, v) \in Vectors /\ Fits(Less(u, v), u)
  BY DEF Vectors, Plus, Less, Zero, Fits
<1>3. ASSUME NEW t \in Vectors, NEW u \in Vectors, NEW v \in Vectors
      PROVE  /\ Fits(u, Less(t, v)) => Fits(Plus(u, v), t)
             /\ Fits(v, u) /\ Fits(t, v) => Fits(t, u)
  BY DEF Vectors, Plus, Less, Fits
<1>. QED
  BY <1>1, <1>2, <1>3

(* What fits beside more fits beside less.                                 *)
LEMMA FitsBeside ==
  ASSUME NEW u \in Vectors, NEW a \in Vectors, NEW b \in Vectors,
         Fits(Plus(u, a), TOTAL), Fits(b, a)
  PROVE  Fits(Plus(u, b), TOTAL)
BY AllocationAssumption DEF Vectors, Plus, Fits
-----------------------------------------------------------------------------
(* Recursive functions.  Induction up to n, over sets of numbers:          *)
LEMMA UpTo ==
  ASSUME NEW n \in Nat, NEW P, 0 \in P,
         \A k \in 1 .. n : k - 1 \in P => k \in P
  PROVE  \A k \in 0 .. n : k \in P
<1> DEFINE B == {k \in 0 .. n : k \notin P}
<1> SUFFICES ASSUME B # {} PROVE FALSE
  OBVIOUS
<1>1. B \subseteq Nat
  OBVIOUS
<1>2. PICK p \in B : \A k \in B : ~ (<<k, p>> \in OpToRel(<, Nat))
  BY <1>1, NatLessThanWellFounded, WFMin
<1>3. \A k \in B : ~ (k < p)
  <2>1. \A k \in B : k \in Nat /\ p \in Nat
    BY <1>1
  <2>. QED
    BY <1>2, <2>1, Zenon DEF OpToRel
<1>4. p \in 1 .. n /\ p - 1 \in 0 .. n /\ p - 1 < p
  OBVIOUS
<1>5. p - 1 \notin B
  BY <1>3, <1>4
<1>. QED
  BY <1>4, <1>5

(* A function whose value at k follows from its value at k-1.              *)
Unrolls(f, T, a, n, g) == /\ f \in [0 .. n -> T]
                          /\ f[0] = a
                          /\ \A k \in 1 .. n : f[k] = g[<<f[k-1], k>>]

LEMMA Recursion ==
  ASSUME NEW T, NEW a \in T, NEW n \in Nat, NEW g \in [T \X (1 .. n) -> T]
  PROVE  \E f : Unrolls(f, T, a, n, g)
<1> DEFINE Upto(m) == \E f \in [0 .. m -> T] :
                         f[0] = a /\ \A k \in 1 .. m : f[k] = g[<<f[k-1], k>>]
           P == {m \in 0 .. n : Upto(m)}
<1>1. 0 \in P
  <2> DEFINE f == [k \in 0 .. 0 |-> a]
  <2>1. f \in [0 .. 0 -> T] /\ f[0] = a /\ \A k \in 1 .. 0 : f[k] = g[<<f[k-1], k>>]
    OBVIOUS
  <2>2. Upto(0)
    BY <2>1
  <2>. QED
    BY <2>2
<1>2. ASSUME NEW m \in 1 .. n, m - 1 \in P PROVE m \in P
  <2>1. PICK e \in [0 .. m - 1 -> T] :
           e[0] = a /\ \A k \in 1 .. m - 1 : e[k] = g[<<e[k-1], k>>]
    BY <1>2
  <2> DEFINE f == [k \in 0 .. m |-> IF k = m THEN g[<<e[m-1], m>>] ELSE e[k]]
  <2>2. g[<<e[m-1], m>>] \in T
    BY <1>2, <2>1
  <2>3. f \in [0 .. m -> T]
    BY <1>2, <2>1, <2>2
  <2>4. f[0] = a
    BY <1>2, <2>1
  <2>5. ASSUME NEW k \in 1 .. m PROVE f[k] = g[<<f[k-1], k>>]
    <3>1. k - 1 \in 0 .. m - 1 /\ f[k-1] = e[k-1]
      OBVIOUS
    <3>2. CASE k = m
      <4>1. f[m] = g[<<e[m-1], m>>] /\ f[m-1] = e[m-1]
        BY <3>1, <3>2
      <4> HIDE DEF f
      <4>. QED
        BY <3>2, <4>1
    <3>3. CASE k # m
      <4>1. k \in 1 .. m - 1 /\ f[k] = e[k]
        BY <3>3
      <4>. QED
        BY <2>1, <3>1, <4>1
    <3>. QED
      BY <3>2, <3>3
  <2>6. Upto(m)
    BY <2>3, <2>4, <2>5
  <2>. QED
    BY <2>6
<1> HIDE DEF P
<1>3. \A m \in 0 .. n : m \in P
  BY <1>1, <1>2, UpTo
<1>4. n \in P
  BY <1>3
<1>5. PICK f \in [0 .. n -> T] : f[0] = a /\ \A k \in 1 .. n : f[k] = g[<<f[k-1], k>>]
  BY <1>4 DEF P
<1>. QED
  BY <1>5 DEF Unrolls

(* The partial sums.                                                       *)
LEMMA Sums ==
  ASSUME NEW n \in Nat, NEW f \in [0 .. n - 1 -> Int]
  PROVE  \E s \in [0 .. n -> Int] : /\ s[0] = 0
                                    /\ \A k \in 1 .. n : s[k] = s[k-1] + f[k-1]
                                    /\ SumOf(f, n) = s[n]
<1> DEFINE g == [p \in Int \X (1 .. n) |-> p[1] + f[p[2] - 1]]
           Eq(s) == s = [k \in 0 .. n |-> IF k = 0 THEN 0 ELSE s[k-1] + f[k-1]]
<1>1. g \in [Int \X (1 .. n) -> Int]
  OBVIOUS
<1>2. \A c \in Int, k \in 1 .. n : g[<<c, k>>] = c + f[k-1]
  OBVIOUS
<1> HIDE DEF g
<1>0. 0 \in Int
  OBVIOUS
<1>3. \E f0 : Unrolls(f0, Int, 0, n, g)
  BY <1>0, <1>1, Recursion, Zenon
<1>10. PICK s0 \in [0 .. n -> Int] :
          s0[0] = 0 /\ \A k \in 1 .. n : s0[k] = g[<<s0[k-1], k>>]
  BY <1>3 DEF Unrolls
<1>4. Eq(s0)
  <2>1. ASSUME NEW k \in 0 .. n PROVE s0[k] = IF k = 0 THEN 0 ELSE s0[k-1] + f[k-1]
    <3>1. CASE k = 0
      BY <1>10, <3>1
    <3>2. CASE k # 0
      <4>1. k \in 1 .. n /\ s0[k-1] \in Int
        BY <3>2
      <4>. QED
        BY <1>2, <1>10, <4>1
    <3>. QED
      BY <3>1, <3>2
  <2>. QED
    BY <2>1
<1> DEFINE s == CHOOSE t : Eq(t)
<1>5. Eq(s)
  BY <1>4
<1>6. SumOf(f, n) = s[n]
  BY Zenon DEF SumOf
<1> HIDE DEF s
<1>7. s = [k \in 0 .. n |-> IF k = 0 THEN 0 ELSE s[k-1] + f[k-1]]
  BY <1>5
<1> HIDE DEF Eq
<1>8. s[0] = 0 /\ \A k \in 1 .. n : s[k] = s[k-1] + f[k-1]
  BY <1>7
<1>9. \A k \in 0 .. n : s[k] \in Int
  <2> DEFINE P == {k \in 0 .. n : s[k] \in Int}
  <2>1. 0 \in P /\ \A k \in 1 .. n : k - 1 \in P => k \in P
    BY <1>8
  <2> HIDE DEF P
  <2>2. \A k \in 0 .. n : k \in P
    BY <2>1, UpTo
  <2>. QED
    BY <2>2 DEF P
<1>11. s \in [0 .. n -> Int]
  BY <1>7, <1>9
<1>. QED
  BY <1>6, <1>8, <1>11

(* What a sum does when its terms grow, and when one of them changes.      *)
LEMMA SumFacts ==
  ASSUME NEW n \in Nat, NEW f \in [0 .. n - 1 -> Int], NEW g \in [0 .. n - 1 -> Int]
  PROVE  /\ SumOf(f, n) \in Int
         /\ (\A k \in 0 .. n - 1 : f[k] <= g[k]) => SumOf(f, n) <= SumOf(g, n)
         /\ (\A k \in 0 .. n - 1 : f[k] = 0) => SumOf(f, n) = 0
         /\ \A w \in 0 .. n - 1 : (\A k \in 0 .. n - 1 : k # w => f[k] = g[k])
               => SumOf(g, n) - SumOf(f, n) = g[w] - f[w]
<1>1. PICK s \in [0 .. n -> Int] : /\ s[0] = 0
                                   /\ \A k \in 1 .. n : s[k] = s[k-1] + f[k-1]
                                   /\ SumOf(f, n) = s[n]
  BY Sums
<1>2. PICK t \in [0 .. n -> Int] : /\ t[0] = 0
                                   /\ \A k \in 1 .. n : t[k] = t[k-1] + g[k-1]
                                   /\ SumOf(g, n) = t[n]
  BY Sums
<1>3. ASSUME \A k \in 0 .. n - 1 : f[k] <= g[k] PROVE s[n] <= t[n]
  <2> DEFINE P == {k \in 0 .. n : s[k] <= t[k]}
  <2>0. ASSUME NEW k \in 1 .. n, s[k-1] <= t[k-1] PROVE s[k] <= t[k]
    <3>1. k - 1 \in 0 .. n - 1 /\ k - 1 \in 0 .. n
      OBVIOUS
    <3>2. f[k-1] \in Int /\ g[k-1] \in Int /\ f[k-1] <= g[k-1]
      BY <1>3, <3>1
    <3>3. s[k-1] \in Int /\ t[k-1] \in Int
      BY <3>1
    <3>4. s[k] = s[k-1] + f[k-1] /\ t[k] = t[k-1] + g[k-1]
      BY <1>1, <1>2
    <3>. QED
      BY <2>0, <3>2, <3>3, <3>4
  <2>1. 0 \in P /\ \A k \in 1 .. n : k - 1 \in P => k \in P
    BY <1>1, <1>2, <2>0
  <2> HIDE DEF P
  <2>2. \A k \in 0 .. n : k \in P
    BY <2>1, UpTo
  <2>. QED
    BY <2>2 DEF P
<1>4. ASSUME \A k \in 0 .. n - 1 : f[k] = 0 PROVE s[n] = 0
  <2> DEFINE P == {k \in 0 .. n : s[k] = 0}
  <2>1. 0 \in P /\ \A k \in 1 .. n : k - 1 \in P => k \in P
    BY <1>1, <1>4
  <2> HIDE DEF P
  <2>2. \A k \in 0 .. n : k \in P
    BY <2>1, UpTo
  <2>. QED
    BY <2>2 DEF P
<1>5. ASSUME NEW w \in 0 .. n - 1, \A k \in 0 .. n - 1 : k # w => f[k] = g[k]
      PROVE  t[n] - s[n] = g[w] - f[w]
  <2> DEFINE P == {k \in 0 .. n : t[k] - s[k] = IF k <= w THEN 0 ELSE g[w] - f[w]}
  <2>1. 0 \in P
    BY <1>1, <1>2
  <2>2. ASSUME NEW k \in 1 .. n, k - 1 \in P PROVE k \in P
    <3>1. /\ k - 1 \in 0 .. n - 1 /\ s[k] = s[k-1] + f[k-1] /\ t[k] = t[k-1] + g[k-1]
          /\ f[k-1] \in Int /\ g[k-1] \in Int /\ s[k-1] \in Int /\ t[k-1] \in Int
      BY <1>1, <1>2
    <3>2. CASE k - 1 < w
      BY <1>5, <2>2, <3>1, <3>2
    <3>3. CASE k - 1 = w
      <4>1. t[k-1] - s[k-1] = 0 /\ f[k-1] = f[w] /\ g[k-1] = g[w] /\ ~ (k <= w)
        BY <2>2, <3>1, <3>3
      <4>2. f[w] \in Int /\ g[w] \in Int
        OBVIOUS
      <4>0. s[k-1] \in Int /\ t[k-1] = s[k-1]
        <5>1. \A x, y \in Int : y - x = 0 => y = x
          OBVIOUS
        <5>2. s[k-1] \in Int /\ t[k-1] \in Int
          BY <3>1
        <5>3. t[k-1] - s[k-1] = 0
          BY <4>1
        <5>. HIDE DEF P
        <5>. QED
          BY <5>1, <5>2, <5>3, Zenon
      <4> DEFINE c == s[k-1]
      <4>3. c \in Int /\ t[k-1] = c
        BY <4>0
      <4>4. s[k] = c + f[w] /\ t[k] = c + g[w]
        BY <3>1, <4>1, <4>3
      <4> HIDE DEF c
      <4>5. t[k] - s[k] = g[w] - f[w]
        BY <4>2, <4>3, <4>4
      <4>. QED
        BY <4>1, <4>5
    <3>4. CASE k - 1 > w
      BY <1>5, <2>2, <3>1, <3>4
    <3>. QED
      BY <3>2, <3>3, <3>4
  <2> HIDE DEF P
  <2>3. \A k \in 0 .. n : k \in P
    BY <2>1, <2>2, UpTo
  <2>. QED
    BY <2>3 DEF P
<1>. QED
  BY <1>1, <1>2, <1>3, <1>4, <1>5
-----------------------------------------------------------------------------
(* What a set of workers holds together.                                   *)
LEMMA Parts ==
  ASSUME NEW alloc \in [Workers -> Vectors], NEW S, NEW j \in Resources
  PROVE  /\ N \in Nat /\ Workers = 0 .. N - 1
         /\ Part(alloc, S, j) \in [0 .. N - 1 -> Int]
         /\ \A w \in Workers : /\ alloc[w][j] \in Nat
                               /\ Part(alloc, S, j)[w] = IF w \in S THEN alloc[w][j] ELSE 0
                               /\ Part(alloc, S, j)[w] \in Nat
         /\ Held(alloc, S)[j] = SumOf(Part(alloc, S, j), N)
<1>1. \A w \in Workers : alloc[w] \in Vectors /\ alloc[w][j] \in Nat
  BY DEF Vectors
<1>2. Part(alloc, S, j) \in [Workers -> Int]
  BY <1>1 DEF Part
<1>. QED
  BY <1>1, <1>2, AllocationAssumption DEF Part, Held, Workers

LEMMA HeldFacts ==
  ASSUME NEW alloc \in [Workers -> Vectors], NEW S \in SUBSET Workers
  PROVE  /\ Held(alloc, S) \in Vectors
         /\ \A T \in SUBSET Workers : S \subseteq T => Fits(Held(alloc, S), Held(alloc, T))
         /\ \A w \in Workers \ S : Held(alloc, S \cup {w}) = Plus(Held(alloc, S), alloc[w])
         /\ (\A w \in S : alloc[w] = Zero) => Held(alloc, S) = Zero
<1>1. Held(alloc, S) \in Vectors
  <2> SUFFICES ASSUME NEW j \in Resources PROVE SumOf(Part(alloc, S, j), N) \in Nat
    BY DEF Held, Vectors
  <2> DEFINE z == [k \in 0 .. N - 1 |-> 0]
  <2>1. /\ z \in [0 .. N - 1 -> Int] /\ N \in Nat
        /\ \A k \in 0 .. N - 1 : z[k] = 0 /\ z[k] <= Part(alloc, S, j)[k]
    BY Parts, AllocationAssumption
  <2>2. Part(alloc, S, j) \in [0 .. N - 1 -> Int]
    BY Parts
  <2> HIDE DEF z
  <2>3. SumOf(z, N) = 0 /\ SumOf(z, N) <= SumOf(Part(alloc, S, j), N)
    BY <2>1, <2>2, SumFacts
  <2>4. SumOf(Part(alloc, S, j), N) \in Int
    BY <2>1, <2>2, SumFacts
  <2>. QED
    BY <2>3, <2>4
<1>2. ASSUME NEW T \in SUBSET Workers, S \subseteq T
      PROVE  Fits(Held(alloc, S), Held(alloc, T))
  <2> SUFFICES ASSUME NEW j \in Resources PROVE Held(alloc, S)[j] <= Held(alloc, T)[j]
    BY DEF Fits
  <2>1. /\ Part(alloc, S, j) \in [0 .. N - 1 -> Int] /\ Part(alloc, T, j) \in [0 .. N - 1 -> Int]
        /\ N \in Nat
        /\ \A k \in 0 .. N - 1 : Part(alloc, S, j)[k] <= Part(alloc, T, j)[k]
    BY <1>2, Parts
  <2>2. SumOf(Part(alloc, S, j), N) <= SumOf(Part(alloc, T, j), N)
    BY <2>1, SumFacts
  <2>. QED
    BY <2>2, Parts
<1>3. ASSUME NEW w \in Workers \ S
      PROVE  Held(alloc, S \cup {w}) = Plus(Held(alloc, S), alloc[w])
  <2>1. ASSUME NEW j \in Resources
        PROVE  SumOf(Part(alloc, S \cup {w}, j), N) = Held(alloc, S)[j] + alloc[w][j]
    <3> DEFINE f == Part(alloc, S, j)
               g == Part(alloc, S \cup {w}, j)
    <3>0. /\ f \in [0 .. N - 1 -> Int] /\ g \in [0 .. N - 1 -> Int]
          /\ \A k \in Workers : /\ f[k] = IF k \in S THEN alloc[k][j] ELSE 0
                                /\ g[k] = IF k \in S \cup {w} THEN alloc[k][j] ELSE 0
          /\ Held(alloc, S)[j] = SumOf(f, N)
      BY Parts
    <3> HIDE DEF f, g
    <3>1. /\ N \in Nat /\ w \in 0 .. N - 1 /\ Workers = 0 .. N - 1
          /\ \A k \in 0 .. N - 1 : k # w => f[k] = g[k]
          /\ f[w] = 0 /\ g[w] = alloc[w][j] /\ alloc[w][j] \in Nat
      BY <3>0, Parts
    <3>2. SumOf(g, N) - SumOf(f, N) = g[w] - f[w]
      <4>1. /\ f \in [0 .. N - 1 -> Int] /\ g \in [0 .. N - 1 -> Int] /\ N \in Nat
            /\ w \in 0 .. N - 1 /\ \A k \in 0 .. N - 1 : k # w => f[k] = g[k]
        BY <3>0, <3>1
      <4>. QED
        BY <4>1, SumFacts
    <3>3. SumOf(f, N) \in Int /\ SumOf(g, N) \in Int
      BY <3>0, <3>1, SumFacts
    <3>4. SumOf(g, N) = SumOf(f, N) + alloc[w][j]
      BY <3>1, <3>2, <3>3
    <3>. QED
      BY <3>0, <3>4 DEF g
  <2>. QED
    BY <2>1 DEF Held, Plus
<1>4. ASSUME \A w \in S : alloc[w] = Zero PROVE Held(alloc, S) = Zero
  <2>1. ASSUME NEW j \in Resources PROVE SumOf(Part(alloc, S, j), N) = 0
    <3>1. /\ Part(alloc, S, j) \in [0 .. N - 1 -> Int] /\ N \in Nat
          /\ \A k \in 0 .. N - 1 : Part(alloc, S, j)[k] = 0
      BY <1>4, Parts DEF Zero
    <3>. QED
      BY <3>1, SumFacts
  <2>. QED
    BY <2>1 DEF Held, Zero
<1>. QED
  BY <1>1, <1>2, <1>3, <1>4

(* When one worker's share changes, so does the sum of all.                *)
LEMMA HeldChange ==
  ASSUME NEW a \in [Workers -> Vectors], NEW b \in [Workers -> Vectors],
         NEW w \in Workers, \A v \in Workers : v # w => a[v] = b[v]
  PROVE  \A j \in Resources :
            /\ Held(a, Workers)[j] \in Nat /\ Held(b, Workers)[j] \in Nat
            /\ Held(b, Workers)[j] - Held(a, Workers)[j] = b[w][j] - a[w][j]
<1> SUFFICES ASSUME NEW j \in Resources
             PROVE  /\ Held(a, Workers)[j] \in Nat /\ Held(b, Workers)[j] \in Nat
                    /\ Held(b, Workers)[j] - Held(a, Workers)[j] = b[w][j] - a[w][j]
  OBVIOUS
<1> DEFINE f == Part(a, Workers, j)
           g == Part(b, Workers, j)
<1>0. /\ f \in [0 .. N - 1 -> Int] /\ g \in [0 .. N - 1 -> Int]
      /\ \A k \in Workers : f[k] = a[k][j] /\ g[k] = b[k][j]
      /\ Held(a, Workers)[j] = SumOf(f, N) /\ Held(b, Workers)[j] = SumOf(g, N)
      /\ N \in Nat /\ Workers = 0 .. N - 1
  BY Parts
<1> HIDE DEF f, g
<1>1. /\ w \in 0 .. N - 1
      /\ \A k \in 0 .. N - 1 : k # w => f[k] = g[k]
  BY <1>0
<1>2. SumOf(g, N) - SumOf(f, N) = g[w] - f[w]
  BY <1>0, <1>1, SumFacts
<1>3. Held(a, Workers) \in Vectors /\ Held(b, Workers) \in Vectors
  BY HeldFacts
<1>. QED
  BY <1>0, <1>1, <1>2, <1>3 DEF Vectors
-----------------------------------------------------------------------------
(* The one that holds most, the first of several, is one of them.          *)
LEMMA VictimFacts ==
  ASSUME NEW alloc \in [Workers -> Vectors], NEW U \in SUBSET Workers, U # {}
  PROVE  Victim(alloc, U) \in U
<1> DEFINE u == [w \in Workers |-> Units(alloc[w])]
           Before_(w, v) == u[w] < u[v] \/ (u[w] = u[v] /\ v < w)
           Best(m) == \/ \A w \in U : w >= m
                      \/ \E v \in U : v < m /\ \A w \in U \ {v} : w < m => Before_(w, v)
           P == {m \in 0 .. N : Best(m)}
<1>0. N \in Nat /\ Workers = 0 .. N - 1
  BY AllocationAssumption DEF Workers
<1>1. \A w \in Workers : Units(alloc[w]) \in Int
  <2> SUFFICES ASSUME NEW w \in Workers PROVE SumOf(alloc[w], M) \in Int
    BY DEF Units
  <2>1. alloc[w] \in [0 .. M - 1 -> Int] /\ M \in Nat
    BY AllocationAssumption DEF Vectors, Resources
  <2>. QED
    BY <2>1, SumFacts
<1>2. u \in [Workers -> Int]
  BY <1>1
<1>3. \A w \in Workers : u[w] = Units(alloc[w])
  OBVIOUS
<1> HIDE DEF u
<1>4. 0 \in P
  BY <1>0
<1>5. ASSUME NEW m \in 1 .. N, m - 1 \in P PROVE m \in P
  <2> SUFFICES Best(m)
    OBVIOUS
  <2>1. CASE m - 1 \notin U
    <3>1. \A w \in U : w >= m - 1 => w >= m
      BY <1>0, <2>1
    <3>2. \A w \in U : w < m => w < m - 1
      BY <1>0, <2>1
    <3>3. CASE \A w \in U : w >= m - 1
      BY <3>1, <3>3
    <3>4. CASE \E v \in U : v < m - 1 /\ \A w \in U \ {v} : w < m - 1 => Before_(w, v)
      <4>1. PICK v \in U : v < m - 1 /\ \A w \in U \ {v} : w < m - 1 => Before_(w, v)
        BY <3>4
      <4>2. v < m /\ \A w \in U \ {v} : w < m => Before_(w, v)
        BY <1>0, <3>2, <4>1
      <4>. QED
        BY <4>2
    <3>. QED
      BY <1>5, <3>3, <3>4
  <2>2. CASE m - 1 \in U
    <3>1. \A w \in U : w < m => w = m - 1 \/ w < m - 1
      BY <1>0
    <3>2. CASE \A w \in U : w >= m - 1
      <4>1. m - 1 < m /\ \A w \in U \ {m - 1} : ~ (w < m)
        BY <1>0, <3>1, <3>2
      <4>. QED
        BY <2>2, <4>1
    <3>3. CASE \E v \in U : v < m - 1 /\ \A w \in U \ {v} : w < m - 1 => Before_(w, v)
      <4>1. PICK v \in U : v < m - 1 /\ \A w \in U \ {v} : w < m - 1 => Before_(w, v)
        BY <3>3
      <4>2. \A w \in U : u[w] \in Int /\ w \in Int
        BY <1>0, <1>2
      <4>3. CASE u[v] < u[m-1]
        <5>1. \A w \in U \ {m - 1} : w < m => Before_(w, m - 1)
          BY <2>2, <3>1, <4>1, <4>2, <4>3
        <5>. QED
          BY <2>2, <5>1
      <4>4. CASE ~ (u[v] < u[m-1])
        <5>1. \A w \in U \ {v} : w < m => Before_(w, v)
          BY <2>2, <3>1, <4>1, <4>2, <4>4
        <5>2. v < m
          BY <4>1, <4>2
        <5>. QED
          BY <5>1, <5>2
      <4>. QED
        BY <4>3, <4>4
    <3>. QED
      BY <1>5, <3>2, <3>3
  <2>. QED
    BY <2>1, <2>2
<1> HIDE DEF P
<1>6. \A m \in 0 .. N : m \in P
  BY <1>0, <1>4, <1>5, UpTo
<1>7. N \in 0 .. N
  BY <1>0
<1> HIDE DEF Best
<1>10. Best(N)
  BY <1>6, <1>7 DEF P
<1>8. \E v \in U : \A w \in U \ {v} : Before_(w, v)
  <2>1. \A w \in U : ~ (w >= N) /\ w < N
    BY <1>0
  <2>. QED
    BY <1>10, <2>1 DEF Best
<1>9. \E v \in U : \A w \in U \ {v} : \/ Units(alloc[w]) < Units(alloc[v])
                                      \/ Units(alloc[w]) = Units(alloc[v]) /\ v < w
  BY <1>3, <1>8
<1>. QED
  BY <1>9, Zenon DEF Victim
-----------------------------------------------------------------------------
(* The deadlock detection.  What Work and Finish range over, and how Work  *)
(* follows from Finish as long as nobody counts twice.                     *)
States == [Work : Vectors, Finish : SUBSET Workers]

Returned(s, avail, alloc) == s.Work = Plus(avail, Held(alloc, s.Finish))

(* What one worker's turn, one pass and all the passes have in common:     *)
(* Work and Finish only grow, together, and no stuck worker ever finishes. *)
Advances(s, t, avail, alloc, req) ==
  /\ t \in States /\ s.Finish \subseteq t.Finish /\ Fits(s.Work, t.Work)
  /\ t.Finish = s.Finish => t = s
  /\ Returned(s, avail, alloc) => Returned(t, avail, alloc)
  /\ \A S \in SUBSET Workers :
        /\ Stuck(S, avail, alloc, req) /\ S \cap s.Finish = {}
        /\ Returned(s, avail, alloc)
        => S \cap t.Finish = {}

LEMMA AdvancesOn ==
  ASSUME NEW avail, NEW alloc, NEW req, NEW s \in States, NEW t, NEW u,
         Advances(s, t, avail, alloc, req), Advances(t, u, avail, alloc, req)
  PROVE  Advances(s, u, avail, alloc, req)
<1>1. s.Work \in Vectors /\ t.Work \in Vectors /\ u.Work \in Vectors
  BY DEF Advances, States
<1>2. Fits(s.Work, u.Work)
  BY <1>1, VectorFacts DEF Advances
<1>3. s.Finish \subseteq u.Finish /\ (u.Finish = s.Finish => u = s)
  <2>1. s.Finish \subseteq t.Finish /\ t.Finish \subseteq u.Finish
    BY DEF Advances
  <2>2. ASSUME u.Finish = s.Finish PROVE u = s
    <3>1. t.Finish = s.Finish /\ u.Finish = t.Finish
      BY <2>1, <2>2
    <3>. QED
      BY <3>1 DEF Advances
  <2>. QED
    BY <2>1, <2>2
<1>. QED
  BY <1>2, <1>3 DEF Advances

LEMMA AdvancesNot ==
  ASSUME NEW avail, NEW alloc, NEW req, NEW s \in States
  PROVE  Advances(s, s, avail, alloc, req)
<1>1. Fits(s.Work, s.Work)
  BY VectorFacts DEF States
<1>. QED
  BY <1>1 DEF Advances

(* One worker is looked at.                                                *)
LEMMA LookFacts ==
  ASSUME NEW alloc \in [Workers -> Vectors], NEW req \in [Workers -> Vectors],
         NEW avail \in Vectors, NEW s \in States, NEW w \in Workers,
         NEW t, t = Look(s, w, alloc, req)
  PROVE  /\ Advances(s, t, avail, alloc, req)
         /\ Fits(req[w], s.Work) => w \in t.Finish
<1>0. /\ s.Work \in Vectors /\ s.Finish \in SUBSET Workers
      /\ alloc[w] \in Vectors /\ req[w] \in Vectors
  BY DEF States
<1>1. CASE w \in s.Finish \/ ~ Fits(req[w], s.Work)
  <2>1. t = s
    BY <1>1 DEF Look
  <2>. QED
    BY <1>1, <2>1, AdvancesNot
<1>2. CASE w \notin s.Finish /\ Fits(req[w], s.Work)
  <2>1. t = [Work |-> Plus(s.Work, alloc[w]), Finish |-> s.Finish \cup {w}]
    BY <1>2 DEF Look
  <2>2. t.Work = Plus(s.Work, alloc[w]) /\ t.Finish = s.Finish \cup {w}
    BY <2>1
  <2>3. Plus(s.Work, alloc[w]) \in Vectors /\ Fits(s.Work, Plus(s.Work, alloc[w]))
    BY <1>0 DEF Vectors, Plus, Fits
  <2>4. t \in States
    BY <1>0, <2>1, <2>3 DEF States
  <2>5. ASSUME Returned(s, avail, alloc) PROVE Returned(t, avail, alloc)
    <3>1. /\ Held(alloc, s.Finish) \in Vectors
          /\ Held(alloc, s.Finish \cup {w}) = Plus(Held(alloc, s.Finish), alloc[w])
      BY <1>0, <1>2, HeldFacts
    <3>2. Plus(Plus(avail, Held(alloc, s.Finish)), alloc[w])
        = Plus(avail, Plus(Held(alloc, s.Finish), alloc[w]))
      BY <1>0, <3>1 DEF Vectors, Plus
    <3>. QED
      BY <2>2, <2>5, <3>1, <3>2 DEF Returned
  <2>6. ASSUME NEW S \in SUBSET Workers, Stuck(S, avail, alloc, req),
               S \cap s.Finish = {}, Returned(s, avail, alloc)
        PROVE  w \notin S
    <3> SUFFICES ASSUME w \in S PROVE FALSE
      OBVIOUS
    <3>1. s.Finish \subseteq Workers \ S /\ Workers \ S \in SUBSET Workers
      BY <1>0, <2>6
    <3>2. /\ Fits(Held(alloc, s.Finish), Held(alloc, Workers \ S))
          /\ Held(alloc, s.Finish) \in Vectors /\ Held(alloc, Workers \ S) \in Vectors
      BY <1>0, <3>1, HeldFacts
    <3>3. /\ Fits(s.Work, Plus(avail, Held(alloc, Workers \ S)))
          /\ Plus(avail, Held(alloc, Workers \ S)) \in Vectors
      <4>1. \A u, v \in Vectors : Fits(u, v) => Fits(Plus(avail, u), Plus(avail, v))
        BY DEF Vectors, Plus, Fits
      <4>. QED
        BY <2>6, <3>2, <4>1, VectorFacts DEF Returned
    <3>4. Fits(req[w], Plus(avail, Held(alloc, Workers \ S)))
      BY <1>0, <1>2, <3>3, VectorFacts
    <3>. QED
      BY <2>6, <3>4 DEF Stuck
  <2>. QED
    BY <1>2, <2>2, <2>3, <2>4, <2>5, <2>6 DEF Advances
<1>. QED
  BY <1>1, <1>2

(* The states of one pass.                                                 *)
LEMMA PassSteps ==
  ASSUME NEW alloc \in [Workers -> Vectors], NEW req \in [Workers -> Vectors],
         NEW start \in States
  PROVE  \E s \in [0 .. N -> States] :
            /\ s[0] = start
            /\ \A k \in 1 .. N : s[k] = Look(s[k-1], k - 1, alloc, req)
            /\ Pass(start, alloc, req) = s[N]
<1> DEFINE g == [p \in States \X (1 .. N) |-> Look(p[1], p[2] - 1, alloc, req)]
           Eq(s) == s = [k \in 0 .. N |-> IF k = 0 THEN start
                                         ELSE Look(s[k-1], k - 1, alloc, req)]
<1>0. N \in Nat /\ \A k \in 1 .. N : k - 1 \in Workers
  BY AllocationAssumption DEF Workers
<1>1. \A c \in States, w \in Workers : Look(c, w, alloc, req) \in States
  BY VectorFacts DEF Look, States
<1>2. g \in [States \X (1 .. N) -> States]
  BY <1>0, <1>1
<1>3. \A c \in States, k \in 1 .. N : g[<<c, k>>] = Look(c, k - 1, alloc, req)
  OBVIOUS
<1> HIDE DEF g
<1>4. \E f : Unrolls(f, States, start, N, g)
  BY <1>0, <1>2, Recursion, Zenon
<1>5. PICK f \in [0 .. N -> States] :
         f[0] = start /\ \A k \in 1 .. N : f[k] = g[<<f[k-1], k>>]
  BY <1>4 DEF Unrolls
<1>6. \A k \in 1 .. N : f[k-1] \in States /\ f[k] = Look(f[k-1], k - 1, alloc, req)
  <2> SUFFICES ASSUME NEW k \in 1 .. N
               PROVE  f[k-1] \in States /\ f[k] = Look(f[k-1], k - 1, alloc, req)
    OBVIOUS
  <2>1. k - 1 \in 0 .. N
    BY <1>0
  <2>. QED
    BY <1>3, <1>5, <2>1
<1>7. Eq(f)
  <2>1. \A k \in 0 .. N : f[k] = IF k = 0 THEN start ELSE Look(f[k-1], k - 1, alloc, req)
    BY <1>5, <1>6
  <2>. QED
    BY <2>1
<1> DEFINE s == CHOOSE e : Eq(e)
<1>8. Eq(s)
  BY <1>7
<1>9. Pass(start, alloc, req) = s[N]
  BY Zenon DEF Pass
<1> HIDE DEF s
<1>10. s = [k \in 0 .. N |-> IF k = 0 THEN start ELSE Look(s[k-1], k - 1, alloc, req)]
  BY <1>8
<1> HIDE DEF Eq
<1>11. s[0] = start /\ \A k \in 1 .. N : s[k] = Look(s[k-1], k - 1, alloc, req)
  BY <1>0, <1>10
<1>12. \A k \in 0 .. N : s[k] \in States
  <2> DEFINE P == {k \in 0 .. N : s[k] \in States}
  <2>1. 0 \in P
    BY <1>0, <1>11
  <2>2. ASSUME NEW k \in 1 .. N, k - 1 \in P PROVE k \in P
    BY <1>0, <1>1, <1>11, <2>2
  <2> HIDE DEF P
  <2>3. \A k \in 0 .. N : k \in P
    BY <1>0, <2>1, <2>2, UpTo
  <2>. QED
    BY <2>3 DEF P
<1>13. s \in [0 .. N -> States]
  BY <1>10, <1>12
<1>. QED
  BY <1>9, <1>11, <1>13

(* A pass that can finish nobody changes nothing.                          *)
LEMMA Fixed ==
  ASSUME NEW alloc \in [Workers -> Vectors], NEW req \in [Workers -> Vectors],
         NEW start \in States,
         \A w \in Workers : Fits(req[w], start.Work) => w \in start.Finish
  PROVE  Pass(start, alloc, req) = start
<1>0. N \in Nat /\ \A k \in 1 .. N : k - 1 \in Workers /\ k - 1 \in 0 .. N
  BY AllocationAssumption DEF Workers
<1>1. PICK s \in [0 .. N -> States] :
         /\ s[0] = start
         /\ \A k \in 1 .. N : s[k] = Look(s[k-1], k - 1, alloc, req)
         /\ Pass(start, alloc, req) = s[N]
  BY PassSteps
<1> DEFINE P == {k \in 0 .. N : s[k] = start}
<1>2. 0 \in P
  BY <1>0, <1>1
<1>3. ASSUME NEW k \in 1 .. N, k - 1 \in P PROVE k \in P
  <2>1. s[k-1] = start /\ k - 1 \in Workers /\ s[k] = Look(start, k - 1, alloc, req)
    BY <1>0, <1>1, <1>3
  <2>. QED
    BY <2>1 DEF Look
<1> HIDE DEF P
<1>4. \A k \in 0 .. N : k \in P
  BY <1>0, <1>2, <1>3, UpTo
<1>5. N \in P
  BY <1>0, <1>4
<1>. QED
  BY <1>1, <1>5 DEF P

(* One pass: whoever could finish at its start has finished at its end.    *)
LEMMA PassFacts ==
  ASSUME NEW alloc \in [Workers -> Vectors], NEW req \in [Workers -> Vectors],
         NEW avail \in Vectors, NEW start \in States,
         NEW t, t = Pass(start, alloc, req)
  PROVE  /\ Advances(start, t, avail, alloc, req)
         /\ \A w \in Workers : Fits(req[w], start.Work) => w \in t.Finish
<1>0. /\ N \in Nat /\ Workers = 0 .. N - 1
      /\ \A k \in 1 .. N : k - 1 \in Workers /\ k - 1 \in 0 .. N
  BY AllocationAssumption DEF Workers
<1>1. PICK s \in [0 .. N -> States] :
         /\ s[0] = start
         /\ \A k \in 1 .. N : s[k] = Look(s[k-1], k - 1, alloc, req)
         /\ Pass(start, alloc, req) = s[N]
  BY PassSteps
<1>2. ASSUME NEW k \in 1 .. N
      PROVE  /\ Advances(s[k-1], s[k], avail, alloc, req)
             /\ Fits(req[k-1], s[k-1].Work) => k - 1 \in s[k].Finish
  <2>1. s[k-1] \in States /\ k - 1 \in Workers /\ s[k] = Look(s[k-1], k - 1, alloc, req)
    BY <1>0, <1>1
  <2>. QED
    BY <2>1, LookFacts
<1>3. \A k \in 0 .. N : /\ Advances(start, s[k], avail, alloc, req)
                        /\ \A w \in Workers : w < k /\ Fits(req[w], start.Work) => w \in s[k].Finish
  <2> DEFINE P == {k \in 0 .. N :
                     /\ Advances(start, s[k], avail, alloc, req)
                     /\ \A w \in Workers : w < k /\ Fits(req[w], start.Work) => w \in s[k].Finish}
  <2>1. 0 \in P
    <3>1. \A w \in Workers : ~ (w < 0)
      BY <1>0
    <3>2. Advances(start, s[0], avail, alloc, req)
      BY <1>1, AdvancesNot
    <3>. QED
      BY <1>0, <3>1, <3>2
  <2>2. ASSUME NEW k \in 1 .. N, k - 1 \in P PROVE k \in P
    <3>0. /\ Advances(start, s[k-1], avail, alloc, req)
          /\ \A w \in Workers : w < k - 1 /\ Fits(req[w], start.Work) => w \in s[k-1].Finish
      BY <2>2
    <3>1. Advances(start, s[k], avail, alloc, req)
      BY <1>2, <3>0, AdvancesOn
    <3>2. ASSUME NEW w \in Workers, w < k, Fits(req[w], start.Work) PROVE w \in s[k].Finish
      <4>1. CASE w = k - 1
        <5>1. req[w] \in Vectors /\ start.Work \in Vectors /\ s[k-1].Work \in Vectors
          BY <3>0 DEF States, Advances
        <5>2. Fits(req[w], s[k-1].Work)
          BY <3>0, <3>2, <5>1, VectorFacts DEF Advances
        <5>. QED
          BY <1>2, <4>1, <5>2
      <4>2. CASE w # k - 1
        <5>1. w < k - 1
          BY <1>0, <3>2, <4>2
        <5>2. w \in s[k-1].Finish
          BY <3>0, <3>2, <5>1
        <5>. QED
          BY <1>2, <5>2 DEF Advances
      <4>. QED
        BY <4>1, <4>2
    <3>. QED
      BY <3>1, <3>2
  <2> HIDE DEF P
  <2>3. \A k \in 0 .. N : k \in P
    BY <1>0, <2>1, <2>2, UpTo
  <2>. QED
    BY <2>3 DEF P
<1>4. N \in 0 .. N /\ \A w \in Workers : w < N
  BY <1>0
<1>. QED
  BY <1>1, <1>3, <1>4
-----------------------------------------------------------------------------
(* The passes of one detection.                                            *)
LEMMA Rounds ==
  ASSUME NEW alloc \in [Workers -> Vectors], NEW req \in [Workers -> Vectors],
         NEW avail \in Vectors, NEW exited \in SUBSET Workers
  PROVE  \E r \in [0 .. N -> States] :
            /\ r[0] = [Work |-> avail, Finish |-> exited]
            /\ \A k \in 1 .. N : r[k] = Pass(r[k-1], alloc, req)
            /\ Unfinished(avail, alloc, req, exited) = Workers \ r[N].Finish
<1> DEFINE start == [Work |-> avail, Finish |-> exited]
           g == [p \in States \X (1 .. N) |-> Pass(p[1], alloc, req)]
           Eq(s) == s = [k \in 0 .. N |-> IF k = 0 THEN [Work |-> avail, Finish |-> exited]
                                         ELSE Pass(s[k-1], alloc, req)]
<1>0. N \in Nat /\ start \in States
  BY AllocationAssumption DEF States
<1>1. ASSUME NEW c \in States PROVE Pass(c, alloc, req) \in States
  <2>1. Advances(c, Pass(c, alloc, req), avail, alloc, req)
    BY PassFacts
  <2>. QED
    BY <2>1 DEF Advances
<1>2. g \in [States \X (1 .. N) -> States]
  BY <1>1
<1>3. \A c \in States, k \in 1 .. N : g[<<c, k>>] = Pass(c, alloc, req)
  OBVIOUS
<1> HIDE DEF g
<1>4. \E f : Unrolls(f, States, start, N, g)
  BY <1>0, <1>2, Recursion, Zenon
<1>5. PICK f \in [0 .. N -> States] :
         f[0] = start /\ \A k \in 1 .. N : f[k] = g[<<f[k-1], k>>]
  BY <1>4 DEF Unrolls
<1>6. \A k \in 1 .. N : f[k-1] \in States /\ f[k] = Pass(f[k-1], alloc, req)
  <2> SUFFICES ASSUME NEW k \in 1 .. N
               PROVE  f[k-1] \in States /\ f[k] = Pass(f[k-1], alloc, req)
    OBVIOUS
  <2>1. k - 1 \in 0 .. N
    BY <1>0
  <2>. QED
    BY <1>3, <1>5, <2>1
<1>7. Eq(f)
  <2>1. \A k \in 0 .. N : f[k] = IF k = 0 THEN [Work |-> avail, Finish |-> exited]
                                 ELSE Pass(f[k-1], alloc, req)
    BY <1>5, <1>6
  <2>. QED
    BY <2>1
<1> DEFINE s == CHOOSE e : Eq(e)
<1>8. Eq(s)
  BY <1>7
<1>9. Unfinished(avail, alloc, req, exited) = Workers \ s[N].Finish
  BY Zenon DEF Unfinished
<1> HIDE DEF s
<1>10. s = [k \in 0 .. N |-> IF k = 0 THEN [Work |-> avail, Finish |-> exited]
                             ELSE Pass(s[k-1], alloc, req)]
  BY <1>8
<1> HIDE DEF Eq
<1>11. s[0] = start /\ \A k \in 1 .. N : s[k] = Pass(s[k-1], alloc, req)
  BY <1>0, <1>10
<1> HIDE DEF start
<1>12. \A k \in 0 .. N : s[k] \in States
  <2> DEFINE P == {k \in 0 .. N : s[k] \in States}
  <2>1. 0 \in P
    BY <1>0, <1>11
  <2>2. ASSUME NEW k \in 1 .. N, k - 1 \in P PROVE k \in P
    BY <1>0, <1>1, <1>11, <2>2
  <2> HIDE DEF P
  <2>3. \A k \in 0 .. N : k \in P
    BY <1>0, <2>1, <2>2, UpTo
  <2>. QED
    BY <2>3 DEF P
<1>13. s \in [0 .. N -> States]
  BY <1>10, <1>12
<1>. QED
  BY <1>9, <1>11, <1>13 DEF start

(* Whoever asks for nothing is never among the unfinished.                 *)
LEMMA UnfinishedAsk ==
  ASSUME NEW alloc \in [Workers -> Vectors], NEW req \in [Workers -> Vectors],
         NEW avail \in Vectors, NEW exited \in SUBSET Workers
  PROVE  /\ Unfinished(avail, alloc, req, exited) \in SUBSET Workers
         /\ \A w \in Unfinished(avail, alloc, req, exited) : req[w] # Zero
<1>0. N \in Nat \ {0}
  BY AllocationAssumption
<1>1. PICK r \in [0 .. N -> States] :
         /\ r[0] = [Work |-> avail, Finish |-> exited]
         /\ \A k \in 1 .. N : r[k] = Pass(r[k-1], alloc, req)
         /\ Unfinished(avail, alloc, req, exited) = Workers \ r[N].Finish
  BY Rounds
<1>2. ASSUME NEW w \in Workers, req[w] = Zero PROVE w \in r[N].Finish
  <2>1. r[N-1] \in States /\ r[N] = Pass(r[N-1], alloc, req)
    BY <1>0, <1>1
  <2>2. Fits(req[w], r[N-1].Work)
    BY <1>2, <2>1, VectorFacts DEF States
  <2>. QED
    BY <2>1, <2>2, PassFacts
<1>. QED
  BY <1>1, <1>2

(* dlhandler.c:25: the passes leave over exactly the deadlocked workers.   *)
LEMMA Detection ==
  ASSUME NEW alloc \in [Workers -> Vectors], NEW req \in [Workers -> Vectors],
         NEW avail \in Vectors, NEW exited \in SUBSET Workers,
         \A w \in exited : alloc[w] = Zero /\ req[w] = Zero
  PROVE  Unfinished(avail, alloc, req, exited) = Deadlocked(avail, alloc, req)
<1>0. /\ N \in Nat \ {0} /\ N \in 0 .. N
      /\ \A k \in 1 .. N : k - 1 \in 0 .. N
      /\ IsFiniteSet(Workers) /\ Cardinality(Workers) = N
  <2>1. N \in Nat \ {0}
    BY AllocationAssumption
  <2>. QED
    BY <2>1, FS_Interval DEF Workers
<1>1. PICK r \in [0 .. N -> States] :
         /\ r[0] = [Work |-> avail, Finish |-> exited]
         /\ \A k \in 1 .. N : r[k] = Pass(r[k-1], alloc, req)
         /\ Unfinished(avail, alloc, req, exited) = Workers \ r[N].Finish
  BY Rounds
<1>2. ASSUME NEW k \in 1 .. N
      PROVE  /\ Advances(r[k-1], r[k], avail, alloc, req)
             /\ \A w \in Workers : Fits(req[w], r[k-1].Work) => w \in r[k].Finish
  <2>1. r[k-1] \in States /\ r[k] = Pass(r[k-1], alloc, req)
    BY <1>0, <1>1
  <2>. QED
    BY <2>1, PassFacts
<1>3. \A k \in 0 .. N : Advances(r[0], r[k], avail, alloc, req)
  <2> DEFINE P == {k \in 0 .. N : Advances(r[0], r[k], avail, alloc, req)}
  <2>1. 0 \in P
    BY <1>0, AdvancesNot
  <2>2. ASSUME NEW k \in 1 .. N, k - 1 \in P PROVE k \in P
    <3>1. r[0] \in States /\ Advances(r[0], r[k-1], avail, alloc, req)
      BY <1>0, <2>2
    <3>2. Advances(r[0], r[k], avail, alloc, req)
      BY <1>2, <3>1, AdvancesOn
    <3>. QED
      BY <3>2
  <2> HIDE DEF P
  <2>3. \A k \in 0 .. N : k \in P
    BY <1>0, <2>1, <2>2, UpTo
  <2>. QED
    BY <2>3 DEF P
<1>4. Returned(r[0], avail, alloc)
  <2>1. Held(alloc, exited) = Zero
    BY HeldFacts
  <2>2. Plus(avail, Zero) = avail
    BY VectorFacts
  <2>. QED
    BY <1>1, <2>1, <2>2 DEF Returned
<1>5. r[N] \in States /\ Returned(r[N], avail, alloc)
  BY <1>0, <1>3, <1>4 DEF Advances
<1>6. ASSUME NEW S \in SUBSET Workers, Stuck(S, avail, alloc, req)
      PROVE  S \cap r[N].Finish = {}
  <2>1. S \cap exited = {}
    <3> SUFFICES ASSUME NEW w \in S, w \in exited PROVE FALSE
      OBVIOUS
    <3>1. Held(alloc, Workers \ S) \in Vectors
      BY HeldFacts
    <3>2. Fits(Zero, Plus(avail, Held(alloc, Workers \ S)))
      BY <3>1, VectorFacts
    <3>. QED
      BY <1>6, <3>2 DEF Stuck
  <2>2. r[0].Finish = exited
    BY <1>1
  <2>. QED
    BY <1>0, <1>3, <1>4, <1>6, <2>1, <2>2 DEF Advances
(* The passes come to a stop: each one but the last finishes somebody.     *)
<1>7. ASSUME r[N].Finish # Workers
      PROVE  \A w \in Workers : Fits(req[w], r[N].Work) => w \in r[N].Finish
  <2> DEFINE done(k) == Cardinality(r[k].Finish)
             P == {k \in 0 .. N : \/ done(k) >= k
                                  \/ \A w \in Workers : Fits(req[w], r[k].Work) => w \in r[k].Finish}
  <2>0. \A k \in 0 .. N : /\ r[k].Finish \in SUBSET Workers
                          /\ IsFiniteSet(r[k].Finish) /\ done(k) \in Nat
    <3> SUFFICES ASSUME NEW k \in 0 .. N
                 PROVE  /\ r[k].Finish \in SUBSET Workers
                        /\ IsFiniteSet(r[k].Finish) /\ done(k) \in Nat
      OBVIOUS
    <3>1. r[k].Finish \in SUBSET Workers
      BY DEF States
    <3>2. IsFiniteSet(r[k].Finish)
      BY <1>0, <3>1, FS_Subset
    <3>. QED
      BY <3>1, <3>2, FS_CardinalityType
  <2>1. 0 \in P
    BY <1>0, <2>0
  <2>2. ASSUME NEW k \in 1 .. N, k - 1 \in P PROVE k \in P
    <3>0. k - 1 \in 0 .. N /\ k \in 0 .. N /\ k \in Nat
      BY <1>0
    <3>1. CASE r[k].Finish = r[k-1].Finish
      <4>1. r[k] = r[k-1]
        BY <1>2, <3>1 DEF Advances
      <4>2. \A w \in Workers : Fits(req[w], r[k].Work) => w \in r[k].Finish
        BY <1>2, <4>1
      <4>. QED
        BY <3>0, <4>2
    <3>2. CASE r[k].Finish # r[k-1].Finish
      <4>1. r[k-1].Finish \in SUBSET r[k].Finish
        BY <1>2 DEF Advances
      <4>2. done(k-1) <= done(k) /\ done(k) # done(k-1)
        BY <2>0, <3>0, <3>2, <4>1, FS_Subset
      <4>3. CASE done(k-1) >= k - 1
        <5>1. done(k) >= k
          BY <2>0, <3>0, <4>2, <4>3
        <5>. QED
          BY <3>0, <5>1
      <4>4. CASE \A w \in Workers : Fits(req[w], r[k-1].Work) => w \in r[k-1].Finish
        <5>1. r[k] = r[k-1]
          BY Fixed, <1>1, <1>0, <4>4
        <5>. QED
          BY <3>2, <5>1
      <4>. QED
        BY <2>2, <4>3, <4>4
    <3>. QED
      BY <3>1, <3>2
  <2>3. N \in P
    <3> HIDE DEF P
    <3>1. \A k \in 0 .. N : k \in P
      BY <1>0, <2>1, <2>2, UpTo
    <3>. QED
      BY <1>0, <3>1
  <2>4. ~ (done(N) >= N)
    <3>1. done(N) <= N /\ (done(N) = N => r[N].Finish = Workers)
      BY <1>0, <2>0, FS_Subset
    <3>. QED
      BY <1>0, <1>7, <2>0, <3>1
  <2>. QED
    BY <2>3, <2>4
<1>8. Stuck(Workers \ r[N].Finish, avail, alloc, req)
  <2>1. r[N].Finish \in SUBSET Workers /\ Workers \ (Workers \ r[N].Finish) = r[N].Finish
    BY <1>5 DEF States
  <2>2. CASE r[N].Finish = Workers
    BY <2>2 DEF Stuck
  <2>3. CASE r[N].Finish # Workers
    BY <1>5, <1>7, <2>1, <2>3 DEF Stuck, Returned
  <2>. QED
    BY <2>2, <2>3
<1>. QED
  BY <1>1, <1>6, <1>8 DEF Deadlocked
-----------------------------------------------------------------------------
(* The bookkeeping of the unhurried runs.  What the variables range over:  *)
CalmTypes ==
  /\ AVAILABLE \in Vectors
  /\ ALLOCATION \in [Workers -> Vectors] /\ REQUEST \in [Workers -> Vectors]
  /\ RELEASE \in [Workers -> Vectors]
  /\ RQ \in [Slots -> Workers] /\ rq_size \in 0 .. N
  /\ WMTX \in [Workers -> {NOBODY, MANAGER} \cup Workers]
  /\ i \in 0 .. N /\ cur \in Workers /\ q \in 0 .. N /\ dcur \in Workers

(* A worker has a request or a release on its way, never both, from the    *)
(* time it drew it until it is served.                                     *)
Asking  == {"lock", "publish", "lockack", "lockgrant", "signal", "acksleep", "ackwait"}
Hopeful == {"acked", "grantsleep", "grantwait"}

Plan(w) ==
  /\ Fits(RELEASE[w], ALLOCATION[w])
  /\ Fits(Plus(REQUEST[w], ALLOCATION[w]), TOTAL)
  /\ REQUEST[w] # Zero => type[w] = "ALLOCATE" /\ pc[w] \in Asking \cup Hopeful
  /\ RELEASE[w] # Zero => type[w] # "ALLOCATE" /\ pc[w] \in Asking
  /\ pc[w] \in {"lockgrant", "grantsleep", "grantwait", "granted"} => type[w] = "ALLOCATE"

Plans == \A w \in Workers : Plan(w)

(* What is acknowledged is what was asked.                                 *)
AckFits ==
  /\ mpc \in {"ackgrant", "ackwait"} => REQTYPE = "ALLOCATE"
  /\ mpc = "ackrelease" => REQTYPE = "RELEASE" /\ RELEASE[REQFROM] = Zero

(* Whoever is told of a grant listens on its WCND or holds its WMTX.       *)
Listens(w) == pc[w] \in Hopeful /\ type[w] = "ALLOCATE"

GrantMutex ==
  /\ \A w \in Workers :
        type[w] = "ALLOCATE" /\ pc[w] \in {"signal", "acksleep", "ackwait", "acked", "grantsleep"}
           => WMTX[w] = w
  /\ mpc \in {"lockwake", "wake"} => Listens(REQFROM)
  /\ mpc = "wake" => WMTX[REQFROM] = MANAGER
  /\ mpc \in {"servegrant", "dequeue", "servesignal"} => Listens(cur)
  /\ dpc \in {"scangrant", "scandequeue", "scansignal"} => Listens(dcur)

(* The queue holds whoever was acknowledged but not granted, and whoever   *)
(* was granted from the queue and is just being removed.                   *)
Distinct   == \A k, l \in 0 .. rq_size - 1 : RQ[k] = RQ[l] => k = l
Queued(w)  == \E k \in 0 .. rq_size - 1 : RQ[k] = w
Waits(w)   == /\ REQUEST[w] # Zero
              /\ \/ pc[w] \in Hopeful
                 \/ mpc = "ackwait" /\ w = REQFROM
Leaving(w) == \/ mpc = "dequeue" /\ w = cur
              \/ dpc = "scandequeue" /\ w = dcur

QueueExact ==
  /\ Distinct
  /\ \A w \in Workers : Queued(w) <=> Waits(w) \/ Leaving(w)
  /\ mpc \in {"servegrant", "dequeue"} => i < rq_size /\ RQ[i] = cur
  /\ mpc = "servegrant" => canGrant(cur) /\ REQUEST[cur] # Zero
  /\ dpc \in {"scangrant", "scandequeue"} => q < rq_size /\ RQ[q] = dcur
  /\ dpc = "scangrant" => canGrant(dcur) /\ REQUEST[dcur] # Zero

(* Whoever waits in the queue could not be granted, except for those that  *)
(* a scan of the queue, due since something was given back, has not        *)
(* reached yet.                                                            *)
Serving  == {"serve", "servegrant", "dequeue", "servesignal"}
Scanning == {"scan", "scangrant", "scandequeue", "scansignal"}

NothingFits ==
  \A k \in 0 .. rq_size - 1 : \/ mpc = "ackrelease"
                              \/ mpc \in Serving /\ k >= i
                              \/ dpc \in Scanning /\ k >= q
                              \/ ~ canGrant(RQ[k])

Calm == CalmTypes /\ Plans /\ AckFits /\ GrantMutex /\ QueueExact /\ NothingFits

(* What holds before every step of an unhurried run.                       *)
Unhurried == unhurried /\ Stands /\ Grants /\ Calm

LEMMA CalmInit == Init => Calm
<1> SUFFICES ASSUME Init PROVE Calm
  OBVIOUS
<1>0. Fits(Zero, Zero) /\ Plus(Zero, Zero) = Zero /\ Fits(Zero, TOTAL)
  BY VectorFacts
<1>1. CalmTypes
  BY VectorFacts, Threads, AllocationAssumption DEF Init, CalmTypes, Slots
<1>2. Plans
  BY <1>0 DEF Init, Plans, Plan
<1>3. AckFits /\ GrantMutex
  BY DEF Init, AckFits, GrantMutex
<1>4. QueueExact
  BY DEF Init, QueueExact, Distinct, Queued, Waits, Leaving
<1>5. NothingFits
  BY DEF Init, NothingFits
<1>. QED
  BY <1>1, <1>2, <1>3, <1>4, <1>5 DEF Calm
-----------------------------------------------------------------------------
(* Unhurried, one thread works on the shared state at a time: the          *)
(* dlhandler while the manager waits, the manager while nobody but the     *)
(* worker it serves is on its way to it.                                   *)
LEMMA OneAtATime ==
  ASSUME Unhurried
  PROVE  /\ mpc # "wait" => dpc \in {"sleep", "end"} /\ \A w \in Workers : pc[w] \notin Before
         /\ mpc \notin Acking \cup {"woken"} => \A w \in Workers : pc[w] \notin After
         /\ dpc \notin {"sleep", "end"} => \A w \in Workers : pc[w] \notin HoldsR
         /\ mpc \in Acking \/ (mpc = "woken" /\ REQTYPE \in {"ALLOCATE", "RELEASE"}) =>
               /\ REQFROM \in Workers /\ pc[REQFROM] \in After
               /\ REQTYPE = IF type[REQFROM] = "FINAL" THEN "RELEASE" ELSE type[REQFROM]
               /\ type[REQFROM] \in Kinds
               /\ \A w \in Workers : pc[w] \in HoldsR => w = REQFROM
<1> USE DEF Before, After, HoldsR
<1>0. /\ unhurried /\ HandshakeTypes /\ Owners /\ LastOneOut /\ ManagerServes
      /\ ManagerWaits /\ RequestStands /\ type \in [Workers -> Kinds]
  BY DEF Unhurried, Stands, HInv
<1>1. mpc # "wait" => dpc \in {"sleep", "end"} /\ \A w \in Workers : pc[w] \notin Before
  BY <1>0 DEF ManagerWaits, Owners
<1>2. mpc \notin Acking \cup {"woken"} => \A w \in Workers : pc[w] \notin After
  BY <1>0 DEF ManagerWaits
<1>3. dpc \notin {"sleep", "end"} => \A w \in Workers : pc[w] \notin HoldsR
  BY <1>0, Threads DEF Owners
<1>4. ASSUME mpc \in Acking \/ (mpc = "woken" /\ REQTYPE \in {"ALLOCATE", "RELEASE"})
      PROVE  /\ REQFROM \in Workers /\ pc[REQFROM] \in After
             /\ REQTYPE = IF type[REQFROM] = "FINAL" THEN "RELEASE" ELSE type[REQFROM]
             /\ type[REQFROM] \in Kinds
             /\ \A w \in Workers : pc[w] \in HoldsR => w = REQFROM
  <2>1. Served /\ REQFROM \in Workers
    BY <1>0, <1>4 DEF ManagerServes, LastOneOut, HandshakeTypes
  <2>. QED
    BY <1>0, <2>1 DEF Served, Owners, RequestStands
<1>. QED
  BY <1>1, <1>2, <1>3, <1>4
-----------------------------------------------------------------------------
(* What the queue holds are workers.                                       *)
LEMMA InSlots ==
  ASSUME CalmTypes
  PROVE  \A k \in 0 .. rq_size - 1 : k \in Slots /\ RQ[k] \in Workers
BY AllocationAssumption DEF CalmTypes, Slots, Workers

(* Whatever the bound it was drawn below, a vector is one.                 *)
LEMMA Drawn == \A b : \A v \in [Resources -> 0 .. b] : v \in Vectors
  BY DEF Vectors

(* A worker draws a request: it is in nobody's way yet.                    *)
LEMMA CalmGen ==
  ASSUME Unhurried, NEW w \in Workers, GenAllocation(w) \/ GenRelease(w) \/ GenFinal(w)
  PROVE  Calm'
<1> USE DEF Asking, Hopeful, After, Before
<1>0. /\ HandshakeTypes /\ type \in [Workers -> Kinds] /\ REQFROM \in Workers
      /\ CalmTypes /\ Plans /\ AckFits /\ GrantMutex /\ QueueExact /\ NothingFits
  BY DEF Unhurried, Stands, HInv, Calm, HandshakeTypes
<1>1. /\ UNCHANGED <<AVAILABLE, ALLOCATION, RQ, rq_size, WMTX, REQFROM, REQTYPE>>
      /\ UNCHANGED <<mpc, i, cur, dpc, q, dcur>>
  BY DEF GenAllocation, GenRelease, GenFinal, queue, words, locks, manager, handler
<1>2. /\ pc[w] = "gen" /\ pc'[w] \in {"lock", "exit"}
      /\ \A v \in Workers : v # w => pc'[v] = pc[v] /\ type'[v] = type[v]
                                     /\ REQUEST'[v] = REQUEST[v] /\ RELEASE'[v] = RELEASE[v]
  BY <1>0 DEF GenAllocation, GenRelease, GenFinal, Goto, HandshakeTypes, CalmTypes
<1>3. REQUEST[w] = Zero /\ RELEASE[w] = Zero
  BY <1>0, <1>2 DEF Plans, Plan
<1>4. /\ REQUEST' \in [Workers -> Vectors] /\ RELEASE' \in [Workers -> Vectors] /\ Plan(w)'
  <2>0. Fits(Zero, ALLOCATION[w]) /\ ALLOCATION[w] \in Vectors
    BY <1>0, VectorFacts DEF CalmTypes
  <2>1. CASE GenAllocation(w)
    <3>1. PICK v \in Vectors : Fits(v, Less(TOTAL, ALLOCATION[w])) /\ REQUEST' = [REQUEST EXCEPT ![w] = v]
      BY <2>1, Drawn DEF GenAllocation
    <3>2. REQUEST'[w] = v /\ REQUEST' \in [Workers -> Vectors] /\ RELEASE' = RELEASE
      BY <1>0, <2>1, <3>1 DEF CalmTypes, GenAllocation
    <3>3. Fits(Plus(v, ALLOCATION[w]), TOTAL)
      BY <2>0, <3>1, VectorFacts
    <3>4. pc'[w] = "lock" /\ type'[w] = "ALLOCATE"
      BY <1>0, <2>1 DEF GenAllocation, Goto, HandshakeTypes
    <3>. QED
      BY <1>0, <1>1, <1>3, <2>0, <3>2, <3>3, <3>4 DEF Plan, CalmTypes
  <2>2. CASE GenRelease(w)
    <3>1. PICK v \in Vectors : Fits(v, ALLOCATION[w]) /\ RELEASE' = [RELEASE EXCEPT ![w] = v]
      BY <2>2, Drawn DEF GenRelease
    <3>2. /\ RELEASE'[w] = v /\ RELEASE' \in [Workers -> Vectors]
          /\ REQUEST'[w] = Zero /\ REQUEST' \in [Workers -> Vectors]
      BY <1>0, <1>3, <2>2, <3>1, ZeroVector DEF CalmTypes, GenRelease
    <3>3. Fits(Plus(Zero, ALLOCATION[w]), TOTAL)
      BY <1>0, <1>3 DEF Plans, Plan
    <3>4. pc'[w] = "lock" /\ type'[w] = "RELEASE"
      BY <1>0, <2>2 DEF GenRelease, Goto, HandshakeTypes
    <3>. QED
      BY <1>1, <3>1, <3>2, <3>3, <3>4 DEF Plan
  <2>3. CASE GenFinal(w)
    <3>1. /\ RELEASE'[w] = ALLOCATION[w] /\ RELEASE' \in [Workers -> Vectors]
          /\ REQUEST' = REQUEST
          /\ pc'[w] = IF ALLOCATION[w] = Zero THEN "exit" ELSE "lock"
          /\ type'[w] = "FINAL"
      BY <1>0, <2>3 DEF CalmTypes, GenFinal, Goto, HandshakeTypes
    <3>2. Fits(Plus(Zero, ALLOCATION[w]), TOTAL) /\ Fits(ALLOCATION[w], ALLOCATION[w])
      BY <1>0, <1>3, VectorFacts DEF Plans, Plan, CalmTypes
    <3>. QED
      BY <1>0, <1>1, <1>3, <3>1, <3>2 DEF Plan, CalmTypes
  <2>. QED
    BY <2>1, <2>2, <2>3
<1>5. CalmTypes'
  BY <1>0, <1>1, <1>4 DEF CalmTypes
<1>6. Plans'
  BY <1>0, <1>1, <1>2, <1>4 DEF Plans, Plan
<1>7. mpc \in Acking => REQFROM # w
  BY <1>2, OneAtATime
<1>8. AckFits'
  BY <1>0, <1>1, <1>2, <1>7 DEF AckFits, Acking
<1>9. ~ Listens(w) /\ \A v \in Workers : v # w => (Listens(v)' <=> Listens(v))
  BY <1>2 DEF Listens
<1>10. GrantMutex'
  BY <1>0, <1>1, <1>2, <1>9 DEF GrantMutex, CalmTypes
<1>11. /\ \A v \in Workers : Leaving(v)' <=> Leaving(v)
       /\ \A v \in Workers : Waits(v)' <=> Waits(v)
  BY <1>1, <1>2, <1>7 DEF Waits, Leaving, Acking
<1>12. ~ Waits(w) /\ ~ Leaving(w)
  BY <1>0, <1>2, <1>7, <1>9 DEF Waits, Leaving, Acking, GrantMutex
<1>13. \A k \in 0 .. rq_size - 1 : RQ[k] # w /\ (canGrant(RQ[k])' <=> canGrant(RQ[k]))
  <2>1. \A k \in 0 .. rq_size - 1 : RQ[k] # w /\ RQ[k] \in Workers
    <3>1. ~ Queued(w)
      BY <1>0, <1>12 DEF QueueExact
    <3>. QED
      BY <1>0, <3>1, InSlots DEF Queued
  <2>. QED
    BY <1>1, <1>2, <2>1 DEF canGrant
<1>14. \A v \in Workers : v # w => (canGrant(v)' <=> canGrant(v))
  BY <1>1, <1>2 DEF canGrant
<1>15. QueueExact'
  <2>1. Distinct' /\ \A v \in Workers : Queued(v)' <=> Queued(v)
    BY <1>0, <1>1 DEF QueueExact, Distinct, Queued
  <2>. QED
    BY <1>0, <1>1, <1>2, <1>9, <1>11, <1>14, <2>1 DEF QueueExact, GrantMutex, CalmTypes
<1>16. NothingFits'
  BY <1>0, <1>1, <1>13 DEF NothingFits
<1>. QED
  BY <1>5, <1>6, <1>8, <1>10, <1>15, <1>16 DEF Calm

(* The other steps of a worker touch neither matrices nor queue.           *)
LEMMA CalmWorker ==
  ASSUME Unhurried, NEW w \in Workers,
         \/ LockRequest(w) \/ Publish(w) \/ LockAck(w) \/ LockGrant(w) \/ Signal(w)
         \/ AckSleep(w) \/ Acked(w) \/ GrantSleep(w) \/ Granted(w) \/ Exit(w)
  PROVE  Calm'
<1> USE DEF Asking, Hopeful, After, Before
<1>0. /\ unhurried /\ HandshakeTypes /\ type \in [Workers -> Kinds] /\ REQFROM \in Workers
      /\ CalmTypes /\ Plans /\ AckFits /\ GrantMutex /\ QueueExact /\ NothingFits
      /\ \A v \in Workers : pc[v] = "granted" => REQUEST[v] = Zero
  BY DEF Unhurried, Stands, HInv, Calm, HandshakeTypes, Grants
<1>1. /\ UNCHANGED <<AVAILABLE, ALLOCATION, REQUEST, RELEASE, RQ, rq_size, type>>
      /\ UNCHANGED <<i, cur, dpc, q, dcur>>
      /\ mpc' = mpc \/ (mpc \in {"start", "wait"} /\ mpc' \in {"start", "woken"})
  BY DEF LockRequest, Publish, LockAck, LockGrant, Signal, AckSleep, Acked, GrantSleep,
     Granted, Exit, SignalManager, matrices, queue, manager, handler
<1>2. \A v \in Workers : v # w => pc'[v] = pc[v]
  BY <1>0 DEF LockRequest, Publish, LockAck, LockGrant, Signal, AckSleep, Acked, GrantSleep,
     Granted, Exit, Goto, HandshakeTypes
<1>3. /\ REQFROM' = REQFROM \/ mpc = "wait"
      /\ REQTYPE' = REQTYPE \/ mpc = "wait"
  <2>1. CASE Publish(w)
    BY <1>0, <2>1, OneAtATime DEF Publish, Goto, HandshakeTypes
  <2>2. CASE ~ Publish(w)
    BY <1>0, <2>2 DEF LockRequest, LockAck, LockGrant, Signal, AckSleep, Acked, GrantSleep,
       Granted, Exit, LockR, words
  <2>. QED
    BY <2>1, <2>2
<1>4. /\ pc[w] \in Hopeful /\ type[w] = "ALLOCATE" => pc'[w] \in Hopeful
      /\ pc'[w] \in Hopeful => pc[w] \in Hopeful
      /\ pc'[w] \in Asking \cup Hopeful => pc[w] \in Asking \cup Hopeful
      /\ pc[w] \in Asking => pc'[w] \in Asking
      /\ pc'[w] \in {"lockgrant", "grantsleep", "grantwait", "granted"} =>
            pc[w] \in {"grantsleep", "grantwait", "granted"} \/ type[w] = "ALLOCATE"
      /\ pc[w] \in Hopeful /\ pc'[w] \notin Hopeful => pc[w] = "acked"
  BY <1>0 DEF LockRequest, Publish, LockAck, LockGrant, Signal, AckSleep, Acked, GrantSleep,
     Granted, Exit, Goto, HandshakeTypes, Kinds
<1>5. CalmTypes'
  <2>1. WMTX' \in [Workers -> {NOBODY, MANAGER} \cup Workers]
    BY <1>0 DEF LockRequest, Publish, LockAck, LockGrant, Signal, AckSleep, Acked, GrantSleep,
       Granted, Exit, LockW, UnlockW, CalmTypes, locks
  <2>. QED
    BY <1>0, <1>1, <2>1 DEF CalmTypes
<1>6. Plans'
  BY <1>0, <1>1, <1>2, <1>4 DEF Plans, Plan
<1>7. AckFits'
  BY <1>0, <1>1, <1>3 DEF AckFits
<1>8. GrantMutex'
  <2>1. \A v \in Workers : Listens(v) => Listens(v)'
    BY <1>1, <1>2, <1>4 DEF Listens
  <2>2. \A v \in Workers :
          type[v] = "ALLOCATE" /\ pc'[v] \in {"signal", "acksleep", "ackwait", "acked", "grantsleep"}
             => WMTX'[v] = v
    <3>1. CASE LockGrant(w)
      BY <1>0, <1>1, <1>2, <3>1 DEF LockGrant, LockW, GrantMutex, CalmTypes
    <3>2. CASE GrantSleep(w)
      BY <1>0, <1>1, <1>2, <3>2 DEF GrantSleep, UnlockW, GrantMutex, CalmTypes, Goto, HandshakeTypes
    <3>3. CASE \/ LockRequest(w) \/ Publish(w) \/ LockAck(w) \/ Signal(w)
               \/ AckSleep(w) \/ Acked(w) \/ Granted(w) \/ Exit(w)
      <4>1. /\ WMTX' = WMTX
            /\ type[w] = "ALLOCATE" /\ pc'[w] \in {"signal", "acksleep", "ackwait", "acked", "grantsleep"}
                  => pc[w] \in {"signal", "acksleep", "ackwait", "acked", "grantsleep"}
        BY <1>0, <3>3 DEF LockRequest, Publish, LockAck, Signal, AckSleep, Acked, Granted, Exit,
           Goto, HandshakeTypes, locks
      <4>. QED
        BY <1>0, <1>2, <4>1 DEF GrantMutex
    <3>. QED
      BY <3>1, <3>2, <3>3
  <2>3. mpc = "wake" => WMTX'[REQFROM] = MANAGER
    <3>1. ASSUME mpc = "wake" PROVE WMTX'[REQFROM] = WMTX[REQFROM]
      <4>1. /\ \A v \in Workers : WMTX[v] = v => v # REQFROM
            /\ WMTX[REQFROM] = MANAGER
        BY <1>0, <3>1, AllocationAssumption DEF GrantMutex, MANAGER, Workers
      <4>2. CASE LockGrant(w)
        BY <1>0, <4>1, <4>2, AllocationAssumption DEF LockGrant, LockW, CalmTypes, NOBODY, MANAGER
      <4>3. CASE GrantSleep(w)
        <5>1. pc[w] = "grantsleep" /\ type[w] = "ALLOCATE"
          BY <1>0, <4>3 DEF GrantSleep, Goto, Plans, Plan
        <5>. QED
          BY <1>0, <4>1, <4>3, <5>1 DEF GrantSleep, UnlockW, GrantMutex, CalmTypes
      <4>. QED
        BY <4>2, <4>3 DEF LockRequest, Publish, LockAck, Signal, AckSleep, Acked, Granted, Exit, locks
    <3>. QED
      BY <1>0, <3>1 DEF GrantMutex
  <2>. QED
    BY <1>0, <1>1, <1>3, <2>1, <2>2, <2>3 DEF GrantMutex, CalmTypes
<1>9. \A v \in Workers : /\ Leaving(v)' <=> Leaving(v)
                         /\ Waits(v)' <=> Waits(v)
                         /\ Queued(v)' <=> Queued(v)
                         /\ canGrant(v)' <=> canGrant(v)
  <2>1. REQUEST[w] # Zero => (pc'[w] \in Hopeful <=> pc[w] \in Hopeful)
    BY <1>0, <1>4 DEF Plans, Plan
  <2>2. mpc' = "ackwait" \/ mpc = "ackwait" => mpc' = mpc /\ REQFROM' = REQFROM
    BY <1>1, <1>3
  <2>. QED
    BY <1>1, <1>2, <2>1, <2>2 DEF Waits, Leaving, Queued, canGrant
<1>10. QueueExact'
  <2>1. Distinct'
    BY <1>0, <1>1 DEF QueueExact, Distinct
  <2>. QED
    BY <1>0, <1>1, <1>9, <2>1 DEF QueueExact, CalmTypes
<1>11. NothingFits'
  BY <1>0, <1>1 DEF NothingFits, canGrant, Serving
<1>. QED
  BY <1>5, <1>6, <1>7, <1>8, <1>10, <1>11 DEF Calm
-----------------------------------------------------------------------------
(* There is room for whoever is not queued yet.                            *)
LEMMA EnqueueFacts ==
  ASSUME CalmTypes, Distinct, NEW w \in Workers, ~ Queued(w), Enqueue(w)
  PROVE  /\ rq_size' = rq_size + 1 /\ rq_size' \in 0 .. N
         /\ RQ' \in [Slots -> Workers] /\ RQ'[rq_size] = w
         /\ \A k \in 0 .. rq_size - 1 : RQ'[k] = RQ[k]
         /\ Distinct'
         /\ \A v \in Workers : Queued(v)' <=> Queued(v) \/ v = w
<1>0. /\ N \in Nat \ {0} /\ rq_size \in 0 .. N /\ RQ \in [Slots -> Workers]
      /\ \A k \in 0 .. rq_size - 1 : k \in Slots /\ RQ[k] \in Workers /\ RQ[k] # w
  BY AllocationAssumption, InSlots DEF CalmTypes, Queued
<1>1. rq_size < N
  <2> SUFFICES ASSUME rq_size = N PROVE FALSE
    BY <1>0
  <2> DEFINE f == [k \in 0 .. N |-> IF k = N THEN w ELSE RQ[k]]
  <2>1. f \in [0 .. N -> Workers]
    BY <1>0
  <2>2. IsFiniteSet(0 .. N) /\ Cardinality(0 .. N) = N + 1
    BY <1>0, FS_Interval
  <2>3. Cardinality(Workers) < Cardinality(0 .. N)
    BY <1>0, <2>2, Threads
  <2>4. \A x, y \in 0 .. N : f[x] = f[y] => x = y
    BY <1>0 DEF Distinct
  <2> HIDE DEF f
  <2>5. IsFiniteSet(Workers)
    BY Threads
  <2>6. \E x, y \in 0 .. N : x # y /\ f[x] = f[y]
    BY <2>1, <2>2, <2>3, <2>5, FS_PigeonHole
  <2>. QED
    BY <2>4, <2>6
<1>2. rq_size \in Slots /\ RQ' = [RQ EXCEPT ![rq_size] = w] /\ rq_size' = rq_size + 1
  BY <1>0, <1>1 DEF Enqueue, Slots, Workers
<1>3. /\ RQ' \in [Slots -> Workers] /\ RQ'[rq_size] = w
      /\ \A k \in 0 .. rq_size - 1 : RQ'[k] = RQ[k]
  BY <1>0, <1>2
<1>4. Distinct'
  BY <1>0, <1>2, <1>3 DEF Distinct
<1>5. \A v \in Workers : Queued(v)' <=> Queued(v) \/ v = w
  BY <1>0, <1>2, <1>3 DEF Queued
<1>. QED
  BY <1>0, <1>1, <1>2, <1>3, <1>4, <1>5

(* One leaves, the others keep their order.                                *)
LEMMA DequeueFacts ==
  ASSUME CalmTypes, Distinct, NEW k \in 0 .. N, k < rq_size, Dequeue(k)
  PROVE  /\ rq_size' = rq_size - 1 /\ rq_size' \in 0 .. N
         /\ RQ' \in [Slots -> Workers]
         /\ \A l \in 0 .. rq_size - 2 : RQ'[l] = IF l < k THEN RQ[l] ELSE RQ[l+1]
         /\ Distinct'
         /\ \A v \in Workers : Queued(v)' <=> Queued(v) /\ v # RQ[k]
<1>0. /\ N \in Nat \ {0} /\ rq_size \in 1 .. N /\ RQ \in [Slots -> Workers]
      /\ k \in Nat /\ rq_size' = rq_size - 1
      /\ \A l \in 0 .. rq_size - 1 : l \in Slots /\ RQ[l] \in Workers
  BY AllocationAssumption, InSlots DEF CalmTypes, Dequeue
<1>1. RQ' \in [Slots -> Workers]
  <2>1. \A s \in Slots : s \in k .. rq_size - 2 => s + 1 \in 0 .. rq_size - 1
    BY <1>0
  <2>2. \A s \in Slots : (IF s \in k .. rq_size - 2 THEN RQ[s+1] ELSE RQ[s]) \in Workers
    BY <1>0, <2>1
  <2>. QED
    BY <2>2 DEF Dequeue
<1>2. \A l \in 0 .. rq_size - 2 : RQ'[l] = IF l < k THEN RQ[l] ELSE RQ[l+1]
  <2> SUFFICES ASSUME NEW l \in 0 .. rq_size - 2
               PROVE  RQ'[l] = IF l < k THEN RQ[l] ELSE RQ[l+1]
    OBVIOUS
  <2>1. l \in Slots
    BY <1>0
  <2>2. RQ'[l] = IF l \in k .. rq_size - 2 THEN RQ[l+1] ELSE RQ[l]
    BY <2>1 DEF Dequeue
  <2>. QED
    BY <1>0, <2>2
<1>3. Distinct'
  <2> SUFFICES ASSUME NEW a \in 0 .. rq_size - 2, NEW b \in 0 .. rq_size - 2, RQ'[a] = RQ'[b]
               PROVE  a = b
    BY <1>0 DEF Distinct
  <2> DEFINE up(l) == IF l < k THEN l ELSE l + 1
  <2>1. up(a) \in 0 .. rq_size - 1 /\ up(b) \in 0 .. rq_size - 1 /\ RQ[up(a)] = RQ[up(b)]
    BY <1>0, <1>2
  <2>2. up(a) = up(b)
    BY <2>1 DEF Distinct
  <2>. QED
    BY <1>0, <2>2
<1>4. ASSUME NEW v \in Workers PROVE Queued(v)' <=> Queued(v) /\ v # RQ[k]
  <2>1. ASSUME Queued(v)' PROVE Queued(v) /\ v # RQ[k]
    <3>1. PICK l \in 0 .. rq_size - 2 : RQ'[l] = v
      BY <1>0, <2>1 DEF Queued
    <3> DEFINE m == IF l < k THEN l ELSE l + 1
    <3>2. m \in 0 .. rq_size - 1 /\ m # k /\ k \in 0 .. rq_size - 1 /\ RQ[m] = v
      BY <1>0, <1>2, <3>1
    <3>. QED
      BY <3>2 DEF Queued, Distinct
  <2>2. ASSUME Queued(v), v # RQ[k] PROVE Queued(v)'
    <3>1. PICK m \in 0 .. rq_size - 1 : RQ[m] = v
      BY <2>2 DEF Queued
    <3> DEFINE l == IF m < k THEN m ELSE m - 1
    <3>2. l \in 0 .. rq_size' - 1 /\ RQ'[l] = v
      BY <1>0, <1>2, <2>2, <3>1
    <3>. QED
      BY <3>2 DEF Queued
  <2>. QED
    BY <2>1, <2>2
<1>. QED
  BY <1>0, <1>1, <1>2, <1>3, <1>4

(* A grant to a worker whose request fits.                                 *)
LEMMA GrantFacts ==
  ASSUME CalmTypes, Plans, NEW w \in Workers, type[w] = "ALLOCATE",
         canGrant(w), grantRequest(w)
  PROVE  /\ AVAILABLE' \in Vectors /\ ALLOCATION' \in [Workers -> Vectors]
         /\ REQUEST' \in [Workers -> Vectors] /\ RELEASE' = RELEASE
         /\ REQUEST'[w] = Zero /\ RELEASE[w] = Zero
         /\ Fits(RELEASE[w], ALLOCATION'[w])
         /\ Fits(Plus(Zero, ALLOCATION'[w]), TOTAL)
         /\ \A v \in Workers \ {w} : /\ ALLOCATION'[v] = ALLOCATION[v]
                                     /\ REQUEST'[v] = REQUEST[v]
                                     /\ canGrant(v)' => canGrant(v)
<1>0. /\ AVAILABLE \in Vectors /\ ALLOCATION \in [Workers -> Vectors]
      /\ REQUEST \in [Workers -> Vectors] /\ Plan(w)
  BY DEF CalmTypes, Plans
<1>1. AVAILABLE' \in Vectors /\ Fits(AVAILABLE', AVAILABLE)
  BY <1>0, VectorFacts DEF canGrant, grantRequest
<1>2. /\ ALLOCATION' \in [Workers -> Vectors] /\ REQUEST' \in [Workers -> Vectors]
      /\ ALLOCATION'[w] = Plus(ALLOCATION[w], REQUEST[w]) /\ REQUEST'[w] = Zero
      /\ \A v \in Workers \ {w} : ALLOCATION'[v] = ALLOCATION[v] /\ REQUEST'[v] = REQUEST[v]
  BY <1>0, VectorFacts DEF grantRequest
<1>3. RELEASE[w] = Zero
  BY <1>0 DEF Plan
<1>4. Fits(Plus(Zero, ALLOCATION'[w]), TOTAL)
  BY <1>0, <1>2, VectorFacts DEF Plan
<1>5. \A v \in Workers \ {w} : canGrant(v)' => canGrant(v)
  <2> SUFFICES ASSUME NEW v \in Workers \ {w}, Fits(REQUEST[v], AVAILABLE')
               PROVE  Fits(REQUEST[v], AVAILABLE)
    BY <1>2 DEF canGrant
  <2>1. REQUEST[v] \in Vectors
    BY <1>0
  <2>. QED
    BY <1>0, <1>1, <2>1, VectorFacts
<1>. QED
  BY <1>0, <1>1, <1>2, <1>3, <1>4, <1>5, VectorFacts DEF grantRequest
-----------------------------------------------------------------------------
(* The manager moves on without touching matrices or queue.                *)
LEMMA CalmMove ==
  ASSUME Unhurried, Start \/ ServeQuit \/ ServeNothing \/ Clear \/ Join
  PROVE  Calm'
<1> USE DEF MGoto
<1>0. CalmTypes /\ Plans /\ AckFits /\ GrantMutex /\ QueueExact /\ NothingFits
  BY DEF Unhurried, Calm
<1>1. /\ UNCHANGED <<AVAILABLE, ALLOCATION, REQUEST, RELEASE, RQ, rq_size, WMTX>>
      /\ UNCHANGED <<REQFROM, pc, type, i, cur, dpc, q, dcur>>
      /\ mpc \in {"start", "woken", "clear", "join"} /\ mpc' \in {"wait", "join", "clear", "end"}
  BY DEF Start, ServeQuit, ServeNothing, Clear, Join, matrices, queue, words, locks, worker, handler
<1>2. CalmTypes' /\ Plans' /\ AckFits' /\ GrantMutex'
  BY <1>0, <1>1 DEF CalmTypes, Plans, Plan, AckFits, GrantMutex, Listens
<1>3. QueueExact'
  <2>1. \A v \in Workers : /\ Leaving(v)' <=> Leaving(v)
                           /\ Waits(v)' <=> Waits(v)
                           /\ Queued(v)' <=> Queued(v)
                           /\ canGrant(v)' <=> canGrant(v)
    BY <1>1 DEF Waits, Leaving, Queued, canGrant
  <2>. QED
    BY <1>0, <1>1, <2>1 DEF QueueExact, Distinct, CalmTypes
<1>4. NothingFits'
  BY <1>0, <1>1 DEF NothingFits, canGrant, Serving
<1>. QED
  BY <1>2, <1>3, <1>4 DEF Calm

(* What the manager finds when it serves an allocation or a release.       *)
LEMMA AtService ==
  ASSUME Unhurried, mpc = "woken", REQTYPE \in {"ALLOCATE", "RELEASE"}
  PROVE  /\ REQFROM \in Workers /\ pc[REQFROM] \in After
         /\ type[REQFROM] = "ALLOCATE" <=> REQTYPE = "ALLOCATE"
         /\ ~ Waits(REQFROM) /\ ~ Queued(REQFROM)
         /\ dpc \in {"sleep", "end"}
<1>1. /\ REQFROM \in Workers /\ pc[REQFROM] \in After
      /\ type[REQFROM] = "ALLOCATE" <=> REQTYPE = "ALLOCATE"
      /\ dpc \in {"sleep", "end"}
  BY OneAtATime DEF Kinds
<1>2. ~ Waits(REQFROM) /\ ~ Leaving(REQFROM)
  BY <1>1 DEF Waits, Leaving, Hopeful, After
<1>. QED
  BY <1>1, <1>2 DEF Unhurried, Calm, QueueExact

LEMMA CalmRelease == ASSUME Unhurried, ServeRelease PROVE Calm'
<1> USE DEF MGoto
<1>0. CalmTypes /\ Plans /\ AckFits /\ GrantMutex /\ QueueExact /\ NothingFits
  BY DEF Unhurried, Calm
<1>1. /\ UNCHANGED <<REQUEST, RQ, rq_size, WMTX, REQFROM, REQTYPE, pc, type>>
      /\ UNCHANGED <<i, cur, dpc, q, dcur>>
      /\ mpc = "woken" /\ mpc' = "ackrelease" /\ REQTYPE = "RELEASE"
      /\ AVAILABLE'  = Plus(AVAILABLE, RELEASE[REQFROM])
      /\ ALLOCATION' = [ALLOCATION EXCEPT ![REQFROM] = Less(@, RELEASE[REQFROM])]
      /\ RELEASE'    = [RELEASE EXCEPT ![REQFROM] = Zero]
  BY DEF ServeRelease, queue, words, locks, worker, handler
<1>2. REQFROM \in Workers /\ type[REQFROM] # "ALLOCATE" /\ dpc \in {"sleep", "end"}
  BY <1>1, AtService
<1>3. /\ ALLOCATION[REQFROM] \in Vectors /\ RELEASE[REQFROM] \in Vectors
      /\ Fits(RELEASE[REQFROM], ALLOCATION[REQFROM]) /\ REQUEST[REQFROM] = Zero
      /\ Fits(Plus(Zero, ALLOCATION[REQFROM]), TOTAL)
  BY <1>0, <1>2 DEF CalmTypes, Plans, Plan
<1>4. /\ Less(ALLOCATION[REQFROM], RELEASE[REQFROM]) \in Vectors
      /\ Fits(Less(ALLOCATION[REQFROM], RELEASE[REQFROM]), ALLOCATION[REQFROM])
      /\ Plus(AVAILABLE, RELEASE[REQFROM]) \in Vectors
  BY <1>0, <1>3, VectorFacts DEF CalmTypes
<1>5. /\ ALLOCATION' \in [Workers -> Vectors] /\ RELEASE' \in [Workers -> Vectors]
      /\ ALLOCATION'[REQFROM] = Less(ALLOCATION[REQFROM], RELEASE[REQFROM])
      /\ RELEASE'[REQFROM] = Zero
      /\ \A v \in Workers : v # REQFROM =>
            ALLOCATION'[v] = ALLOCATION[v] /\ RELEASE'[v] = RELEASE[v]
  BY <1>0, <1>1, <1>2, <1>4, VectorFacts DEF CalmTypes
<1>6. CalmTypes'
  BY <1>0, <1>1, <1>4, <1>5 DEF CalmTypes
<1>7. Plan(REQFROM)'
  <2>0. Zero \in Vectors
    BY VectorFacts
  <2>1. Fits(Plus(Zero, ALLOCATION'[REQFROM]), TOTAL)
    BY <1>3, <1>4, <1>5, <2>0, FitsBeside
  <2>2. Fits(Zero, ALLOCATION'[REQFROM])
    BY <1>4, <1>5, VectorFacts
  <2>3. REQFROM' = REQFROM /\ REQUEST'[REQFROM] = Zero /\ RELEASE'[REQFROM] = Zero
    BY <1>1, <1>3, <1>5
  <2>. QED
    BY <1>0, <1>1, <1>2, <2>1, <2>2, <2>3 DEF Plan, Plans
<1>8. Plans'
  BY <1>0, <1>1, <1>5, <1>7 DEF Plans, Plan
<1>9. AckFits' /\ GrantMutex'
  BY <1>0, <1>1, <1>2, <1>5 DEF AckFits, GrantMutex, Listens
<1>10. QueueExact'
  BY <1>0, <1>1, <1>2 DEF QueueExact, Distinct, Queued, Waits, Leaving
<1>11. NothingFits'
  BY <1>1 DEF NothingFits
<1>. QED
  BY <1>6, <1>8, <1>9, <1>10, <1>11 DEF Calm

LEMMA CalmGrant == ASSUME Unhurried, ServeGrant PROVE Calm'
<1> USE DEF MGoto
<1>0. CalmTypes /\ Plans /\ AckFits /\ GrantMutex /\ QueueExact /\ NothingFits
  BY DEF Unhurried, Calm
<1>1. /\ UNCHANGED <<RQ, rq_size, WMTX, REQFROM, REQTYPE, pc, type>>
      /\ UNCHANGED <<i, cur, dpc, q, dcur>>
      /\ mpc = "woken" /\ mpc' = "ackgrant" /\ REQTYPE = "ALLOCATE"
      /\ canGrant(REQFROM) /\ grantRequest(REQFROM)
  BY DEF ServeGrant, queue, words, locks, worker, handler
<1>2. /\ REQFROM \in Workers /\ type[REQFROM] = "ALLOCATE" /\ dpc \in {"sleep", "end"}
      /\ pc[REQFROM] \in After /\ ~ Queued(REQFROM)
  BY <1>1, AtService
<1>3. /\ AVAILABLE' \in Vectors /\ ALLOCATION' \in [Workers -> Vectors]
      /\ REQUEST' \in [Workers -> Vectors] /\ RELEASE' = RELEASE
      /\ REQUEST'[REQFROM] = Zero /\ RELEASE[REQFROM] = Zero
      /\ Fits(RELEASE[REQFROM], ALLOCATION'[REQFROM])
      /\ Fits(Plus(Zero, ALLOCATION'[REQFROM]), TOTAL)
      /\ \A v \in Workers \ {REQFROM} : /\ ALLOCATION'[v] = ALLOCATION[v]
                                        /\ REQUEST'[v] = REQUEST[v]
                                        /\ canGrant(v)' => canGrant(v)
  BY <1>0, <1>1, <1>2, GrantFacts
<1>4. CalmTypes'
  BY <1>0, <1>1, <1>3 DEF CalmTypes
<1>5. Plans'
  BY <1>0, <1>1, <1>2, <1>3 DEF Plans, Plan
<1>6. AckFits' /\ GrantMutex'
  BY <1>0, <1>1, <1>2, <1>3 DEF AckFits, GrantMutex, Listens
<1>7. \A v \in Workers : /\ Leaving(v)' <=> Leaving(v)
                         /\ Waits(v)' <=> Waits(v)
                         /\ Queued(v)' <=> Queued(v)
  BY <1>1, <1>2, <1>3 DEF Waits, Leaving, Queued, Hopeful, After
<1>8. QueueExact'
  BY <1>0, <1>1, <1>2, <1>7 DEF QueueExact, Distinct
<1>9. NothingFits'
  <2> SUFFICES ASSUME NEW k \in 0 .. rq_size - 1 PROVE ~ canGrant(RQ[k])'
    BY <1>1 DEF NothingFits
  <2>1. RQ[k] \in Workers \ {REQFROM} /\ ~ canGrant(RQ[k])
    BY <1>0, <1>1, <1>2, InSlots DEF NothingFits, Queued, Serving, Scanning
  <2>. QED
    BY <1>1, <1>3, <2>1
<1>. QED
  BY <1>4, <1>5, <1>6, <1>8, <1>9 DEF Calm

LEMMA CalmEnqueue == ASSUME Unhurried, ServeWait PROVE Calm'
<1> USE DEF MGoto
<1>0. CalmTypes /\ Plans /\ AckFits /\ GrantMutex /\ QueueExact /\ NothingFits
  BY DEF Unhurried, Calm
<1>1. /\ UNCHANGED <<AVAILABLE, ALLOCATION, REQUEST, RELEASE, WMTX, REQFROM, REQTYPE, pc, type>>
      /\ UNCHANGED <<i, cur, dpc, q, dcur>>
      /\ mpc = "woken" /\ mpc' = "ackwait" /\ REQTYPE = "ALLOCATE"
      /\ ~ canGrant(REQFROM) /\ Enqueue(REQFROM)
  BY DEF ServeWait, matrices, words, locks, worker, handler
<1>2. /\ REQFROM \in Workers /\ type[REQFROM] = "ALLOCATE" /\ dpc \in {"sleep", "end"}
      /\ pc[REQFROM] \in After /\ ~ Queued(REQFROM)
  BY <1>1, AtService
<1>3. REQUEST[REQFROM] # Zero
  BY <1>0, <1>1, VectorFacts DEF canGrant, CalmTypes
<1>4. /\ rq_size' = rq_size + 1 /\ rq_size' \in 0 .. N
      /\ RQ' \in [Slots -> Workers] /\ RQ'[rq_size] = REQFROM
      /\ \A k \in 0 .. rq_size - 1 : RQ'[k] = RQ[k]
      /\ Distinct'
      /\ \A v \in Workers : Queued(v)' <=> Queued(v) \/ v = REQFROM
  BY <1>0, <1>1, <1>2, EnqueueFacts DEF QueueExact
<1>5. CalmTypes' /\ Plans' /\ AckFits' /\ GrantMutex'
  BY <1>0, <1>1, <1>4 DEF CalmTypes, Plans, Plan, AckFits, GrantMutex, Listens
<1>6. \A v \in Workers : /\ ~ Leaving(v) /\ ~ Leaving(v)'
                         /\ Waits(v)' <=> Waits(v) \/ v = REQFROM
  BY <1>1, <1>2, <1>3 DEF Waits, Leaving
<1>7. QueueExact'
  BY <1>0, <1>1, <1>2, <1>4, <1>6 DEF QueueExact
<1>8. NothingFits'
  <2>1. \A k \in 0 .. rq_size - 1 : ~ canGrant(RQ[k])
    BY <1>0, <1>1, <1>2 DEF NothingFits, Serving, Scanning
  <2>2. \A v : canGrant(v)' <=> canGrant(v)
    BY <1>1 DEF canGrant
  <2>3. \A k \in 0 .. rq_size : ~ canGrant(RQ'[k])
    BY <1>0, <1>1, <1>4, <2>1 DEF CalmTypes
  <2>. QED
    BY <1>0, <1>1, <1>4, <2>3 DEF NothingFits, canGrant, CalmTypes
<1>. QED
  BY <1>5, <1>7, <1>8 DEF Calm

(* The acknowledgment reaches the worker whose request it answers, and     *)
(* nobody else.                                                            *)
LEMMA AckReaches ==
  ASSUME Unhurried, Ack
  PROVE  /\ UNCHANGED <<AVAILABLE, ALLOCATION, REQUEST, RELEASE, RQ, rq_size, WMTX, REQFROM, REQTYPE>>
         /\ UNCHANGED <<STATUS, type, round, cur, dpc, q, dcur>> /\ i' = 0
         /\ \/ mpc = "ackrelease" /\ mpc' = "serve"
            \/ mpc = "ackgrant" /\ mpc' = "lockwake"
            \/ mpc = "ackwait" /\ mpc' = "clear"
         /\ REQFROM \in Workers /\ pc[REQFROM] = "ackwait" /\ pc'[REQFROM] = "acked"
         /\ \A v \in Workers : v # REQFROM => pc'[v] = pc[v]
         /\ REQTYPE = IF type[REQFROM] = "FINAL" THEN "RELEASE" ELSE type[REQFROM]
         /\ dpc \in {"sleep", "end"}
         /\ \A w \in Workers : pc[w] \in HoldsR => w = REQFROM
<1> USE DEF MGoto
<1>0. HandshakeTypes
  BY DEF Unhurried, Stands, HInv
<1>1. /\ UNCHANGED <<AVAILABLE, ALLOCATION, REQUEST, RELEASE, RQ, rq_size, WMTX, REQFROM, REQTYPE>>
      /\ UNCHANGED <<STATUS, type, round, cur, dpc, q, dcur>> /\ i' = 0
      /\ \/ mpc = "ackrelease" /\ mpc' = "serve"
         \/ mpc = "ackgrant" /\ mpc' = "lockwake"
         \/ mpc = "ackwait" /\ mpc' = "clear"
  BY DEF Ack, AckTo, matrices, queue, words, active, locks, handler
<1>2. /\ REQFROM \in Workers /\ pc[REQFROM] = "ackwait" /\ dpc \in {"sleep", "end"}
      /\ REQTYPE = IF type[REQFROM] = "FINAL" THEN "RELEASE" ELSE type[REQFROM]
      /\ \A w \in Workers : pc[w] \in HoldsR => w = REQFROM
  <2>1. mpc \in Acking /\ AMTX = NOBODY
    BY <1>1 DEF Ack, AckTo, Acking
  <2>2. REQFROM \in Workers /\ pc[REQFROM] # "acksleep"
    BY <1>0, <2>1, Threads DEF Unhurried, Stands, HInv, Owners, HoldsA, HandshakeTypes
  <2>. QED
    BY <2>1, <2>2, <1>1, OneAtATime DEF After
<1>3. /\ pc'[REQFROM] = "acked"
      /\ \A v \in Workers : v # REQFROM => pc'[v] = pc[v]
  <2>1. {w \in Workers : pc[w] = "ackwait"} = {REQFROM}
    BY <1>2 DEF HoldsR
  <2>2. pc' = [pc EXCEPT ![REQFROM] = "acked"]
    BY <1>2, <2>1 DEF Ack, AckTo
  <2>. QED
    BY <1>0, <1>2, <2>2 DEF HandshakeTypes
<1>. QED
  BY <1>1, <1>2, <1>3

LEMMA CalmAck == ASSUME Unhurried, Ack PROVE Calm'
<1>0. /\ CalmTypes /\ Plans /\ AckFits /\ GrantMutex /\ QueueExact /\ NothingFits
      /\ HandshakeTypes /\ Grants
  BY DEF Unhurried, Calm, Stands, HInv
<1>1. /\ UNCHANGED <<AVAILABLE, ALLOCATION, REQUEST, RELEASE, RQ, rq_size, WMTX, REQFROM, REQTYPE>>
      /\ UNCHANGED <<type, cur, dpc, q, dcur>> /\ i' = 0
      /\ \/ mpc = "ackrelease" /\ mpc' = "serve"
         \/ mpc = "ackgrant" /\ mpc' = "lockwake"
         \/ mpc = "ackwait" /\ mpc' = "clear"
  BY AckReaches
<1>2. /\ REQFROM \in Workers /\ pc[REQFROM] = "ackwait" /\ dpc \in {"sleep", "end"}
      /\ REQTYPE = IF type[REQFROM] = "FINAL" THEN "RELEASE" ELSE type[REQFROM]
      /\ \A w \in Workers : pc[w] \in HoldsR => w = REQFROM
  BY AckReaches
<1>3. /\ pc'[REQFROM] = "acked"
      /\ \A v \in Workers : v # REQFROM => pc'[v] = pc[v]
  BY AckReaches
<1>4. /\ mpc = "ackrelease" => type[REQFROM] # "ALLOCATE"
      /\ mpc \in {"ackgrant", "ackwait"} => type[REQFROM] = "ALLOCATE"
  BY <1>0, <1>2 DEF AckFits
<1>5. mpc # "ackwait" => REQUEST[REQFROM] = Zero
  <2>1. CASE mpc = "ackrelease"
    BY <1>0, <1>2, <1>4, <2>1 DEF Plans, Plan
  <2>2. CASE mpc = "ackgrant"
    BY <1>0, <1>2, <2>2 DEF Grants, Told, Answered, Listening
  <2>. QED
    BY <1>1, <2>1, <2>2
<1>6. RELEASE[REQFROM] = Zero
  BY <1>0, <1>1, <1>2, <1>4 DEF AckFits, Plans, Plan
<1>7. CalmTypes' /\ AckFits'
  BY <1>0, <1>1, AllocationAssumption DEF CalmTypes, AckFits
<1>8. Plans'
  BY <1>0, <1>1, <1>2, <1>3, <1>4, <1>5, <1>6 DEF Plans, Plan, Asking, Hopeful
<1>9. GrantMutex'
  BY <1>0, <1>1, <1>2, <1>3, <1>4 DEF GrantMutex, Listens, Hopeful
<1>10. \A v \in Workers : /\ ~ Leaving(v)' /\ ~ Leaving(v)
                          /\ Waits(v)' <=> Waits(v)
                          /\ Queued(v)' <=> Queued(v)
  BY <1>1, <1>2, <1>3, <1>5 DEF Waits, Leaving, Queued, Hopeful
<1>11. QueueExact'
  BY <1>0, <1>1, <1>2, <1>10 DEF QueueExact, Distinct
<1>12. NothingFits'
  BY <1>0, <1>1, <1>2 DEF NothingFits, canGrant, Serving, Scanning
<1>. QED
  BY <1>7, <1>8, <1>9, <1>11, <1>12 DEF Calm

(* The steps that tell a worker of its grant.                              *)
LEMMA CalmTell ==
  ASSUME Unhurried, WakeLock \/ WakeRequester \/ ServeSignal
  PROVE  Calm'
<1> USE DEF MGoto
<1>0. /\ CalmTypes /\ Plans /\ AckFits /\ GrantMutex /\ QueueExact /\ NothingFits
      /\ HandshakeTypes /\ REQFROM \in Workers /\ Grants
  BY DEF Unhurried, Calm, Stands, HInv, HandshakeTypes
<1>1. /\ UNCHANGED <<AVAILABLE, ALLOCATION, REQUEST, RELEASE, RQ, rq_size, REQFROM, REQTYPE>>
      /\ UNCHANGED <<type, i, cur, dpc, q, dcur>>
      /\ \/ mpc = "lockwake" /\ mpc' = "wake"
         \/ mpc = "wake" /\ mpc' = "clear"
         \/ mpc = "servesignal" /\ mpc' = "serve"
  BY DEF WakeLock, WakeRequester, ServeSignal, matrices, queue, words, locks, worker, handler
<1>2. dpc \in {"sleep", "end"}
  BY <1>1, OneAtATime
<1>3. \A v \in Workers : \/ pc'[v] = pc[v]
                         \/ /\ pc[v] = "grantwait" /\ pc'[v] = "granted"
                            /\ REQUEST[v] = Zero
  BY <1>0, <1>1 DEF WakeLock, WakeRequester, ServeSignal, Wake, worker, HandshakeTypes,
     Grants, Told, Answered, Listening
<1>4. \A v \in Workers : REQUEST[v] # Zero => pc'[v] = pc[v]
  BY <1>3
<1>5. CalmTypes' /\ AckFits'
  <2>1. WMTX' \in [Workers -> {NOBODY, MANAGER} \cup Workers]
    BY <1>0 DEF WakeLock, WakeRequester, ServeSignal, LockW, UnlockW, CalmTypes, locks
  <2>. QED
    BY <1>0, <1>1, <2>1 DEF CalmTypes, AckFits
<1>6. Plans'
  BY <1>0, <1>1, <1>3 DEF Plans, Plan, Hopeful, Asking
<1>7. GrantMutex'
  <2> DEFINE Holding == {"signal", "acksleep", "ackwait", "acked", "grantsleep"}
  <2>1. \A v \in Workers : pc'[v] \in Holding => pc[v] \in Holding
    BY <1>3
  <2>2. NOBODY \notin Workers /\ MANAGER \notin Workers
    BY AllocationAssumption DEF Workers, NOBODY, MANAGER
  <2>3. CASE WakeLock
    <3>1. WMTX[REQFROM] = NOBODY /\ WMTX' = [WMTX EXCEPT ![REQFROM] = MANAGER] /\ pc' = pc
      BY <2>3 DEF WakeLock, LockW, worker
    <3>2. \A v \in Workers : WMTX[v] = v => v # REQFROM
      BY <2>2, <3>1
    <3>. QED
      BY <1>0, <1>1, <1>2, <2>3, <3>1, <3>2 DEF GrantMutex, CalmTypes, Listens, WakeLock
  <2>4. CASE WakeRequester
    <3>1. /\ WMTX[REQFROM] = MANAGER /\ WMTX' = [WMTX EXCEPT ![REQFROM] = NOBODY]
          /\ mpc' = "clear"
      BY <1>0, <2>4 DEF WakeRequester, UnlockW, GrantMutex
    <3>2. \A v \in Workers : WMTX[v] = v => v # REQFROM
      BY <2>2, <3>1
    <3>. QED
      BY <1>0, <1>1, <1>2, <2>1, <3>1, <3>2 DEF GrantMutex, CalmTypes
  <2>5. CASE ServeSignal
    BY <1>0, <1>1, <1>2, <2>1, <2>5 DEF GrantMutex, ServeSignal, locks
  <2>. QED
    BY <2>3, <2>4, <2>5
<1>8. \A v \in Workers : /\ ~ Leaving(v)' /\ ~ Leaving(v)
                         /\ Waits(v)' <=> Waits(v)
                         /\ Queued(v)' <=> Queued(v)
  BY <1>1, <1>2, <1>4 DEF Waits, Leaving, Queued
<1>9. QueueExact'
  BY <1>0, <1>1, <1>2, <1>8 DEF QueueExact, Distinct
<1>10. NothingFits'
  BY <1>0, <1>1, <1>2 DEF NothingFits, canGrant, Serving, Scanning
<1>. QED
  BY <1>5, <1>6, <1>7, <1>9, <1>10 DEF Calm
-----------------------------------------------------------------------------
(* serveRq: whoever is looked at in the queue waits for its grant.         *)
LEMMA InQueueWaits ==
  ASSUME Unhurried, NEW k \in 0 .. rq_size - 1, ~ Leaving(RQ[k]), mpc # "ackwait"
  PROVE  /\ RQ[k] \in Workers /\ REQUEST[RQ[k]] # Zero
         /\ Listens(RQ[k])
<1>1. RQ[k] \in Workers /\ Queued(RQ[k])
  BY InSlots DEF Unhurried, Calm, Queued
<1>2. Waits(RQ[k]) /\ Plan(RQ[k])
  BY <1>1 DEF Unhurried, Calm, QueueExact, Plans
<1>. QED
  BY <1>1, <1>2 DEF Waits, Listens, Plan

LEMMA CalmServeTest == ASSUME Unhurried, ServeTest PROVE Calm'
<1>0. /\ CalmTypes /\ Plans /\ AckFits /\ GrantMutex /\ QueueExact /\ NothingFits
  BY DEF Unhurried, Calm
<1>1. /\ UNCHANGED <<AVAILABLE, ALLOCATION, REQUEST, RELEASE, RQ, rq_size, WMTX, REQFROM, REQTYPE>>
      /\ UNCHANGED <<pc, type, dpc, q, dcur>> /\ mpc = "serve"
      /\ \/ i >= rq_size /\ mpc' = "clear" /\ i' = i /\ cur' = cur
         \/ /\ i < rq_size /\ cur' = RQ[i]
            /\ canGrant(RQ[i]) /\ mpc' = "servegrant" /\ i' = i
         \/ /\ i < rq_size /\ cur' = RQ[i]
            /\ ~ canGrant(RQ[i]) /\ mpc' = "serve" /\ i' = i + 1
  BY DEF ServeTest, matrices, queue, words, locks, worker, handler
<1>2. dpc \in {"sleep", "end"}
  BY <1>1, OneAtATime
<1>3. i < rq_size => /\ i \in 0 .. rq_size - 1 /\ RQ[i] \in Workers
                     /\ REQUEST[RQ[i]] # Zero /\ Listens(RQ[i])
  <2> SUFFICES ASSUME i < rq_size
               PROVE  /\ i \in 0 .. rq_size - 1 /\ RQ[i] \in Workers
                      /\ REQUEST[RQ[i]] # Zero /\ Listens(RQ[i])
    OBVIOUS
  <2>1. i \in 0 .. rq_size - 1 /\ ~ Leaving(RQ[i])
    BY <1>0, <1>1, <1>2 DEF CalmTypes, Leaving
  <2>. QED
    BY <1>1, <2>1, InQueueWaits
<1>4. CalmTypes'
  BY <1>0, <1>1, <1>3, AllocationAssumption DEF CalmTypes
<1>5. Plans' /\ AckFits'
  BY <1>0, <1>1 DEF Plans, Plan, AckFits
<1>6. GrantMutex'
  BY <1>0, <1>1, <1>2, <1>3 DEF GrantMutex, Listens
<1>7. \A v \in Workers : /\ ~ Leaving(v)' /\ ~ Leaving(v)
                         /\ Waits(v)' <=> Waits(v)
                         /\ Queued(v)' <=> Queued(v)
                         /\ canGrant(v)' <=> canGrant(v)
  BY <1>1, <1>2 DEF Waits, Leaving, Queued, canGrant
<1>8. QueueExact'
  <2>1. Distinct'
    BY <1>0, <1>1 DEF QueueExact, Distinct
  <2>2. mpc' = "servegrant" => /\ i' < rq_size' /\ RQ'[i'] = cur'
                               /\ canGrant(cur)' /\ REQUEST'[cur'] # Zero
    BY <1>1, <1>3 DEF canGrant
  <2>. QED
    BY <1>0, <1>1, <1>2, <1>7, <2>1, <2>2 DEF QueueExact
<1>9. NothingFits'
  BY <1>0, <1>1, <1>2 DEF NothingFits, canGrant, Serving, Scanning, CalmTypes
<1>. QED
  BY <1>4, <1>5, <1>6, <1>8, <1>9 DEF Calm

LEMMA CalmServeGrant == ASSUME Unhurried, ServeQueued PROVE Calm'
<1> USE DEF MGoto
<1>0. /\ CalmTypes /\ Plans /\ AckFits /\ GrantMutex /\ QueueExact /\ NothingFits
  BY DEF Unhurried, Calm
<1>1. /\ UNCHANGED <<RQ, rq_size, WMTX, REQFROM, REQTYPE, pc, type>>
      /\ UNCHANGED <<i, cur, dpc, q, dcur>>
      /\ mpc = "servegrant" /\ mpc' = "dequeue" /\ grantRequest(cur)
  BY DEF ServeQueued, queue, words, locks, worker, handler
<1>2. /\ dpc \in {"sleep", "end"} /\ cur \in Workers /\ Listens(cur) /\ canGrant(cur)
      /\ i \in 0 .. rq_size - 1 /\ RQ[i] = cur /\ REQUEST[cur] # Zero
  BY <1>0, <1>1, OneAtATime DEF GrantMutex, QueueExact, CalmTypes
<1>3. /\ AVAILABLE' \in Vectors /\ ALLOCATION' \in [Workers -> Vectors]
      /\ REQUEST' \in [Workers -> Vectors] /\ RELEASE' = RELEASE
      /\ REQUEST'[cur] = Zero /\ RELEASE[cur] = Zero
      /\ Fits(RELEASE[cur], ALLOCATION'[cur])
      /\ Fits(Plus(Zero, ALLOCATION'[cur]), TOTAL)
      /\ \A v \in Workers \ {cur} : /\ ALLOCATION'[v] = ALLOCATION[v]
                                    /\ REQUEST'[v] = REQUEST[v]
                                    /\ canGrant(v)' => canGrant(v)
  BY <1>0, <1>1, <1>2, GrantFacts DEF Listens
<1>4. CalmTypes'
  BY <1>0, <1>1, <1>3 DEF CalmTypes
<1>5. Plans'
  BY <1>0, <1>1, <1>2, <1>3 DEF Plans, Plan, Listens
<1>6. AckFits' /\ GrantMutex'
  BY <1>0, <1>1, <1>2, <1>3 DEF AckFits, GrantMutex, Listens
<1>7. \A v \in Workers : /\ ~ Leaving(v)
                         /\ Leaving(v)' <=> v = cur
                         /\ Waits(v)' <=> Waits(v) /\ v # cur
                         /\ Queued(v)' <=> Queued(v)
  BY <1>1, <1>2, <1>3 DEF Waits, Leaving, Queued
<1>8. QueueExact'
  <2>1. Queued(cur)
    BY <1>2 DEF Queued
  <2>. QED
    BY <1>0, <1>1, <1>2, <1>7, <2>1 DEF QueueExact, Distinct
<1>9. NothingFits'
  <2> SUFFICES ASSUME NEW k \in 0 .. rq_size - 1, k < i PROVE ~ canGrant(RQ[k])'
    BY <1>1, <1>0 DEF NothingFits, Serving, CalmTypes
  <2>1. RQ[k] \in Workers \ {cur} /\ ~ canGrant(RQ[k])
    BY <1>0, <1>1, <1>2, InSlots DEF NothingFits, QueueExact, Distinct, Serving, Scanning
  <2>. QED
    BY <1>1, <1>3, <2>1
<1>. QED
  BY <1>4, <1>5, <1>6, <1>8, <1>9 DEF Calm

LEMMA CalmDequeue == ASSUME Unhurried, ServeDequeue PROVE Calm'
<1> USE DEF MGoto
<1>0. /\ CalmTypes /\ Plans /\ AckFits /\ GrantMutex /\ QueueExact /\ NothingFits /\ Grants
  BY DEF Unhurried, Calm
<1>1. /\ UNCHANGED <<AVAILABLE, ALLOCATION, REQUEST, RELEASE, WMTX, REQFROM, REQTYPE, pc, type>>
      /\ UNCHANGED <<i, cur, dpc, q, dcur>>
      /\ mpc = "dequeue" /\ mpc' = "servesignal" /\ Dequeue(i)
  BY DEF ServeDequeue, matrices, words, locks, worker, handler
<1>2. /\ dpc \in {"sleep", "end"} /\ cur \in Workers /\ Listens(cur)
      /\ i \in 0 .. N /\ i < rq_size /\ RQ[i] = cur
  BY <1>0, <1>1, OneAtATime DEF GrantMutex, QueueExact, CalmTypes
<1>3. REQUEST[cur] = Zero
  BY <1>0, <1>1, <1>2 DEF Grants, Told, Answered, Listens, Listening, Hopeful
<1>4. /\ rq_size' = rq_size - 1 /\ rq_size' \in 0 .. N
      /\ RQ' \in [Slots -> Workers]
      /\ \A l \in 0 .. rq_size - 2 : RQ'[l] = IF l < i THEN RQ[l] ELSE RQ[l+1]
      /\ Distinct'
      /\ \A v \in Workers : Queued(v)' <=> Queued(v) /\ v # cur
  BY <1>0, <1>1, <1>2, DequeueFacts DEF QueueExact
<1>5. CalmTypes' /\ Plans' /\ AckFits' /\ GrantMutex'
  BY <1>0, <1>1, <1>2, <1>4 DEF CalmTypes, Plans, Plan, AckFits, GrantMutex, Listens
<1>6. \A v \in Workers : /\ ~ Leaving(v)'
                         /\ Leaving(v) <=> v = cur
                         /\ Waits(v)' <=> Waits(v)
                         /\ Waits(v) => v # cur
  BY <1>1, <1>2, <1>3 DEF Waits, Leaving
<1>7. QueueExact'
  BY <1>0, <1>1, <1>2, <1>4, <1>6 DEF QueueExact
<1>8. NothingFits'
  BY <1>0, <1>1, <1>2, <1>4 DEF NothingFits, canGrant, Serving, Scanning, CalmTypes
<1>. QED
  BY <1>5, <1>7, <1>8 DEF Calm
-----------------------------------------------------------------------------
(* The dlhandler comes, looks and goes without touching matrices or queue. *)
LEMMA CalmLook ==
  ASSUME Unhurried, LockDetect \/ Quit \/ QuitSignal \/ NoDeadlock
  PROVE  Calm'
<1> USE DEF DGoto
<1>0. CalmTypes /\ Plans /\ AckFits /\ GrantMutex /\ QueueExact /\ NothingFits
  BY DEF Unhurried, Calm
<1>1. /\ UNCHANGED <<AVAILABLE, ALLOCATION, REQUEST, RELEASE, RQ, rq_size, WMTX, REQFROM>>
      /\ UNCHANGED <<pc, type, i, cur, q, dcur>>
      /\ dpc \in {"sleep", "quit", "quitsignal", "detect"}
      /\ dpc' \in {"quit", "quitsignal", "detect", "sleep", "end"}
      /\ \/ mpc' = mpc
         \/ mpc = "wait" /\ mpc' = "woken"
      /\ REQTYPE' = REQTYPE \/ dpc = "quit"
  BY DEF LockDetect, Quit, QuitSignal, NoDeadlock, SignalManager,
     matrices, queue, words, locks, worker, manager, handler
<1>2. dpc = "quit" => mpc = "wait"
  BY OneAtATime
<1>3. CalmTypes' /\ Plans' /\ AckFits' /\ GrantMutex'
  BY <1>0, <1>1, <1>2 DEF CalmTypes, Plans, Plan, AckFits, GrantMutex, Listens
<1>4. QueueExact'
  <2>1. \A v \in Workers : /\ Leaving(v)' <=> Leaving(v)
                           /\ Waits(v)' <=> Waits(v)
                           /\ Queued(v)' <=> Queued(v)
                           /\ canGrant(v)' <=> canGrant(v)
    BY <1>1 DEF Waits, Leaving, Queued, canGrant
  <2>. QED
    BY <1>0, <1>1, <2>1 DEF QueueExact, Distinct, CalmTypes
<1>5. NothingFits'
  BY <1>0, <1>1 DEF NothingFits, canGrant, Serving, Scanning
<1>. QED
  BY <1>3, <1>4, <1>5 DEF Calm

(* Whom the dlhandler preempts is asking for more, so it keeps its request *)
(* and has no release under way.                                           *)
LEMMA AtPreemption ==
  ASSUME Unhurried, Preempt, NEW victim, victim = Victim(ALLOCATION, Blocked)
  PROVE  /\ victim \in Workers /\ REQUEST[victim] # Zero
         /\ type[victim] = "ALLOCATE" /\ RELEASE[victim] = Zero
         /\ mpc = "wait" /\ mpc' = mpc /\ dpc = "detect" /\ dpc' = "scan" /\ q' = 0
         /\ AVAILABLE' = Plus(AVAILABLE, ALLOCATION[victim])
         /\ ALLOCATION' = [ALLOCATION EXCEPT ![victim] = Zero]
         /\ UNCHANGED <<REQUEST, RELEASE, RQ, rq_size, REQFROM, REQTYPE, RMTX, AMTX, WMTX>>
         /\ UNCHANGED <<NACTIVE, STATUS, unhurried, pc, type, round, i, cur, dcur>>
<1>1. CalmTypes /\ Plans
  BY DEF Unhurried, Calm
<1> DEFINE exited == {w \in Workers : STATUS[w] = "EXITED"}
<1>2. /\ Blocked = Unfinished(AVAILABLE, ALLOCATION, REQUEST, exited)
      /\ Blocked # {} /\ exited \in SUBSET Workers
  BY DEF Preempt, Blocked
<1> HIDE DEF exited
<1>3. AVAILABLE \in Vectors /\ ALLOCATION \in [Workers -> Vectors] /\ REQUEST \in [Workers -> Vectors]
  BY <1>1 DEF CalmTypes
<1>4. Blocked \in SUBSET Workers /\ \A w \in Blocked : REQUEST[w] # Zero
  BY <1>2, <1>3, UnfinishedAsk
<1>5. victim \in Blocked
  BY <1>2, <1>3, <1>4, VictimFacts
<1>6. victim \in Workers /\ REQUEST[victim] # Zero /\ Plan(victim)
  BY <1>1, <1>4, <1>5 DEF Plans
<1>7. mpc = "wait"
  BY OneAtATime DEF Preempt, DGoto
<1>. QED
  BY <1>6, <1>7, Zenon DEF Plan, Preempt, DGoto, queue, words, active, locks, worker, manager

LEMMA CalmPreempt == ASSUME Unhurried, Preempt PROVE Calm'
<1>0. CalmTypes /\ Plans /\ AckFits /\ GrantMutex /\ QueueExact /\ NothingFits
  BY DEF Unhurried, Calm
<1> DEFINE victim == Victim(ALLOCATION, Blocked)
<1>1. /\ victim \in Workers /\ REQUEST[victim] # Zero
      /\ type[victim] = "ALLOCATE" /\ RELEASE[victim] = Zero
      /\ mpc = "wait" /\ mpc' = mpc /\ dpc = "detect" /\ dpc' = "scan" /\ q' = 0
      /\ AVAILABLE' = Plus(AVAILABLE, ALLOCATION[victim])
      /\ ALLOCATION' = [ALLOCATION EXCEPT ![victim] = Zero]
      /\ UNCHANGED <<REQUEST, RELEASE, RQ, rq_size, REQFROM, REQTYPE, RMTX, AMTX, WMTX>>
      /\ UNCHANGED <<NACTIVE, STATUS, unhurried, pc, type, round, i, cur, dcur>>
  BY AtPreemption
<1> HIDE DEF victim
<1>2. /\ ALLOCATION \in [Workers -> Vectors] /\ REQUEST \in [Workers -> Vectors]
      /\ AVAILABLE \in Vectors /\ TOTAL \in Vectors /\ Zero \in Vectors /\ 0 \in 0 .. N
      /\ ALLOCATION[victim] \in Vectors
  BY <1>0, <1>1, VectorFacts, AllocationAssumption DEF CalmTypes
<1>3. CalmTypes'
  BY <1>0, <1>1, <1>2, VectorFacts DEF CalmTypes
<1>4. Plans'
  <2>1. Fits(Zero, Zero) /\ Fits(Zero, ALLOCATION[victim])
    BY <1>2, VectorFacts
  <2>2. Fits(Plus(REQUEST[victim], Zero), TOTAL)
    BY <1>0, <1>1, <1>2, <2>1, FitsBeside DEF Plans, Plan
  <2>. QED
    BY <1>0, <1>1, <1>2, <2>1, <2>2 DEF Plans, Plan
<1>5. AckFits' /\ GrantMutex'
  BY <1>0, <1>1 DEF AckFits, GrantMutex, Listens
<1>6. QueueExact'
  <2>1. \A v \in Workers : /\ Leaving(v)' <=> Leaving(v)
                           /\ Waits(v)' <=> Waits(v)
                           /\ Queued(v)' <=> Queued(v)
    BY <1>1 DEF Waits, Leaving, Queued
  <2>. QED
    BY <1>0, <1>1, <2>1 DEF QueueExact, Distinct
<1>7. NothingFits'
  BY <1>0, <1>1 DEF NothingFits, Scanning
<1>. QED
  BY <1>3, <1>4, <1>5, <1>6, <1>7 DEF Calm

(* The dlhandler's scan of the queue.                                      *)
LEMMA CalmScanTest == ASSUME Unhurried, ScanTest PROVE Calm'
<1>0. /\ CalmTypes /\ Plans /\ AckFits /\ GrantMutex /\ QueueExact /\ NothingFits
  BY DEF Unhurried, Calm
<1>1. /\ UNCHANGED <<AVAILABLE, ALLOCATION, REQUEST, RELEASE, RQ, rq_size, WMTX, REQFROM, REQTYPE>>
      /\ UNCHANGED <<pc, type, mpc, i, cur>> /\ dpc = "scan"
      /\ \/ q >= rq_size /\ dpc' = "detect" /\ q' = q /\ dcur' = dcur
         \/ /\ q < rq_size /\ dcur' = RQ[q]
            /\ canGrant(RQ[q]) /\ dpc' = "scangrant" /\ q' = q
         \/ /\ q < rq_size /\ dcur' = RQ[q]
            /\ ~ canGrant(RQ[q]) /\ dpc' = "scan" /\ q' = q + 1
  BY DEF ScanTest, matrices, queue, words, locks, worker, manager
<1>2. mpc = "wait"
  BY <1>1, OneAtATime
<1>3. q < rq_size => /\ q \in 0 .. rq_size - 1 /\ RQ[q] \in Workers
                     /\ REQUEST[RQ[q]] # Zero /\ Listens(RQ[q])
  <2> SUFFICES ASSUME q < rq_size
               PROVE  /\ q \in 0 .. rq_size - 1 /\ RQ[q] \in Workers
                      /\ REQUEST[RQ[q]] # Zero /\ Listens(RQ[q])
    OBVIOUS
  <2>1. q \in 0 .. rq_size - 1 /\ ~ Leaving(RQ[q])
    BY <1>0, <1>1, <1>2 DEF CalmTypes, Leaving
  <2>. QED
    BY <1>1, <1>2, <2>1, InQueueWaits
<1>4. CalmTypes'
  BY <1>0, <1>1, <1>3, AllocationAssumption DEF CalmTypes
<1>5. Plans' /\ AckFits'
  BY <1>0, <1>1 DEF Plans, Plan, AckFits
<1>6. GrantMutex'
  BY <1>0, <1>1, <1>2, <1>3 DEF GrantMutex, Listens
<1>7. \A v \in Workers : /\ ~ Leaving(v)' /\ ~ Leaving(v)
                         /\ Waits(v)' <=> Waits(v)
                         /\ Queued(v)' <=> Queued(v)
                         /\ canGrant(v)' <=> canGrant(v)
  BY <1>1, <1>2 DEF Waits, Leaving, Queued, canGrant
<1>8. QueueExact'
  <2>1. Distinct'
    BY <1>0, <1>1 DEF QueueExact, Distinct
  <2>2. dpc' = "scangrant" => /\ q' < rq_size' /\ RQ'[q'] = dcur'
                              /\ canGrant(dcur)' /\ REQUEST'[dcur'] # Zero
    BY <1>1, <1>3 DEF canGrant
  <2>. QED
    BY <1>0, <1>1, <1>2, <1>7, <2>1, <2>2 DEF QueueExact
<1>9. NothingFits'
  BY <1>0, <1>1, <1>2 DEF NothingFits, canGrant, Serving, Scanning, CalmTypes
<1>. QED
  BY <1>4, <1>5, <1>6, <1>8, <1>9 DEF Calm

LEMMA CalmScanGrant == ASSUME Unhurried, ScanGrant PROVE Calm'
<1> USE DEF DGoto
<1>0. CalmTypes /\ Plans /\ AckFits /\ GrantMutex /\ QueueExact /\ NothingFits
  BY DEF Unhurried, Calm
<1>1. /\ UNCHANGED <<RQ, rq_size, WMTX, REQFROM, REQTYPE, pc, type>>
      /\ UNCHANGED <<mpc, i, cur, q, dcur>>
      /\ dpc = "scangrant" /\ dpc' = "scandequeue" /\ grantRequest(dcur)
  BY DEF ScanGrant, queue, words, locks, worker, manager
<1>2. /\ mpc = "wait" /\ dcur \in Workers /\ Listens(dcur) /\ canGrant(dcur)
      /\ q \in 0 .. rq_size - 1 /\ RQ[q] = dcur /\ REQUEST[dcur] # Zero
  BY <1>0, <1>1, OneAtATime DEF GrantMutex, QueueExact, CalmTypes
<1>3. /\ AVAILABLE' \in Vectors /\ ALLOCATION' \in [Workers -> Vectors]
      /\ REQUEST' \in [Workers -> Vectors] /\ RELEASE' = RELEASE
      /\ REQUEST'[dcur] = Zero /\ RELEASE[dcur] = Zero
      /\ Fits(RELEASE[dcur], ALLOCATION'[dcur])
      /\ Fits(Plus(Zero, ALLOCATION'[dcur]), TOTAL)
      /\ \A v \in Workers \ {dcur} : /\ ALLOCATION'[v] = ALLOCATION[v]
                                     /\ REQUEST'[v] = REQUEST[v]
                                     /\ canGrant(v)' => canGrant(v)
  BY <1>0, <1>1, <1>2, GrantFacts DEF Listens
<1>4. CalmTypes'
  BY <1>0, <1>1, <1>3 DEF CalmTypes
<1>5. Plans'
  BY <1>0, <1>1, <1>2, <1>3 DEF Plans, Plan, Listens
<1>6. AckFits' /\ GrantMutex'
  BY <1>0, <1>1, <1>2, <1>3 DEF AckFits, GrantMutex, Listens
<1>7. \A v \in Workers : /\ ~ Leaving(v)
                         /\ Leaving(v)' <=> v = dcur
                         /\ Waits(v)' <=> Waits(v) /\ v # dcur
                         /\ Queued(v)' <=> Queued(v)
  BY <1>1, <1>2, <1>3 DEF Waits, Leaving, Queued
<1>8. QueueExact'
  <2>1. Queued(dcur)
    BY <1>2 DEF Queued
  <2>. QED
    BY <1>0, <1>1, <1>2, <1>7, <2>1 DEF QueueExact, Distinct
<1>9. NothingFits'
  <2> SUFFICES ASSUME NEW k \in 0 .. rq_size - 1, k < q PROVE ~ canGrant(RQ[k])'
    BY <1>1, <1>0 DEF NothingFits, Scanning, CalmTypes
  <2>1. RQ[k] \in Workers \ {dcur} /\ ~ canGrant(RQ[k])
    BY <1>0, <1>1, <1>2, InSlots DEF NothingFits, QueueExact, Distinct, Serving, Scanning
  <2>. QED
    BY <1>1, <1>3, <2>1
<1>. QED
  BY <1>4, <1>5, <1>6, <1>8, <1>9 DEF Calm

LEMMA CalmScanDequeue == ASSUME Unhurried, ScanDequeue PROVE Calm'
<1> USE DEF DGoto
<1>0. /\ CalmTypes /\ Plans /\ AckFits /\ GrantMutex /\ QueueExact /\ NothingFits /\ Grants
  BY DEF Unhurried, Calm
<1>1. /\ UNCHANGED <<AVAILABLE, ALLOCATION, REQUEST, RELEASE, WMTX, REQFROM, REQTYPE, pc, type>>
      /\ UNCHANGED <<mpc, i, cur, q, dcur>>
      /\ dpc = "scandequeue" /\ dpc' = "scansignal" /\ Dequeue(q)
  BY DEF ScanDequeue, matrices, words, locks, worker, manager
<1>2. /\ mpc = "wait" /\ dcur \in Workers /\ Listens(dcur)
      /\ q \in 0 .. N /\ q < rq_size /\ RQ[q] = dcur
  BY <1>0, <1>1, OneAtATime DEF GrantMutex, QueueExact, CalmTypes
<1>3. REQUEST[dcur] = Zero
  BY <1>0, <1>1, <1>2 DEF Grants, Told, Answered, Listens, Listening, Hopeful
<1>4. /\ rq_size' = rq_size - 1 /\ rq_size' \in 0 .. N
      /\ RQ' \in [Slots -> Workers]
      /\ \A l \in 0 .. rq_size - 2 : RQ'[l] = IF l < q THEN RQ[l] ELSE RQ[l+1]
      /\ Distinct'
      /\ \A v \in Workers : Queued(v)' <=> Queued(v) /\ v # dcur
  BY <1>0, <1>1, <1>2, DequeueFacts DEF QueueExact
<1>5. CalmTypes' /\ Plans' /\ AckFits' /\ GrantMutex'
  BY <1>0, <1>1, <1>2, <1>4 DEF CalmTypes, Plans, Plan, AckFits, GrantMutex, Listens
<1>6. \A v \in Workers : /\ ~ Leaving(v)'
                         /\ Leaving(v) <=> v = dcur
                         /\ Waits(v)' <=> Waits(v)
                         /\ Waits(v) => v # dcur
  BY <1>1, <1>2, <1>3 DEF Waits, Leaving
<1>7. QueueExact'
  BY <1>0, <1>1, <1>2, <1>4, <1>6 DEF QueueExact
<1>8. NothingFits'
  BY <1>0, <1>1, <1>2, <1>4 DEF NothingFits, canGrant, Serving, Scanning, CalmTypes
<1>. QED
  BY <1>5, <1>7, <1>8 DEF Calm

LEMMA CalmScanSignal == ASSUME Unhurried, ScanSignal PROVE Calm'
<1> USE DEF DGoto
<1>0. /\ CalmTypes /\ Plans /\ AckFits /\ GrantMutex /\ QueueExact /\ NothingFits
      /\ HandshakeTypes /\ Grants
  BY DEF Unhurried, Calm, Stands, HInv
<1>1. /\ UNCHANGED <<AVAILABLE, ALLOCATION, REQUEST, RELEASE, RQ, rq_size, REQFROM, REQTYPE, WMTX>>
      /\ UNCHANGED <<type, mpc, i, cur, q, dcur>>
      /\ dpc = "scansignal" /\ dpc' = "scan" /\ Wake(dcur)
  BY DEF ScanSignal, matrices, queue, words, locks, worker, manager
<1>2. mpc = "wait"
  BY <1>1, OneAtATime
<1>3. \A v \in Workers : \/ pc'[v] = pc[v]
                         \/ /\ pc[v] = "grantwait" /\ pc'[v] = "granted"
                            /\ REQUEST[v] = Zero
  BY <1>0, <1>1 DEF Wake, HandshakeTypes, Grants, Told, Answered, Listening
<1>4. \A v \in Workers : REQUEST[v] # Zero => pc'[v] = pc[v]
  BY <1>3
<1>5. CalmTypes' /\ AckFits'
  BY <1>0, <1>1 DEF CalmTypes, AckFits
<1>6. Plans'
  BY <1>0, <1>1, <1>3 DEF Plans, Plan, Hopeful, Asking
<1>7. GrantMutex'
  <2> DEFINE Holding == {"signal", "acksleep", "ackwait", "acked", "grantsleep"}
  <2>1. \A v \in Workers : pc'[v] \in Holding => pc[v] \in Holding
    BY <1>3
  <2>. QED
    BY <1>0, <1>1, <1>2, <2>1 DEF GrantMutex
<1>8. \A v \in Workers : /\ ~ Leaving(v)' /\ ~ Leaving(v)
                         /\ Waits(v)' <=> Waits(v)
                         /\ Queued(v)' <=> Queued(v)
  BY <1>1, <1>2, <1>4 DEF Waits, Leaving, Queued
<1>9. QueueExact'
  BY <1>0, <1>1, <1>2, <1>8 DEF QueueExact, Distinct
<1>10. NothingFits'
  BY <1>0, <1>1, <1>2 DEF NothingFits, canGrant, Serving, Scanning
<1>. QED
  BY <1>5, <1>6, <1>7, <1>9, <1>10 DEF Calm
-----------------------------------------------------------------------------
(* All steps together.                                                     *)
CInv == unhurried => Calm

(* Nobody but the initial states decides whether a run is unhurried.       *)
LEMMA Timing == [Next]_vars => unhurried' = unhurried
<1>1. ASSUME NEW w \in Workers, Worker(w) PROVE unhurried' = unhurried
  BY <1>1 DEF Worker, GenAllocation, GenRelease, GenFinal, LockRequest, Publish, LockAck,
     LockGrant, Signal, AckSleep, Acked, GrantSleep, Granted, Exit, active
<1>2. ASSUME Manager PROVE unhurried' = unhurried
  BY <1>2 DEF Manager, Start, ServeQuit, ServeRelease, ServeGrant, ServeWait, ServeNothing,
     Ack, AckTo, WakeLock, WakeRequester, ServeTest, ServeQueued, ServeDequeue, ServeSignal,
     Clear, Join, active
<1>3. ASSUME Handler PROVE unhurried' = unhurried
  BY <1>3 DEF Handler, LockDetect, Quit, QuitSignal, NoDeadlock, Preempt, ScanTest,
     ScanGrant, ScanDequeue, ScanSignal, active
<1>. QED
  BY <1>1, <1>2, <1>3 DEF Next, vars, active

LEMMA CalmNext == SInv /\ Grants /\ CInv /\ [Next]_vars => CInv'
<1> SUFFICES ASSUME SInv, Grants, CInv, [Next]_vars, unhurried PROVE Calm'
  BY Timing DEF CInv
<1>0. Unhurried
  BY DEF SInv, CInv, Unhurried
<1>1. ASSUME NEW w \in Workers, Worker(w) PROVE Calm'
  BY <1>0, <1>1, CalmGen, CalmWorker DEF Worker
<1>2. CASE Manager
  BY <1>0, <1>2, CalmMove, CalmRelease, CalmGrant, CalmEnqueue, CalmAck, CalmTell,
     CalmServeTest, CalmServeGrant, CalmDequeue DEF Manager
<1>3. CASE Handler
  BY <1>0, <1>3, CalmLook, CalmPreempt, CalmScanTest, CalmScanGrant, CalmScanDequeue,
     CalmScanSignal DEF Handler
<1>4. CASE UNCHANGED vars
  <2>1. /\ UNCHANGED <<AVAILABLE, ALLOCATION, REQUEST, RELEASE, RQ, rq_size, WMTX, REQFROM, REQTYPE>>
        /\ UNCHANGED <<pc, type, mpc, i, cur, dpc, q, dcur>>
    BY <1>4 DEF vars, matrices, queue, words, locks, worker, manager, handler
  <2>2. \A v : /\ Leaving(v)' <=> Leaving(v)
               /\ Waits(v)' <=> Waits(v)
               /\ Queued(v)' <=> Queued(v)
               /\ canGrant(v)' <=> canGrant(v)
    BY <2>1 DEF Waits, Leaving, Queued, canGrant
  <2>3. CalmTypes /\ Plans /\ AckFits /\ GrantMutex /\ QueueExact /\ NothingFits
    BY <1>0 DEF Unhurried, Calm
  <2>4. CalmTypes' /\ Plans' /\ AckFits' /\ GrantMutex'
    BY <2>1, <2>3 DEF CalmTypes, Plans, Plan, AckFits, GrantMutex, Listens
  <2>5. QueueExact' /\ NothingFits'
    BY <2>1, <2>2, <2>3 DEF QueueExact, Distinct, NothingFits
  <2>. QED
    BY <2>4, <2>5 DEF Calm
<1>. QED
  BY <1>1, <1>2, <1>3, <1>4 DEF Next

LEMMA AlwaysCalm == Spec => [](unhurried => Unhurried)
<1>1. Init => CInv
  BY CalmInit DEF CInv
<1>2. SInv /\ Grants /\ CInv => (unhurried => Unhurried)
  BY DEF SInv, CInv, Unhurried
<1>. QED
  BY <1>1, <1>2, HInit, HNext, SInit, SNext, GrantsInit, GrantsNext, CalmNext, PTL DEF Spec

(* worker.c:62: the manager and the dlhandler signal a grant only to a     *)
(* worker that listens for it, in every unhurried run.                     *)
THEOREM GrantHeard == Spec => []GrantIsHeard
<1>1. ASSUME Unhurried PROVE GrantIsHeard
  <2>0. /\ GrantMutex /\ HandshakeTypes /\ Owners /\ CalmTypes
        /\ \A w \in Workers : w # NOBODY /\ w # MANAGER
    BY <1>1, AllocationAssumption
       DEF Unhurried, Calm, Stands, HInv, MANAGER, NOBODY, Workers
  <2>1. \A w \in Workers : Listens(w) /\ WMTX[w] # w => pc[w] = "grantwait"
    BY <2>0 DEF GrantMutex, Listens, Hopeful
  <2>. QED
    BY <2>0, <2>1 DEF GrantIsHeard, GrantMutex, HandshakeTypes, CalmTypes
<1>2. (unhurried => Unhurried) => GrantIsHeard
  BY <1>1 DEF GrantIsHeard
<1>. QED
  BY <1>2, AlwaysCalm, PTL

(* worker.c:46: what a worker drew without a lock is still sound when it   *)
(* is served, in every unhurried run.                                      *)
THEOREM PlansValid == Spec => []PlansStayValid
<1>1. Unhurried => PlansStayValid
  BY DEF Unhurried, Calm, Plans, Plan, PlansStayValid
<1>2. (unhurried => Unhurried) => PlansStayValid
  BY <1>1 DEF PlansStayValid
<1>. QED
  BY <1>2, AlwaysCalm, PTL

(* manager.c:70: between two requests of an unhurried run the queue holds  *)
(* exactly the workers that wait, once each, and none that could be        *)
(* granted.                                                                *)
THEOREM QueueIsFair == Spec => []NobodyWaitsInVain
<1>1. ASSUME Unhurried, RMTX = NOBODY, mpc = "wait"
      PROVE  /\ \A k, l \in 0 .. rq_size - 1 : RQ[k] = RQ[l] => k = l
             /\ {RQ[k] : k \in 0 .. rq_size - 1} =
                  {w \in Workers : pc[w] \in {"grantsleep", "grantwait"} /\ REQUEST[w] # Zero}
             /\ \A k \in 0 .. rq_size - 1 : ~ canGrant(RQ[k])
  <2>0. CalmTypes /\ QueueExact /\ NothingFits /\ Owners
    BY <1>1 DEF Unhurried, Calm, Stands, HInv
  <2>1. /\ dpc \in {"sleep", "end"}
        /\ \A w \in Workers : pc[w] \notin HoldsR
    BY <1>1, <2>0, Threads DEF Owners
  <2>2. \A k \in 0 .. rq_size - 1 : RQ[k] \in Workers
    BY <2>0, InSlots
  <2>3. \A w \in Workers :
          (\E k \in 0 .. rq_size - 1 : RQ[k] = w) <=>
             pc[w] \in {"grantsleep", "grantwait"} /\ REQUEST[w] # Zero
    BY <1>1, <2>0, <2>1 DEF QueueExact, Queued, Waits, Leaving, Hopeful, HoldsR
  <2>4. \A k \in 0 .. rq_size - 1 : ~ canGrant(RQ[k])
    BY <1>1, <2>0, <2>1 DEF NothingFits, Serving, Scanning
  <2>. QED
    BY <2>0, <2>2, <2>3, <2>4 DEF QueueExact, Distinct
<1>2. (unhurried => Unhurried) => NobodyWaitsInVain
  BY <1>1 DEF NobodyWaitsInVain
<1>. QED
  BY <1>2, AlwaysCalm, PTL
-----------------------------------------------------------------------------
(* The books.  No unit is created or lost, a worker leaves with empty      *)
(* hands, and the last request of a worker gives back all it holds: from   *)
(* when it is drawn until it is taken, RELEASE says so, and from then on   *)
(* nothing is held.                                                        *)
Taken(w) == mpc = "ackrelease" /\ w = REQFROM

Owes(w) ==
  /\ STATUS[w] = "EXITED" <=> pc[w] = "done"
  /\ pc[w] \in {"exit", "done"} => type[w] = "FINAL"
  /\ type[w] = "FINAL" =>
       IF pc[w] \in Asking /\ ~ Taken(w) THEN RELEASE[w] = ALLOCATION[w]
       ELSE pc[w] \in Asking \cup {"acked", "exit", "done"} /\ ALLOCATION[w] = Zero
  /\ round[w] = R => pc[w] = "gen" \/ type[w] = "FINAL"

Conserved == AVAILABLE = Less(TOTAL, Held(ALLOCATION, Workers))

Words == {"NONE", "ALLOCATE", "RELEASE", "QUIT"}

Books == /\ REQTYPE \in Words
         /\ STATUS \in [Workers -> {"ACTIVE", "EXITED"}]
         /\ round \in [Workers -> 0 .. R]
         /\ \A w \in Workers : Owes(w)
         /\ Conserved

LEMMA BooksInit == Init => Books
<1> SUFFICES ASSUME Init PROVE Books
  OBVIOUS
<1>1. ALLOCATION \in [Workers -> Vectors] /\ \A w \in Workers : ALLOCATION[w] = Zero
  BY VectorFacts DEF Init
<1>2. Held(ALLOCATION, Workers) = Zero
  BY <1>1, HeldFacts
<1>3. Less(TOTAL, Zero) = TOTAL
  BY AllocationAssumption DEF Less, Zero
<1>4. Conserved
  BY <1>2, <1>3 DEF Init, Conserved
<1>5. R \in Nat /\ R # 0
  BY ManagerAssumption
<1>6. /\ STATUS \in [Workers -> {"ACTIVE", "EXITED"}] /\ round \in [Workers -> 0 .. R]
      /\ REQTYPE \in Words /\ \A w \in Workers : Owes(w)
  BY <1>5 DEF Init, Owes, Taken, Words
<1>. QED
  BY <1>4, <1>6 DEF Books

(* Units change hands between one worker and the manager.                  *)
LEMMA Changes ==
  ASSUME CalmTypes, CalmTypes', Conserved, NEW w \in Workers,
         \A v \in Workers : v # w => ALLOCATION'[v] = ALLOCATION[v],
         \A j \in Resources :
            AVAILABLE'[j] + ALLOCATION'[w][j] = AVAILABLE[j] + ALLOCATION[w][j]
  PROVE  Conserved'
<1>0. /\ AVAILABLE \in Vectors /\ AVAILABLE' \in Vectors /\ TOTAL \in Vectors
      /\ ALLOCATION \in [Workers -> Vectors] /\ ALLOCATION' \in [Workers -> Vectors]
      /\ ALLOCATION[w] \in Vectors /\ ALLOCATION'[w] \in Vectors
  BY VectorFacts DEF CalmTypes
<1> DEFINE h == Held(ALLOCATION, Workers)
           k == Held(ALLOCATION', Workers)
<1>1. \A j \in Resources : /\ h[j] \in Nat /\ k[j] \in Nat
                           /\ k[j] - h[j] = ALLOCATION'[w][j] - ALLOCATION[w][j]
  BY <1>0, HeldChange
<1>2. AVAILABLE = Less(TOTAL, h)
  BY DEF Conserved
<1> HIDE DEF h, k
<1>3. ASSUME NEW j \in Resources PROVE AVAILABLE'[j] = TOTAL[j] - k[j]
  <2>1. /\ AVAILABLE[j] \in Nat /\ AVAILABLE'[j] \in Nat /\ TOTAL[j] \in Nat
        /\ ALLOCATION[w][j] \in Nat /\ ALLOCATION'[w][j] \in Nat
    BY <1>0 DEF Vectors
  <2>2. AVAILABLE[j] = TOTAL[j] - h[j]
    BY <1>2 DEF Less
  <2>. QED
    BY <1>1, <2>1, <2>2
<1>4. AVAILABLE' = Less(TOTAL, k)
  BY <1>0, <1>3 DEF Vectors, Less
<1>. QED
  BY <1>4 DEF Conserved, h, k

(* The steps that move no units, and at most wake somebody up.             *)
LEMMA BooksStill ==
  ASSUME Unhurried, Books, NEW w,
         UNCHANGED <<AVAILABLE, ALLOCATION, RELEASE, STATUS, type, round, REQFROM>>,
         mpc' = mpc \/ "ackrelease" \notin {mpc, mpc'},
         pc' = pc \/ Wake(w), REQTYPE' \in {REQTYPE, "NONE", "QUIT"}
  PROVE  Books'
<1>1. HandshakeTypes /\ Plans
  BY DEF Unhurried, Stands, HInv, Calm
<1>2. Conserved'
  BY DEF Books, Conserved
<1>3. \A v \in Workers : \/ pc'[v] = pc[v]
                         \/ pc[v] = "grantwait" /\ pc'[v] = "granted" /\ type[v] = "ALLOCATE"
  BY <1>1 DEF Wake, HandshakeTypes, Plans, Plan
<1>4. \A v \in Workers : Owes(v)'
  BY <1>3 DEF Books, Owes, Taken
<1>. QED
  BY <1>2, <1>4 DEF Books, Words

(* A worker moves units only through the manager.                          *)
LEMMA BooksWorker ==
  ASSUME Unhurried, Books, NEW w \in Workers, Worker(w)
  PROVE  Books'
<1> USE DEF Asking
<1>0. /\ HandshakeTypes /\ type \in [Workers -> Kinds] /\ CalmTypes /\ Plans
      /\ STATUS \in [Workers -> {"ACTIVE", "EXITED"}] /\ round \in [Workers -> 0 .. R]
      /\ \A v \in Workers : Owes(v)
      /\ R \in Nat \ {0}
  BY ManagerAssumption DEF Unhurried, Stands, HInv, Calm, Books
<1>1. UNCHANGED <<AVAILABLE, ALLOCATION>>
  BY DEF Worker, GenAllocation, GenRelease, GenFinal, LockRequest, Publish, LockAck,
     LockGrant, Signal, AckSleep, Acked, GrantSleep, Granted, Exit, matrices
<1>2. \A v \in Workers : v # w => /\ pc'[v] = pc[v] /\ type'[v] = type[v]
                                  /\ RELEASE'[v] = RELEASE[v]
                                  /\ STATUS'[v] = STATUS[v] /\ round'[v] = round[v]
  BY <1>0 DEF Worker, GenAllocation, GenRelease, GenFinal, LockRequest, Publish, LockAck,
     LockGrant, Signal, AckSleep, Acked, GrantSleep, Granted, Exit, Goto,
     HandshakeTypes, CalmTypes, matrices, active
<1>3. \A v \in Workers : Taken(v)' <=> Taken(v)
  <2>1. CASE LockRequest(w)
    BY <2>1 DEF LockRequest, LockR, Taken, Unhurried, manager
  <2>2. CASE ~ LockRequest(w)
    BY <2>2 DEF Worker, GenAllocation, GenRelease, GenFinal, Publish, LockAck, LockGrant,
       Signal, AckSleep, Acked, GrantSleep, Granted, Exit, SignalManager, Taken, words, manager
  <2>. QED
    BY <2>1, <2>2
<1>4. pc[w] = "gen" => ~ Taken(w)
  BY <1>0, OneAtATime DEF Taken, Acking, After
<1>5. /\ STATUS' \in [Workers -> {"ACTIVE", "EXITED"}] /\ round' \in [Workers -> 0 .. R]
      /\ Owes(w)'
  <2>1. CASE GenAllocation(w) \/ GenRelease(w)
    <3>1. /\ pc[w] = "gen" /\ pc'[w] = "lock" /\ type'[w] \in {"ALLOCATE", "RELEASE"}
          /\ STATUS' = STATUS /\ round' = round /\ round[w] # R
      BY <1>0, <2>1 DEF GenAllocation, GenRelease, Goto, HandshakeTypes, active
    <3>. QED
      BY <1>0, <3>1 DEF Owes
  <2>2. CASE GenFinal(w)
    <3>1. /\ pc[w] = "gen" /\ pc'[w] = IF ALLOCATION[w] = Zero THEN "exit" ELSE "lock"
          /\ type'[w] = "FINAL" /\ RELEASE'[w] = ALLOCATION[w]
          /\ STATUS' = STATUS /\ round' = round
      BY <1>0, <2>2 DEF GenFinal, Goto, HandshakeTypes, CalmTypes, active
    <3>. QED
      BY <1>0, <1>1, <1>3, <1>4, <3>1 DEF Owes
  <2>3. CASE \/ LockRequest(w) \/ Publish(w) \/ LockAck(w) \/ LockGrant(w) \/ Signal(w)
             \/ AckSleep(w) \/ GrantSleep(w)
    <3>1. /\ STATUS' = STATUS /\ round' = round /\ RELEASE' = RELEASE /\ type' = type
          /\ \/ pc[w] \in Asking /\ pc'[w] \in Asking
             \/ pc[w] = "grantsleep" /\ pc'[w] = "grantwait"
      BY <1>0, <2>3 DEF LockRequest, Publish, LockAck, LockGrant, Signal, AckSleep, GrantSleep,
         Goto, HandshakeTypes, matrices, active
    <3>. QED
      BY <1>0, <1>1, <1>3, <3>1 DEF Owes
  <2>4. CASE Acked(w) \/ Granted(w)
    <3>1. /\ STATUS' = STATUS /\ RELEASE' = RELEASE /\ type' = type
          /\ \/ pc[w] = "acked" /\ type[w] = "ALLOCATE" /\ pc'[w] = "grantsleep" /\ round' = round
             \/ pc[w] = "acked" /\ type[w] = "FINAL" /\ pc'[w] = "exit" /\ round' = round
             \/ /\ pc[w] = "acked" /\ type[w] = "RELEASE" /\ pc'[w] = "gen"
                /\ round' = [round EXCEPT ![w] = @ + 1]
             \/ /\ pc[w] = "granted" /\ pc'[w] = "gen"
                /\ round' = [round EXCEPT ![w] = @ + 1]
      BY <1>0, <2>4 DEF Acked, Granted, Goto, HandshakeTypes, Kinds, matrices, active
    <3>2. pc[w] = "granted" => type[w] = "ALLOCATE"
      BY <1>0 DEF Plans, Plan
    <3>3. pc'[w] = "gen" => round[w] # R
      BY <1>0, <3>1, <3>2 DEF Owes
    <3>. QED
      BY <1>0, <1>1, <3>1, <3>2, <3>3 DEF Owes
  <2>5. CASE Exit(w)
    <3>1. /\ STATUS' = [STATUS EXCEPT ![w] = "EXITED"] /\ pc[w] = "exit" /\ pc'[w] = "done"
          /\ round' = round /\ RELEASE' = RELEASE /\ type' = type
      BY <1>0, <2>5 DEF Exit, Goto, HandshakeTypes, matrices, worker
    <3>. QED
      BY <1>0, <1>1, <3>1 DEF Owes
  <2>. QED
    BY <2>1, <2>2, <2>3, <2>4, <2>5 DEF Worker
<1>6. \A v \in Workers : v # w => Owes(v)'
  BY <1>0, <1>1, <1>2, <1>3 DEF Owes
<1>7. Conserved'
  BY <1>1 DEF Books, Conserved
<1>8. REQTYPE' \in Words
  BY <1>0 DEF Worker, GenAllocation, GenRelease, GenFinal, LockRequest, Publish, LockAck,
     LockGrant, Signal, AckSleep, Acked, GrantSleep, Granted, Exit, words, Books, Words, Kinds
<1>. QED
  BY <1>5, <1>6, <1>7, <1>8 DEF Books

LEMMA BooksRelease == ASSUME Unhurried, Books, ServeRelease PROVE Books'
<1>0. /\ CalmTypes /\ Plans /\ CalmTypes' /\ R \in Nat
      /\ REQFROM \in Workers /\ pc[REQFROM] \in After /\ type[REQFROM] # "ALLOCATE"
  BY AtService, CalmRelease, ManagerAssumption DEF ServeRelease, MGoto, Unhurried, Calm
<1>1. /\ UNCHANGED <<REQFROM, REQTYPE, pc, type, round, STATUS>>
      /\ mpc = "woken" /\ mpc' = "ackrelease"
      /\ AVAILABLE'  = Plus(AVAILABLE, RELEASE[REQFROM])
      /\ ALLOCATION'[REQFROM] = Less(ALLOCATION[REQFROM], RELEASE[REQFROM])
      /\ \A v \in Workers : v # REQFROM => ALLOCATION'[v] = ALLOCATION[v] /\ RELEASE'[v] = RELEASE[v]
  BY <1>0 DEF ServeRelease, MGoto, CalmTypes, words, worker, active
<1>2. /\ AVAILABLE \in Vectors /\ ALLOCATION[REQFROM] \in Vectors /\ RELEASE[REQFROM] \in Vectors
  BY <1>0 DEF CalmTypes
<1>3. Conserved'
  <2>1. \A j \in Resources :
           AVAILABLE'[j] + ALLOCATION'[REQFROM][j] = AVAILABLE[j] + ALLOCATION[REQFROM][j]
    BY <1>1, <1>2 DEF Vectors, Plus, Less
  <2>. QED
    BY <1>0, <1>1, <2>1, Changes DEF Books
<1>4. Owes(REQFROM)'
  <2>1. Owes(REQFROM) /\ Taken(REQFROM)' /\ ~ Taken(REQFROM)
    BY <1>0, <1>1 DEF Books, Taken
  <2>2. ALLOCATION[REQFROM] = RELEASE[REQFROM] => ALLOCATION'[REQFROM] = Zero
    BY <1>1, <1>2 DEF Vectors, Less, Zero
  <2>. QED
    BY <1>0, <1>1, <2>1, <2>2 DEF Owes, After, Asking
<1>5. \A v \in Workers : v # REQFROM => Owes(v)'
  BY <1>1 DEF Books, Owes, Taken
<1>. QED
  BY <1>1, <1>3, <1>4, <1>5 DEF Books

LEMMA BooksAck == ASSUME Unhurried, Books, Ack PROVE Books'
<1>0. /\ UNCHANGED <<AVAILABLE, ALLOCATION, RELEASE, REQFROM, REQTYPE, STATUS, type, round>>
      /\ mpc' # "ackrelease" /\ mpc \in {"ackrelease", "ackgrant", "ackwait"}
      /\ REQFROM \in Workers /\ pc[REQFROM] = "ackwait" /\ pc'[REQFROM] = "acked"
      /\ \A v \in Workers : v # REQFROM => pc'[v] = pc[v]
      /\ REQTYPE = IF type[REQFROM] = "FINAL" THEN "RELEASE" ELSE type[REQFROM]
  BY AckReaches
<1>1. type[REQFROM] = "FINAL" => Taken(REQFROM)
  BY <1>0 DEF Unhurried, Calm, AckFits, Taken
<1>2. \A v \in Workers : Owes(v)'
  BY <1>0, <1>1 DEF Books, Owes, Taken, Asking
<1>3. Conserved'
  BY <1>0 DEF Books, Conserved
<1>. QED
  BY <1>0, <1>2, <1>3 DEF Books

(* A grant, wherever it is given.                                          *)
LEMMA BooksGrant ==
  ASSUME Unhurried, Books, CalmTypes', NEW w \in Workers,
         type[w] = "ALLOCATE", canGrant(w), grantRequest(w),
         UNCHANGED <<STATUS, type, round, pc, REQFROM, REQTYPE>>,
         mpc # "ackrelease", mpc' # "ackrelease"
  PROVE  Books'
<1>0. CalmTypes /\ Plans
  BY DEF Unhurried, Calm
<1>1. /\ AVAILABLE \in Vectors /\ ALLOCATION[w] \in Vectors /\ REQUEST[w] \in Vectors
      /\ AVAILABLE' = Less(AVAILABLE, REQUEST[w]) /\ RELEASE' = RELEASE
      /\ ALLOCATION'[w] = Plus(ALLOCATION[w], REQUEST[w])
      /\ \A v \in Workers : v # w => ALLOCATION'[v] = ALLOCATION[v]
  BY <1>0 DEF CalmTypes, grantRequest
<1>2. Conserved'
  <2>1. \A j \in Resources :
           AVAILABLE'[j] + ALLOCATION'[w][j] = AVAILABLE[j] + ALLOCATION[w][j]
    BY <1>1 DEF Vectors, Plus, Less
  <2>. QED
    BY <1>0, <1>1, <2>1, Changes DEF Books
<1>3. \A v \in Workers : Owes(v)'
  BY <1>1 DEF Books, Owes, Taken
<1>. QED
  BY <1>2, <1>3 DEF Books

LEMMA BooksPreempt == ASSUME Unhurried, Books, Preempt PROVE Books'
<1> DEFINE victim == Victim(ALLOCATION, Blocked)
<1>1. /\ victim \in Workers /\ type[victim] = "ALLOCATE" /\ mpc' = mpc
      /\ AVAILABLE' = Plus(AVAILABLE, ALLOCATION[victim])
      /\ ALLOCATION' = [ALLOCATION EXCEPT ![victim] = Zero]
      /\ UNCHANGED <<RELEASE, REQFROM, REQTYPE, STATUS, pc, type, round>>
  BY AtPreemption
<1> HIDE DEF victim
<1>2. CalmTypes /\ CalmTypes'
  BY CalmPreempt DEF Unhurried, Calm
<1>3. /\ AVAILABLE \in Vectors /\ ALLOCATION[victim] \in Vectors
      /\ ALLOCATION'[victim] = Zero
      /\ \A v \in Workers : v # victim => ALLOCATION'[v] = ALLOCATION[v]
  BY <1>1, <1>2 DEF CalmTypes
<1>4. \A j \in Resources :
        AVAILABLE'[j] + ALLOCATION'[victim][j] = AVAILABLE[j] + ALLOCATION[victim][j]
  BY <1>1, <1>3 DEF Vectors, Plus, Zero
<1>5. Conserved'
  BY <1>1, <1>2, <1>3, <1>4, Changes DEF Books
<1>6. \A v \in Workers : Owes(v)'
  BY <1>1, <1>3 DEF Books, Owes, Taken
<1>. QED
  BY <1>1, <1>5, <1>6 DEF Books

BInv == unhurried => Books

LEMMA BooksNext == (unhurried => Unhurried) /\ BInv /\ [Next]_vars => BInv'
<1> SUFFICES ASSUME unhurried, Unhurried, Books, [Next]_vars PROVE Books'
  BY Timing DEF BInv
<1>0. CalmTypes /\ GrantMutex /\ QueueExact
  BY DEF Unhurried, Calm
<1>1. ASSUME NEW w \in Workers, Worker(w) PROVE Books'
  BY <1>1, BooksWorker
<1>2. CASE Manager
  <2>1. CASE \/ Start \/ ServeQuit \/ ServeNothing \/ Clear \/ Join
             \/ ServeWait \/ WakeLock \/ WakeRequester \/ ServeTest \/ ServeDequeue \/ ServeSignal
    <3>1. /\ UNCHANGED <<AVAILABLE, ALLOCATION, RELEASE, STATUS, type, round, REQFROM>>
          /\ mpc # "ackrelease" /\ mpc' # "ackrelease"
          /\ pc' = pc \/ Wake(REQFROM) \/ Wake(cur)
          /\ REQTYPE' \in {REQTYPE, "NONE", "QUIT"}
      BY <2>1 DEF Start, ServeQuit, ServeNothing, Clear, Join, ServeWait, WakeLock,
         WakeRequester, ServeTest, ServeDequeue, ServeSignal, MGoto, matrices, words, active, worker
    <3>. QED
      BY <3>1, BooksStill
  <2>2. CASE ServeGrant
    <3>1. /\ REQFROM \in Workers /\ type[REQFROM] = "ALLOCATE"
          /\ canGrant(REQFROM) /\ grantRequest(REQFROM)
          /\ UNCHANGED <<STATUS, type, round, pc, REQFROM, REQTYPE>>
          /\ mpc # "ackrelease" /\ mpc' # "ackrelease"
      BY <2>2, AtService DEF ServeGrant, MGoto, words, active, worker
    <3>2. CalmTypes'
      BY <2>2, CalmGrant DEF Calm
    <3>. QED
      BY <3>1, <3>2, BooksGrant
  <2>3. CASE ServeQueued
    <3>1. /\ cur \in Workers /\ type[cur] = "ALLOCATE"
          /\ canGrant(cur) /\ grantRequest(cur)
          /\ UNCHANGED <<STATUS, type, round, pc, REQFROM, REQTYPE>>
          /\ mpc # "ackrelease" /\ mpc' # "ackrelease"
      BY <1>0, <2>3 DEF ServeQueued, MGoto, words, active, worker, CalmTypes, GrantMutex,
         Listens, QueueExact
    <3>2. CalmTypes'
      BY <2>3, CalmServeGrant DEF Calm
    <3>. QED
      BY <3>1, <3>2, BooksGrant
  <2>. QED
    BY <1>2, <2>1, <2>2, <2>3, BooksRelease, BooksAck DEF Manager
<1>3. CASE Handler
  <2>1. CASE \/ LockDetect \/ Quit \/ QuitSignal \/ NoDeadlock
             \/ ScanTest \/ ScanDequeue \/ ScanSignal
    <3>1. /\ UNCHANGED <<AVAILABLE, ALLOCATION, RELEASE, STATUS, type, round, REQFROM>>
          /\ mpc' = mpc \/ "ackrelease" \notin {mpc, mpc'}
          /\ pc' = pc \/ Wake(dcur)
          /\ REQTYPE' \in {REQTYPE, "NONE", "QUIT"}
      <4>1. CASE QuitSignal
        BY <4>1 DEF QuitSignal, SignalManager, matrices, words, active, worker
      <4>2. CASE LockDetect \/ Quit \/ NoDeadlock \/ ScanTest \/ ScanDequeue \/ ScanSignal
        BY <4>2 DEF LockDetect, Quit, NoDeadlock, ScanTest, ScanDequeue, ScanSignal,
           matrices, words, active, worker, manager
      <4>. QED
        BY <2>1, <4>1, <4>2
    <3>. QED
      BY <3>1, BooksStill
  <2>2. CASE ScanGrant
    <3>0. mpc = "wait"
      BY <2>2, OneAtATime DEF ScanGrant, DGoto
    <3>1. /\ dcur \in Workers /\ type[dcur] = "ALLOCATE"
          /\ canGrant(dcur) /\ grantRequest(dcur)
          /\ UNCHANGED <<STATUS, type, round, pc, REQFROM, REQTYPE>>
          /\ mpc # "ackrelease" /\ mpc' # "ackrelease"
      BY <1>0, <2>2, <3>0 DEF ScanGrant, DGoto, words, active, worker, manager, CalmTypes,
         GrantMutex, Listens, QueueExact
    <3>2. CalmTypes'
      BY <2>2, CalmScanGrant DEF Calm
    <3>. QED
      BY <3>1, <3>2, BooksGrant
  <2>. QED
    BY <1>3, <2>1, <2>2, BooksPreempt DEF Handler
<1>4. CASE UNCHANGED vars
  <2>1. UNCHANGED <<AVAILABLE, ALLOCATION, RELEASE, STATUS, type, round, REQFROM, REQTYPE, mpc, pc>>
    BY <1>4 DEF vars, matrices, words, active, worker, manager
  <2>2. pc' = pc \/ Wake(cur)
    BY <2>1
  <2>. QED
    BY <2>1, <2>2, BooksStill
<1>. QED
  BY <1>1, <1>2, <1>3, <1>4 DEF Next

LEMMA AlwaysBooked == Spec => [](unhurried => Books)
<1>1. Init => BInv
  BY BooksInit DEF BInv
<1>2. BInv => (unhurried => Books)
  BY DEF BInv
<1>. QED
  BY <1>1, <1>2, BooksNext, AlwaysCalm, PTL DEF Spec
-----------------------------------------------------------------------------
(* dlhandler.c:31-48: the detection of an unhurried run, given any         *)
(* matrices it can meet, finds exactly the deadlocked workers.             *)
LEMMA DetectsExactly ==
  ASSUME Unhurried, Books
  PROVE  Blocked = Deadlocked(AVAILABLE, ALLOCATION, REQUEST)
<1> DEFINE exited == {w \in Workers : STATUS[w] = "EXITED"}
<1>1. CalmTypes /\ Plans /\ \A w \in Workers : Owes(w)
  BY DEF Unhurried, Calm, Books
<1>2. \A w \in exited : ALLOCATION[w] = Zero /\ REQUEST[w] = Zero
  BY <1>1 DEF Plans, Plan, Owes, Asking
<1>3. exited \in SUBSET Workers /\ Blocked = Unfinished(AVAILABLE, ALLOCATION, REQUEST, exited)
  BY DEF Blocked
<1> HIDE DEF exited
<1>. QED
  BY <1>1, <1>2, <1>3, Detection DEF CalmTypes

THEOREM DetectionIsExact == Spec => [](unhurried => DetectionExact)
<1>1. (unhurried => Unhurried) /\ (unhurried => Books) => (unhurried => DetectionExact)
  BY DetectsExactly DEF DetectionExact
<1>. QED
  BY <1>1, AlwaysCalm, AlwaysBooked, PTL

(* Every variable of an unhurried run keeps its range: no matrix has a     *)
(* negative entry, and the queue fits the array malloc'ed for it.          *)
THEOREM TypesUnhurried == Spec => [](unhurried => TypeOK)
<1>1. ASSUME Unhurried, Books, unhurried PROVE TypeOK
  <2>0. /\ CalmTypes /\ HandshakeTypes /\ type \in [Workers -> Kinds]
        /\ STATUS \in [Workers -> {"ACTIVE", "EXITED"}] /\ round \in [Workers -> 0 .. R]
    BY <1>1 DEF Unhurried, Calm, Stands, HInv, Books
  <2>1. NACTIVE \in 0 .. N
    <3>1. {w \in Workers : pc[w] # "done"} \in SUBSET Workers
      OBVIOUS
    <3>2. /\ Cardinality({w \in Workers : pc[w] # "done"}) <= N
          /\ Cardinality({w \in Workers : pc[w] # "done"}) \in Nat
      BY <3>1, Threads, FS_Subset, FS_CardinalityType
    <3>3. N \in Nat
      BY AllocationAssumption
    <3>. QED
      BY <2>0, <3>2, <3>3 DEF HandshakeTypes
  <2>2. REQTYPE \in {"NONE", "ALLOCATE", "RELEASE", "QUIT"}
    BY <1>1 DEF Books, Words
  <2>. QED
    BY <1>1, <2>0, <2>1, <2>2 DEF CalmTypes, HandshakeTypes, TypeOK
<1>2. (unhurried => Unhurried) /\ (unhurried => Books) => (unhurried => TypeOK)
  BY <1>1
<1>. QED
  BY <1>2, AlwaysCalm, AlwaysBooked, PTL
-----------------------------------------------------------------------------
(* The allocator that an unhurried run implements uses the same operators. *)
LEMMA SameOperators ==
  /\ Promise!Workers = Workers /\ Promise!Zero = Zero
  /\ \A u, v : /\ Promise!Plus(u, v) = Plus(u, v) /\ Promise!Less(u, v) = Less(u, v)
               /\ Promise!Fits(u, v) <=> Fits(u, v)
  /\ Promise!Free = Less(TOTAL, Held(ALLOCATION, Workers))
  /\ \A u, a, b : Promise!Deadlocked(u, a, b) = Deadlocked(u, a, b)
<1>1. Promise!Workers = Workers /\ Promise!Resources = Resources
  BY DEF Promise!Workers, Workers, Promise!Resources, Resources
<1>2. Promise!Zero = Zero
  BY <1>1 DEF Promise!Zero, Zero
<1>3. ASSUME NEW u, NEW v
      PROVE  /\ Promise!Plus(u, v) = Plus(u, v) /\ Promise!Less(u, v) = Less(u, v)
             /\ Promise!Fits(u, v) <=> Fits(u, v)
  BY <1>1 DEF Promise!Plus, Plus, Promise!Less, Less, Promise!Fits, Fits
<1>4. ASSUME NEW f, NEW n PROVE Promise!SumOf(f, n) = SumOf(f, n)
  BY DEF Promise!SumOf, SumOf
<1>5. ASSUME NEW a, NEW S PROVE Promise!Held(a, S) = Held(a, S)
  <2>1. ASSUME NEW j PROVE Promise!Part(a, S, j) = Part(a, S, j)
    BY <1>1 DEF Promise!Part, Part
  <2>2. ASSUME NEW j PROVE Promise!SumOf(Promise!Part(a, S, j), N) = SumOf(Part(a, S, j), N)
    BY <1>4, <2>1
  <2>. QED
    BY <1>1, <2>2 DEF Promise!Held, Held
<1>6. Promise!Free = Less(TOTAL, Held(ALLOCATION, Workers))
  BY <1>1, <1>3, <1>5 DEF Promise!Free
<1>7. ASSUME NEW u, NEW a, NEW b PROVE Promise!Deadlocked(u, a, b) = Deadlocked(u, a, b)
  <2>1. ASSUME NEW S PROVE Promise!Stuck(S, u, a, b) <=> Stuck(S, u, a, b)
    BY <1>1, <1>3, <1>5 DEF Promise!Stuck, Stuck
  <2>. QED
    BY <1>1, <2>1 DEF Promise!Deadlocked, Deadlocked
<1>. QED
  BY <1>1, <1>2, <1>3, <1>6, <1>7

Still == UNCHANGED <<ALLOCATION, REQUEST>>

(* A grant is the allocator's, unless nothing was asked for.               *)
LEMMA Lends ==
  ASSUME Unhurried, Books, NEW w \in Workers, canGrant(w), grantRequest(w)
  PROVE  Promise!Next \/ Still
<1>0. /\ CalmTypes /\ Conserved
      /\ AVAILABLE \in Vectors /\ ALLOCATION[w] \in Vectors /\ REQUEST[w] \in Vectors
  BY DEF Unhurried, Calm, CalmTypes, Books
<1>1. CASE REQUEST[w] = Zero
  <2>1. Plus(ALLOCATION[w], Zero) = ALLOCATION[w]
    BY <1>0, VectorFacts
  <2>. QED
    BY <1>0, <1>1, <2>1 DEF Still, grantRequest, CalmTypes
<1>2. CASE REQUEST[w] # Zero
  <2>1. Promise!Grant(w)
    BY <1>0, <1>2, SameOperators DEF Promise!Grant, grantRequest, canGrant, Conserved
  <2>. QED
    BY <2>1, SameOperators DEF Promise!Next
<1>. QED
  BY <1>1, <1>2

LEMMA StepRefines ==
  ASSUME Unhurried, Books, Next
  PROVE  Promise!Next \/ Still
<1>0. /\ CalmTypes /\ Plans /\ GrantMutex /\ QueueExact /\ Conserved
      /\ REQUEST \in [Workers -> Vectors] /\ ALLOCATION \in [Workers -> Vectors]
      /\ RELEASE \in [Workers -> Vectors]
  BY DEF Unhurried, Calm, CalmTypes, Books
<1>1. ASSUME NEW w \in Workers, Worker(w) PROVE Promise!Next \/ Still
  <2>0. pc[w] = "gen" => REQUEST[w] = Zero
    BY <1>0 DEF Plans, Plan, Asking, Hopeful
  <2>1. CASE GenAllocation(w)
    <3>1. PICK v \in Vectors : /\ v # Zero /\ Fits(v, Less(TOTAL, ALLOCATION[w]))
                               /\ REQUEST' = [REQUEST EXCEPT ![w] = v]
      BY <2>1, Drawn DEF GenAllocation
    <3>2. /\ ALLOCATION' = ALLOCATION /\ REQUEST[w] = Zero /\ REQUEST'[w] = v
          /\ REQUEST' = [REQUEST EXCEPT ![w] = REQUEST'[w]]
      BY <1>0, <2>0, <2>1, <3>1 DEF GenAllocation, Goto
    <3>3. Promise!Ask(w)
      BY <3>1, <3>2, SameOperators DEF Promise!Ask, Promise!Only
    <3>. QED
      BY <3>3, SameOperators DEF Promise!Next
  <2>2. CASE GenRelease(w)
    <3>1. REQUEST' = REQUEST /\ ALLOCATION' = ALLOCATION
      BY <1>0, <2>0, <2>2 DEF GenRelease, Goto
    <3>. QED
      BY <3>1 DEF Still
  <2>3. CASE ~ GenAllocation(w) /\ ~ GenRelease(w)
    BY <1>1, <2>3 DEF Worker, GenFinal, LockRequest, Publish, LockAck, LockGrant, Signal,
       AckSleep, Acked, GrantSleep, Granted, Exit, matrices, Still
  <2>. QED
    BY <2>1, <2>2, <2>3
<1>2. CASE ServeRelease
  <2>0. REQFROM \in Workers /\ type[REQFROM] # "ALLOCATE"
    BY <1>2, AtService DEF ServeRelease, MGoto
  <2>. PICK w \in Workers : w = REQFROM
    BY <2>0
  <2>1. /\ REQUEST[w] = Zero /\ Fits(RELEASE[w], ALLOCATION[w])
        /\ RELEASE[w] \in Vectors /\ ALLOCATION[w] \in Vectors
    BY <1>0, <2>0 DEF Plans, Plan
  <2>2. /\ ALLOCATION' = [ALLOCATION EXCEPT ![w] = ALLOCATION'[w]]
        /\ ALLOCATION'[w] = Less(ALLOCATION[w], RELEASE[w])
        /\ REQUEST' = REQUEST
    BY <1>0, <1>2, <2>0 DEF ServeRelease
  <2>3. Fits(ALLOCATION'[w], ALLOCATION[w])
    BY <2>1, <2>2, VectorFacts
  <2>4. Promise!Return(w)
    BY <2>1, <2>2, <2>3, SameOperators DEF Promise!Return, Promise!Only
  <2>. QED
    BY <2>4, SameOperators DEF Promise!Next
<1>3. CASE ServeGrant
  BY <1>3, AtService, Lends DEF ServeGrant, MGoto
<1>4. CASE ServeQueued
  BY <1>0, <1>4, Lends DEF ServeQueued, MGoto, CalmTypes, QueueExact
<1>5. CASE ScanGrant
  BY <1>0, <1>5, Lends DEF ScanGrant, DGoto, CalmTypes, QueueExact
<1>6. CASE Preempt
  <2> DEFINE victim == Victim(ALLOCATION, Blocked)
  <2>1. /\ ALLOCATION' = [ALLOCATION EXCEPT ![victim] = Zero] /\ REQUEST' = REQUEST
        /\ victim \in Workers
    BY <1>6, AtPreemption
  <2>2. Blocked = Deadlocked(AVAILABLE, ALLOCATION, REQUEST) /\ Blocked # {}
    BY <1>6, DetectsExactly DEF Preempt
  <2>3. Blocked \in SUBSET Workers
    BY <2>2 DEF Deadlocked
  <2>4. victim \in Blocked
    BY <1>0, <2>2, <2>3, VictimFacts
  <2> HIDE DEF victim
  <2>5. Promise!Preempt(victim)
    BY <1>0, <2>1, <2>2, <2>4, SameOperators DEF Promise!Preempt, Conserved
  <2>. QED
    BY <2>1, <2>5, SameOperators DEF Promise!Next
<1>7. CASE Manager /\ ~ ServeRelease /\ ~ ServeGrant /\ ~ ServeQueued
  BY <1>7 DEF Manager, Start, ServeQuit, ServeWait, ServeNothing, Ack, AckTo, WakeLock,
     WakeRequester, ServeTest, ServeDequeue, ServeSignal, Clear, Join, matrices, Still
<1>8. CASE Handler /\ ~ ScanGrant /\ ~ Preempt
  BY <1>8 DEF Handler, LockDetect, Quit, QuitSignal, NoDeadlock, ScanTest, ScanDequeue,
     ScanSignal, matrices, Still
<1>. QED
  BY <1>1, <1>2, <1>3, <1>4, <1>5, <1>6, <1>7, <1>8 DEF Next

(* An unhurried run implements the allocator: units are lent whole, given  *)
(* back in part, and taken away only from a worker that is deadlocked.     *)
THEOREM ImplementsAllocator == Spec => Refines
<1>1. Init => (unhurried => Promise!Init)
  BY SameOperators DEF Init, Promise!Init
<1>2. (unhurried => Unhurried) /\ (unhurried => Books) /\ [Next]_vars =>
         [unhurried => Promise!Next]_<<ALLOCATION, REQUEST>>
  <2> SUFFICES ASSUME unhurried, Unhurried, Books, [Next]_vars
               PROVE  Promise!Next \/ Still
    BY DEF Still
  <2>1. CASE UNCHANGED vars
    BY <2>1 DEF vars, matrices, Still
  <2>. QED
    BY <2>1, StepRefines
<1>. QED
  BY <1>1, <1>2, AlwaysCalm, AlwaysBooked, PTL DEF Spec, Refines
=============================================================================
