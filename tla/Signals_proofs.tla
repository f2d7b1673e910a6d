---------------------------- MODULE Signals_proofs ----------------------------
(***************************************************************************)
(* Labs 2 and 5: processes that steer one another by signals, and a queue  *)
(* that holds who is to be called, or to run, next.                        *)
(*                                                                         *)
(* Lab 2: the agent and the customers agree on what was booked, if who has *)
(* sent a signal pauses before the answer comes, for any number of         *)
(* customers and of tickets.                                               *)
(*                                                                         *)
(* Lab 5: the processes that schedule one another keep a queue, a runner   *)
(* and a clock in order, for any processes, bursts and quanta.             *)
(***************************************************************************)
EXTENDS Booking, Scheduler, SequenceTheorems, FunctionTheorems, FiniteSetTheorems, TLAPS

(* A queue holds nobody twice; and whom it holds. *)
NoneTwice(q) == \A i, j \in 1 .. Len(q) : q[i] = q[j] => i = j
Who(q)       == {q[i] : i \in 1 .. Len(q)}
-----------------------------------------------------------------------------
(* What a pop and a push make of a queue. *)
LEMMA Popped ==
  ASSUME NEW T, NEW q \in Seq(T), q # <<>>, NoneTwice(q)
  PROVE  /\ Tail(q) \in Seq(T) /\ NoneTwice(Tail(q)) /\ Head(q) \in Who(q)
         /\ Who(Tail(q)) = Who(q) \ {Head(q)} /\ Head(q) \in T
<1>1. /\ Tail(q) \in Seq(T) /\ Len(Tail(q)) = Len(q) - 1 /\ Len(q) \in Nat /\ Len(q) > 0
      /\ \A i \in 1 .. Len(Tail(q)) : Tail(q)[i] = q[i + 1]
      /\ Head(q) = q[1] /\ Head(q) \in T
  BY HeadTailProperties, EmptySeq, LenProperties
<1>2. NoneTwice(Tail(q))
  BY <1>1 DEF NoneTwice
<1>3. Head(q) \in Who(q)
  BY <1>1 DEF Who
<1>4. \A c : c \in Who(Tail(q)) => c \in Who(q) /\ c # Head(q)
  <2> SUFFICES ASSUME NEW i \in 1 .. Len(Tail(q))
               PROVE  Tail(q)[i] \in Who(q) /\ Tail(q)[i] # Head(q)
    BY DEF Who
  <2>1. i + 1 \in 1 .. Len(q) /\ 1 \in 1 .. Len(q) /\ i + 1 # 1 /\ Tail(q)[i] = q[i + 1]
    BY <1>1
  <2>. QED
    BY <1>1, <2>1 DEF Who, NoneTwice
<1>5. \A c : c \in Who(q) /\ c # Head(q) => c \in Who(Tail(q))
  <2> SUFFICES ASSUME NEW i \in 1 .. Len(q), q[i] # Head(q)
               PROVE  q[i] \in Who(Tail(q))
    BY DEF Who
  <2>1. i # 1 /\ i - 1 \in 1 .. Len(Tail(q)) /\ Tail(q)[i - 1] = q[(i - 1) + 1]
    BY <1>1
  <2>2. (i - 1) + 1 = i
    OBVIOUS
  <2>. QED
    BY <2>1, <2>2 DEF Who
<1>. QED
  BY <1>1, <1>2, <1>3, <1>4, <1>5

LEMMA Pushed ==
  ASSUME NEW T, NEW q \in Seq(T), NEW c \in T, NoneTwice(q), c \notin Who(q)
  PROVE  /\ Append(q, c) \in Seq(T) /\ NoneTwice(Append(q, c))
         /\ Who(Append(q, c)) = Who(q) \cup {c}
<1>. DEFINE r == Append(q, c)
<1>1. /\ r \in Seq(T) /\ Len(r) = Len(q) + 1 /\ Len(q) \in Nat
      /\ \A i \in 1 .. Len(q) : r[i] = q[i]
      /\ r[Len(q) + 1] = c
  BY AppendProperties, LenProperties
<1>. HIDE DEF r
<1>2. NoneTwice(r)
  <2>1. \A i \in 1 .. Len(q) : q[i] # c
    BY DEF Who
  <2>2. \A i \in 1 .. Len(r) : i \in 1 .. Len(q) \/ i = Len(q) + 1
    BY <1>1
  <2>. QED
    BY <1>1, <2>1, <2>2 DEF NoneTwice
<1>3. \A d : d \in Who(r) => d \in Who(q) \cup {c}
  <2> SUFFICES ASSUME NEW i \in 1 .. Len(r) PROVE r[i] \in Who(q) \cup {c}
    BY DEF Who
  <2>1. i \in 1 .. Len(q) \/ i = Len(q) + 1
    BY <1>1
  <2>. QED
    BY <1>1, <2>1 DEF Who
<1>4. \A d : d \in Who(q) \cup {c} => d \in Who(r)
  <2>1. c \in Who(r)
    <3>1. Len(q) + 1 \in 1 .. Len(r)
      BY <1>1
    <3>. QED
      BY <1>1, <3>1 DEF Who
  <2>2. ASSUME NEW i \in 1 .. Len(q) PROVE q[i] \in Who(r)
    <3>1. i \in 1 .. Len(r) /\ r[i] = q[i]
      BY <1>1
    <3>. QED
      BY <3>1 DEF Who
  <2>. QED
    BY <2>1, <2>2 DEF Who
<1>. QED
  BY <1>1, <1>2, <1>3, <1>4 DEF r
-----------------------------------------------------------------------------
(* LAB 2. *)
BookingTypes ==
  /\ q_id \in Seq(Customers)
  /\ cpc \in [Customers -> {"pause", "flag", "gone"}] /\ flag \in [Customers -> {0, 1}]
  /\ successful_req \in [Customers -> Nat] /\ granted \in [Customers -> Nat]
  /\ sigusr1 \subseteq Customers /\ sigusr2 \subseteq Customers

Present      == {c \in Customers : cpc[c] # "gone"}

NoSignal(c) == c \notin sigusr1 /\ c \notin sigusr2
Agrees(c)   == successful_req[c] = granted[c]
Quiet(c)    == /\ cpc[c] \in {"pause", "gone"} /\ flag[c] = 0
               /\ NoSignal(c) /\ Agrees(c)
(* Between its request and the answer, before or after it sets its flag.   *)
Expecting(c) == (cpc[c] = "flag" /\ flag[c] = 0) \/ (cpc[c] = "pause" /\ flag[c] = 1)

(* Nobody is being dealt with ... *)
Resting == /\ apc \in {"loop", "end"} /\ ~ agent1 /\ ~ agent2
           /\ \A c \in Customers : Quiet(c)
           /\ Who(q_id) = Present

(* ... or one customer is, who is not in the queue: called, ...            *)
Called(c) == /\ apc \in {"called", "pause"} /\ ~ agent1 /\ ~ agent2
             /\ cpc[c] = "pause" /\ flag[c] = 0 /\ Agrees(c)
             /\ c \in sigusr1 /\ c \notin sigusr2
(* ... with a request, ...                                                 *)
Asked(c) == /\ apc \in {"called", "pause"} /\ agent1 /\ ~ agent2 /\ file[1] = c
            /\ Expecting(c) /\ NoSignal(c) /\ Agrees(c)
(* ... gone, ...                                                           *)
Left(c) == /\ apc \in {"called", "pause"} /\ ~ agent1 /\ agent2
           /\ cpc[c] = "gone" /\ flag[c] = 0 /\ NoSignal(c) /\ Agrees(c)
(* ... with an answer on its way, ...                                      *)
Answered(c) == /\ apc = "push" /\ customer_id = c /\ ~ agent1 /\ ~ agent2
               /\ Expecting(c)
               /\ \/ c \in sigusr1 /\ c \notin sigusr2 /\ granted[c] = successful_req[c] + 1
                  \/ c \notin sigusr1 /\ c \in sigusr2 /\ Agrees(c)
(* ... or with the answer read.                                            *)
Served(c) == /\ apc = "push" /\ customer_id = c /\ ~ agent1 /\ ~ agent2
             /\ cpc[c] = "pause" /\ Quiet(c)

Dealing(c) == /\ \A d \in Customers : d # c => Quiet(d)
              /\ Who(q_id) = Present \ {c}
              /\ Called(c) \/ Asked(c) \/ Left(c) \/ Answered(c) \/ Served(c)

BookingInv == /\ BookingTypes /\ NoneTwice(q_id)
              /\ Resting \/ \E c \in Customers : Dealing(c)
-----------------------------------------------------------------------------
(* A shuffled queue holds everybody. *)
LEMMA OrderOfAll ==
  ASSUME NEW q \in Orders
  PROVE  q \in Seq(Customers) /\ NoneTwice(q) /\ Who(q) = Customers
<1>1. n \in Nat
  BY BookingAssumption
<1>2. q \in [1 .. n -> Customers] /\ \A i, j \in 1 .. n : q[i] = q[j] => i = j
  BY DEF Orders
<1>3. q \in Seq(Customers) /\ Len(q) = n
  BY <1>1, <1>2, LenProperties
<1>4. q \in Injection(1 .. n, Customers)
  BY <1>2, Fun_IsInj
<1>5. IsFiniteSet(Customers) /\ Cardinality(1 .. n) = Cardinality(Customers)
  BY <1>1, FS_Interval DEF Customers
<1>6. q \in Surjection(1 .. n, Customers)
  BY <1>4, <1>5, FS_Injection
<1>7. \A c \in Customers : \E i \in 1 .. n : q[i] = c
  BY <1>6 DEF Surjection
<1>. QED
  BY <1>2, <1>3, <1>7 DEF NoneTwice, Who

LEMMA BookingInvInit == BookingInit => BookingInv
<1> SUFFICES ASSUME BookingInit PROVE BookingInv
  OBVIOUS
<1>1. q_id \in Seq(Customers) /\ NoneTwice(q_id) /\ Who(q_id) = Customers
  BY OrderOfAll DEF BookingInit
<1>2. BookingTypes
  BY <1>1, BookingAssumption DEF BookingInit, BookingTypes
<1>3. Resting
  BY <1>1 DEF BookingInit, Resting, Quiet, NoSignal, Agrees, Present
<1>. QED
  BY <1>1, <1>2, <1>3 DEF BookingInv
-----------------------------------------------------------------------------
(* The agent's steps. *)
LEMMA CallKeeps == ASSUME BookingInv, Call PROVE BookingInv'
<1>1. /\ apc = "loop" /\ q_id # <<>> /\ sigusr1' = sigusr1 \cup {Head(q_id)}
      /\ q_id' = Tail(q_id) /\ apc' = "called"
      /\ UNCHANGED <<t, granted, cpc, flag, successful_req, agent1, agent2, sigusr2>>
      /\ BookingTypes /\ NoneTwice(q_id) /\ q_id \in Seq(Customers)
  BY DEF Call, customer, BookingInv, BookingTypes
<1>2. Resting
  BY <1>1 DEF BookingInv, Dealing, Called, Asked, Left, Answered, Served
<1>3. /\ q_id' \in Seq(Customers) /\ NoneTwice(q_id') /\ Head(q_id) \in Present
      /\ Who(q_id') = Present \ {Head(q_id)} /\ Head(q_id) \in Customers
  BY <1>1, <1>2, Popped DEF Resting
<1>4. PICK c \in Customers : c = Head(q_id)
  BY <1>3
<1>5. BookingTypes' /\ NoneTwice(q_id)'
  BY <1>1, <1>3 DEF BookingTypes, NoneTwice
<1>6. Present' = Present /\ Who(q_id)' = Who(q_id')
  BY <1>1 DEF Present, Who
<1>7. Dealing(c)'
  BY <1>1, <1>2, <1>3, <1>4, <1>6 DEF Resting, Dealing, Called, Quiet, NoSignal, Agrees, Present
<1>. QED
  BY <1>5, <1>7 DEF BookingInv

(* Who is dealt with, of those that the agent's place admits. *)
LEMMA Dealt ==
  ASSUME BookingInv, ~ Resting
  PROVE  \E c \in Customers : Dealing(c)
BY DEF BookingInv

LEMMA PauseKeeps == ASSUME BookingInv, Pause PROVE BookingInv'
<1>1. /\ apc = "called" /\ apc' = "pause" /\ BookingTypes /\ NoneTwice(q_id)
      /\ UNCHANGED <<t, q_id, granted, file, cpc, flag, successful_req, agent1, agent2, sigusr1, sigusr2>>
  BY DEF Pause, customer, BookingInv
<1>2. PICK c \in Customers : Dealing(c)
  BY <1>1, Dealt DEF Resting
<1>3. BookingTypes' /\ NoneTwice(q_id)' /\ Present' = Present /\ Who(q_id)' = Who(q_id)
  BY <1>1 DEF BookingTypes, NoneTwice, Present, Who
<1>4. Dealing(c)'
  BY <1>1, <1>2, <1>3 DEF Dealing, Called, Asked, Left, Answered, Served,
                          Expecting, Quiet, NoSignal, Agrees
<1>. QED
  BY <1>3, <1>4 DEF BookingInv

LEMMA handleSigUsr1Keeps == ASSUME BookingInv, handleSigUsr1, Prompt PROVE BookingInv'
<1>1. /\ agent1 /\ ~ agent1' /\ apc = "pause" /\ apc' = "push" /\ customer_id' = file[1]
      /\ UNCHANGED <<q_id, file, cpc, flag, successful_req, agent2>>
      /\ BookingTypes /\ NoneTwice(q_id)
  BY DEF handleSigUsr1, Woken, customer, BookingInv
<1>2. PICK c \in Customers : Dealing(c) /\ Asked(c)
  BY <1>1, Dealt DEF Resting, Dealing, Called, Left, Answered, Served
<1>3. file[1] = c
  BY <1>2 DEF Asked
<1>4. \/ /\ sigusr1' = sigusr1 \cup {c} /\ sigusr2' = sigusr2
         /\ granted' = [granted EXCEPT ![c] = @ + 1]
      \/ /\ sigusr1' = sigusr1 /\ sigusr2' = sigusr2 \cup {c} /\ granted' = granted
  BY <1>3 DEF handleSigUsr1
<1>5. /\ granted' \in [Customers -> Nat]
      /\ \A d \in Customers : d # c => granted'[d] = granted[d]
      /\ \/ c \in sigusr1' /\ c \notin sigusr2' /\ granted'[c] = successful_req[c] + 1
         \/ c \notin sigusr1' /\ c \in sigusr2' /\ granted'[c] = successful_req[c]
  BY <1>1, <1>2, <1>4 DEF BookingTypes, Asked, NoSignal, Agrees
<1>6. BookingTypes'
  BY <1>1, <1>4, <1>5 DEF BookingTypes
<1>7. NoneTwice(q_id)' /\ Present' = Present /\ Who(q_id)' = Who(q_id)
  BY <1>1 DEF NoneTwice, Present, Who
<1>8. \A d \in Customers : d # c => Quiet(d)'
  BY <1>1, <1>2, <1>4, <1>5 DEF Dealing, Quiet, NoSignal, Agrees
<1>9. Answered(c)'
  BY <1>1, <1>2, <1>3, <1>5 DEF Answered, Asked, Expecting, Agrees
<1>10. Dealing(c)'
  BY <1>2, <1>7, <1>8, <1>9 DEF Dealing
<1>. QED
  BY <1>6, <1>7, <1>10 DEF BookingInv

LEMMA PushBackKeeps == ASSUME BookingInv, PushBack, Prompt PROVE BookingInv'
<1>1. /\ apc \in {"push", "pushcalled"} /\ q_id' = Append(q_id, customer_id)
      /\ cpc[customer_id] = "pause" /\ customer_id \notin sigusr1 \cup sigusr2
      /\ apc' = IF apc = "push" THEN "loop" ELSE "called"
      /\ UNCHANGED <<t, granted, file, cpc, flag, successful_req, agent1, agent2, sigusr1, sigusr2>>
      /\ BookingTypes /\ NoneTwice(q_id) /\ q_id \in Seq(Customers)
  BY DEF PushBack, customer, BookingInv, BookingTypes
<1>2. PICK c \in Customers : Dealing(c)
  BY <1>1, Dealt DEF Resting
<1>3. Served(c) /\ customer_id = c /\ apc = "push" /\ Who(q_id) = Present \ {c}
  BY <1>1, <1>2 DEF Dealing, Called, Asked, Left, Answered, Served
<1>4. /\ q_id' \in Seq(Customers) /\ NoneTwice(q_id') /\ Who(q_id') = Who(q_id) \cup {c}
  BY <1>1, <1>3, Pushed
<1>5. BookingTypes' /\ NoneTwice(q_id)'
  BY <1>1, <1>4 DEF BookingTypes, NoneTwice
<1>6. c \in Present
  BY <1>1, <1>3 DEF Present
<1>7. Present' = Present /\ Who(q_id)' = Present
  BY <1>1, <1>3, <1>4, <1>6 DEF Present, Who
<1>8. \A d \in Customers : Quiet(d)'
  BY <1>1, <1>2, <1>3 DEF Dealing, Served, Quiet, NoSignal, Agrees
<1>9. Resting'
  BY <1>1, <1>3, <1>7, <1>8 DEF Resting, Served
<1>. QED
  BY <1>5, <1>9 DEF BookingInv

LEMMA handleSigUsr2Keeps == ASSUME BookingInv, handleSigUsr2, Prompt PROVE BookingInv'
<1>1. /\ agent2 /\ ~ agent2' /\ apc = "pause" /\ apc' = "loop" /\ BookingTypes /\ NoneTwice(q_id)
      /\ UNCHANGED <<t, q_id, granted, file, cpc, flag, successful_req, agent1, sigusr1, sigusr2>>
  BY DEF handleSigUsr2, Woken, customer, BookingInv
<1>2. PICK c \in Customers : Dealing(c) /\ Left(c)
  BY <1>1, Dealt DEF Resting, Dealing, Called, Asked, Answered, Served
<1>3. BookingTypes' /\ NoneTwice(q_id)' /\ Present' = Present /\ Who(q_id)' = Who(q_id)
  BY <1>1 DEF BookingTypes, NoneTwice, Present, Who
<1>4. Who(q_id) = Present
  BY <1>2 DEF Dealing, Left, Present
<1>5. \A d \in Customers : Quiet(d)'
  BY <1>1, <1>2 DEF Dealing, Left, Quiet, NoSignal, Agrees
<1>6. Resting'
  BY <1>1, <1>2, <1>3, <1>4, <1>5 DEF Resting, Left
<1>. QED
  BY <1>3, <1>6 DEF BookingInv

LEMMA EndKeeps == ASSUME BookingInv, End PROVE BookingInv'
<1>1. /\ apc = "loop" /\ apc' = "end" /\ BookingTypes /\ NoneTwice(q_id)
      /\ UNCHANGED <<t, q_id, granted, file, cpc, flag, successful_req, agent1, agent2, sigusr1, sigusr2>>
  BY DEF End, customer, BookingInv
<1>2. Resting
  BY <1>1 DEF BookingInv, Dealing, Called, Asked, Left, Answered, Served
<1>3. BookingTypes' /\ NoneTwice(q_id)' /\ Present' = Present /\ Who(q_id)' = Who(q_id)
  BY <1>1 DEF BookingTypes, NoneTwice, Present, Who
<1>4. Resting'
  BY <1>1, <1>2, <1>3 DEF Resting, Quiet, NoSignal, Agrees
<1>. QED
  BY <1>3, <1>4 DEF BookingInv

(* The customers' steps. *)
LEMMA TakenSignal ==
  ASSUME BookingInv, NEW c \in Customers, Take(c)
  PROVE  /\ cpc[c] = "pause" /\ sigusr1' = sigusr1 \ {c} /\ Dealing(c)
         /\ flag[c] = 0 => Called(c)
         /\ flag[c] = 1 => Answered(c) /\ granted[c] = successful_req[c] + 1
         /\ c \notin sigusr2
<1>1. c \in sigusr1 /\ cpc[c] = "pause" /\ sigusr1' = sigusr1 \ {c}
  BY DEF Take
<1>2. ~ Resting
  BY <1>1 DEF Resting, Quiet, NoSignal
<1>3. PICK d \in Customers : Dealing(d)
  BY <1>2, Dealt
<1>4. d = c
  BY <1>1, <1>3 DEF Dealing, Quiet, NoSignal
<1>. QED
  BY <1>1, <1>3, <1>4 DEF Dealing, Called, Asked, Left, Answered, Served, Expecting, Quiet, NoSignal

LEMMA RequestKeeps == ASSUME BookingInv, NEW c \in Customers, Request(c) PROVE BookingInv'
<1>1. /\ Take(c) /\ flag[c] = 0 /\ agent1' = TRUE /\ cpc' = [cpc EXCEPT ![c] = "flag"]
      /\ UNCHANGED <<t, q_id, apc, customer_id, granted, agent2, flag, successful_req, sigusr2>>
      /\ BookingTypes /\ NoneTwice(q_id)
  BY DEF Request, agent, BookingInv
<1>2. file'[1] = c
  BY DEF Request
<1>3. Called(c) /\ Dealing(c) /\ sigusr1' = sigusr1 \ {c}
  BY <1>1, TakenSignal
<1>4. cpc'[c] = "flag" /\ \A d \in Customers : d # c => cpc'[d] = cpc[d]
  BY <1>1 DEF BookingTypes
<1>5. BookingTypes' /\ NoneTwice(q_id)'
  BY <1>1, <1>3 DEF BookingTypes, NoneTwice
<1>6. Present' = Present /\ Who(q_id)' = Who(q_id)
  BY <1>1, <1>3, <1>4 DEF Present, Who, Called
<1>7. \A d \in Customers : d # c => Quiet(d)'
  BY <1>1, <1>3, <1>4 DEF Dealing, Quiet, NoSignal, Agrees
<1>8. Asked(c)'
  BY <1>1, <1>2, <1>3, <1>4 DEF Called, Asked, Expecting, NoSignal, Agrees
<1>9. Dealing(c)'
  BY <1>3, <1>6, <1>7, <1>8 DEF Dealing
<1>. QED
  BY <1>5, <1>9 DEF BookingInv

LEMMA SetFlagKeeps == ASSUME BookingInv, NEW c \in Customers, SetFlag(c) PROVE BookingInv'
<1>1. /\ cpc[c] = "flag" /\ cpc' = [cpc EXCEPT ![c] = "pause"] /\ flag' = [flag EXCEPT ![c] = 1]
      /\ UNCHANGED <<t, q_id, apc, customer_id, granted, agent1, agent2, file, successful_req, sigusr1, sigusr2>>
      /\ BookingTypes /\ NoneTwice(q_id)
  BY DEF SetFlag, agent, BookingInv
<1>2. /\ cpc'[c] = "pause" /\ flag'[c] = 1
      /\ \A d \in Customers : d # c => cpc'[d] = cpc[d] /\ flag'[d] = flag[d]
  BY <1>1 DEF BookingTypes
<1>3. ~ Quiet(c)
  BY <1>1 DEF Quiet
<1>4. PICK d \in Customers : Dealing(d)
  BY <1>3, Dealt DEF Resting
<1>5. d = c /\ (Asked(c) \/ Answered(c))
  BY <1>1, <1>3, <1>4 DEF Dealing, Called, Left, Served
<1>6. BookingTypes' /\ NoneTwice(q_id)'
  BY <1>1 DEF BookingTypes, NoneTwice
<1>7. Present' = Present /\ Who(q_id)' = Who(q_id)
  BY <1>1, <1>2 DEF Present, Who
<1>8. \A e \in Customers : e # c => Quiet(e)'
  BY <1>1, <1>2, <1>4, <1>5 DEF Dealing, Quiet, NoSignal, Agrees
<1>9. (Asked(c) => Asked(c)') /\ (Answered(c) => Answered(c)')
  BY <1>1, <1>2 DEF Asked, Answered, Expecting, NoSignal, Agrees
<1>10. Dealing(c)'
  BY <1>4, <1>5, <1>7, <1>8, <1>9 DEF Dealing
<1>. QED
  BY <1>6, <1>10 DEF BookingInv

LEMMA LeaveKeeps == ASSUME BookingInv, NEW c \in Customers, Leave(c) PROVE BookingInv'
<1>1. /\ Take(c) /\ flag[c] = 0 /\ agent2' = TRUE /\ cpc' = [cpc EXCEPT ![c] = "gone"]
      /\ UNCHANGED <<t, q_id, apc, customer_id, granted, agent1, file, flag, successful_req, sigusr2>>
      /\ BookingTypes /\ NoneTwice(q_id)
  BY DEF Leave, agent, BookingInv
<1>2. Called(c) /\ Dealing(c) /\ sigusr1' = sigusr1 \ {c}
  BY <1>1, TakenSignal
<1>3. cpc'[c] = "gone" /\ \A d \in Customers : d # c => cpc'[d] = cpc[d]
  BY <1>1 DEF BookingTypes
<1>4. BookingTypes' /\ NoneTwice(q_id)'
  BY <1>1, <1>2 DEF BookingTypes, NoneTwice
<1>5. Present' = Present \ {c} /\ Who(q_id)' = Who(q_id)
  BY <1>1, <1>3 DEF Present, Who
<1>6. \A d \in Customers : d # c => Quiet(d)'
  BY <1>1, <1>2, <1>3 DEF Dealing, Quiet, NoSignal, Agrees
<1>7. Left(c)'
  BY <1>1, <1>2, <1>3 DEF Called, Left, NoSignal, Agrees
<1>8. Dealing(c)'
  BY <1>2, <1>5, <1>6, <1>7 DEF Dealing
<1>. QED
  BY <1>4, <1>8 DEF BookingInv

LEMMA BookedKeeps == ASSUME BookingInv, NEW c \in Customers, Booked(c) PROVE BookingInv'
<1>1. /\ Take(c) /\ flag[c] = 1
      /\ successful_req' = [successful_req EXCEPT ![c] = @ + 1] /\ flag' = [flag EXCEPT ![c] = 0]
      /\ UNCHANGED <<t, q_id, apc, customer_id, granted, agent1, agent2, file, cpc, sigusr2>>
      /\ BookingTypes /\ NoneTwice(q_id)
  BY DEF Booked, agent, BookingInv
<1>2. /\ Answered(c) /\ Dealing(c) /\ sigusr1' = sigusr1 \ {c} /\ cpc[c] = "pause"
      /\ granted[c] = successful_req[c] + 1 /\ c \notin sigusr2
  BY <1>1, TakenSignal
<1>3. /\ successful_req'[c] = successful_req[c] + 1 /\ flag'[c] = 0
      /\ \A d \in Customers : d # c => successful_req'[d] = successful_req[d] /\ flag'[d] = flag[d]
      /\ successful_req' \in [Customers -> Nat]
  BY <1>1 DEF BookingTypes
<1>4. BookingTypes' /\ NoneTwice(q_id)'
  BY <1>1, <1>2, <1>3 DEF BookingTypes, NoneTwice
<1>5. Present' = Present /\ Who(q_id)' = Who(q_id)
  BY <1>1 DEF Present, Who
<1>6. \A d \in Customers : d # c => Quiet(d)'
  BY <1>1, <1>2, <1>3 DEF Dealing, Quiet, NoSignal, Agrees
<1>7. Served(c)'
  BY <1>1, <1>2, <1>3 DEF Answered, Served, Quiet, NoSignal, Agrees
<1>8. Dealing(c)'
  BY <1>2, <1>5, <1>6, <1>7 DEF Dealing
<1>. QED
  BY <1>4, <1>8 DEF BookingInv

LEMMA RefusedKeeps == ASSUME BookingInv, NEW c \in Customers, Refused(c), Prompt PROVE BookingInv'
<1>1. /\ c \in sigusr2 /\ sigusr2' = sigusr2 \ {c} /\ cpc[c] = "pause" /\ flag' = [flag EXCEPT ![c] = 0]
      /\ UNCHANGED <<t, q_id, apc, customer_id, granted, agent1, agent2, file, cpc, successful_req, sigusr1>>
      /\ BookingTypes /\ NoneTwice(q_id)
  BY DEF Refused, agent, BookingInv
<1>2. PICK d \in Customers : Dealing(d)
  BY <1>1, Dealt DEF Resting, Quiet, NoSignal
<1>3. d = c /\ Answered(c) /\ c \notin sigusr1 /\ Agrees(c)
  BY <1>1, <1>2 DEF Dealing, Called, Asked, Left, Answered, Served, Quiet, NoSignal
<1>4. flag'[c] = 0 /\ \A e \in Customers : e # c => flag'[e] = flag[e]
  BY <1>1 DEF BookingTypes
<1>5. BookingTypes' /\ NoneTwice(q_id)'
  BY <1>1 DEF BookingTypes, NoneTwice
<1>6. Present' = Present /\ Who(q_id)' = Who(q_id)
  BY <1>1 DEF Present, Who
<1>7. \A e \in Customers : e # c => Quiet(e)'
  BY <1>1, <1>2, <1>3, <1>4 DEF Dealing, Quiet, NoSignal, Agrees
<1>8. Served(c)'
  BY <1>1, <1>3, <1>4 DEF Answered, Served, Quiet, NoSignal, Agrees
<1>9. Dealing(c)'
  BY <1>2, <1>3, <1>6, <1>7, <1>8 DEF Dealing
<1>. QED
  BY <1>5, <1>9 DEF BookingInv

LEMMA BookingInvNext == BookingInv /\ Prompt /\ [BookingNext]_bookingVars => BookingInv'
<1> SUFFICES ASSUME BookingInv, Prompt, [BookingNext]_bookingVars PROVE BookingInv'
  OBVIOUS
<1>1. CASE UNCHANGED bookingVars
  <2>1. UNCHANGED <<t, q_id, apc, customer_id, granted, file, cpc, flag, successful_req,
                    agent1, agent2, sigusr1, sigusr2>>
    BY <1>1 DEF bookingVars, agent, customer
  <2>2. BookingTypes' /\ NoneTwice(q_id)'
    BY <2>1 DEF BookingInv, BookingTypes, NoneTwice
  <2>3. CASE Resting
    BY <2>1, <2>2, <2>3 DEF BookingInv, Resting, Quiet, NoSignal, Agrees, Who, Present
  <2>4. CASE \E c \in Customers : Dealing(c)
    <3>1. PICK c \in Customers : Dealing(c)
      BY <2>4
    <3>2. Dealing(c)'
      BY <2>1, <3>1 DEF Dealing, Called, Asked, Left, Answered, Served,
                        Expecting, Quiet, NoSignal, Agrees, Who, Present
    <3>. QED
      BY <2>2, <3>2 DEF BookingInv
  <2>. QED
    BY <2>3, <2>4 DEF BookingInv
<1>2. CASE Agent
  BY <1>2, CallKeeps, PauseKeeps, handleSigUsr1Keeps, PushBackKeeps, handleSigUsr2Keeps, EndKeeps DEF Agent
<1>3. ASSUME NEW c \in Customers, Customer(c) PROVE BookingInv'
  BY <1>3, RequestKeeps, SetFlagKeeps, LeaveKeeps, BookedKeeps, RefusedKeeps DEF Customer
<1>. QED
  BY <1>1, <1>2, <1>3 DEF BookingNext

LEMMA BookingInvImplies == BookingInv => BothAgree
<1> SUFFICES ASSUME BookingInv, apc = "loop" PROVE BothAgree
  BY DEF BothAgree
<1>1. Resting
  BY DEF BookingInv, Dealing, Called, Asked, Left, Answered, Served
<1>. QED
  BY <1>1 DEF BookingInv, Resting, Quiet, Agrees, NoneTwice, Who, Present, BothAgree

(* One customer at a time is called, asks or leaves, and is answered; so   *)
(* when the agent calls the next, both sides agree on what was granted,    *)
(* and the queue holds once each that has not left.                        *)
THEOREM AgentAndCustomersAgree == Prompt => (BookingSpec => []BothAgree)
<1> SUFFICES ASSUME Prompt PROVE BookingSpec => []BothAgree
  OBVIOUS
<1>1. BookingInv /\ [BookingNext]_bookingVars => BookingInv'
  BY BookingInvNext
<1>. QED
  BY <1>1, BookingInvInit, BookingInvImplies, PTL DEF BookingSpec
-----------------------------------------------------------------------------
(* Types, with no assumption on timing: signals may be lost, come before   *)
(* their pause, and be answered from a request of somebody else.           *)
Numbered == /\ agent1 => file[1] \in Customers
            /\ apc \in {"push", "pushcalled"} => customer_id \in Customers

BookingTyped == BookingTypeOK /\ Numbered

LEMMA BookingTypedInit == BookingInit => BookingTyped
<1>. SUFFICES ASSUME BookingInit PROVE BookingTyped
  OBVIOUS
<1>1. q_id \in Seq(Customers)
  BY OrderOfAll DEF BookingInit
<1>2. t \in 0 .. Tickets
  BY BookingAssumption DEF BookingInit
<1>3. file \in (Customers \cup {NOBODY}) \X (0 .. 4)
  BY DEF BookingInit
<1>4. /\ flag \in [Customers -> {0, 1}] /\ successful_req \in [Customers -> Nat]
      /\ granted \in [Customers -> Nat] /\ cpc \in [Customers -> {"pause", "flag", "gone"}]
  BY DEF BookingInit
<1>. QED
  BY <1>1, <1>2, <1>3, <1>4 DEF BookingInit, BookingTyped, BookingTypeOK, Numbered

LEMMA AgentTypes == BookingTyped /\ Agent => BookingTyped'
<1>. SUFFICES ASSUME BookingTyped, Agent PROVE BookingTyped'
  OBVIOUS
<1>. USE DEF BookingTyped, BookingTypeOK, Numbered, customer
<1>1. CASE Call
  <2>1. Head(q_id) \in Customers /\ Tail(q_id) \in Seq(Customers)
    BY <1>1, HeadTailProperties DEF Call
  <2>. QED
    BY <1>1, <2>1 DEF Call
<1>2. CASE PushBack
  <2>1. customer_id \in Customers
    BY <1>2 DEF PushBack
  <2>2. Append(q_id, customer_id) \in Seq(Customers)
    BY <2>1, AppendProperties
  <2>. QED
    BY <1>2, <2>2 DEF PushBack
<1>3. CASE handleSigUsr1
  <2>1. /\ file[1] \in Customers /\ file[2] \in 0 .. 4 /\ customer_id' = file[1] /\ agent1' = FALSE
        /\ apc' \in {"push", "pushcalled"}
        /\ UNCHANGED <<q_id, file, cpc, flag, successful_req, agent2>>
    BY <1>3 DEF handleSigUsr1
  <2>2. CASE file[2] <= t
    <3>1. /\ t' = t - file[2] /\ sigusr1' = sigusr1 \cup {file[1]} /\ sigusr2' = sigusr2
          /\ granted' = [granted EXCEPT ![file[1]] = @ + 1]
      BY <1>3, <2>2 DEF handleSigUsr1
    <3>2. t' \in 0 .. Tickets
      BY <2>1, <2>2, <3>1, BookingAssumption
    <3>3. granted' \in [Customers -> Nat]
      BY <2>1, <3>1
    <3>. QED
      BY <2>1, <3>1, <3>2, <3>3
  <2>3. CASE ~ (file[2] <= t)
    <3>1. UNCHANGED <<t, sigusr1, granted>> /\ sigusr2' = sigusr2 \cup {file[1]}
      BY <1>3, <2>3 DEF handleSigUsr1
    <3>. QED
      BY <2>1, <3>1
  <2>. QED
    BY <2>2, <2>3
<1>4. CASE Pause \/ End
  BY <1>4 DEF Pause, End
<1>5. CASE handleSigUsr2
  BY <1>5 DEF handleSigUsr2
<1>. QED
  BY <1>1, <1>2, <1>3, <1>4, <1>5 DEF Agent

LEMMA CustomerTypes == ASSUME BookingTyped, NEW c \in Customers, Customer(c) PROVE BookingTyped'
<1>. USE DEF BookingTyped, BookingTypeOK, Numbered, agent
<1>1. CASE Request(c)
  <2>1. PICK r \in IF successful_req[c] = 0 THEN 1 .. 4 ELSE {0} : file' = <<c, r>>
    BY <1>1 DEF Request
  <2>2. file' \in (Customers \cup {NOBODY}) \X (0 .. 4) /\ file'[1] = c
    BY <2>1
  <2>. QED
    BY <1>1, <2>2 DEF Request, Take
<1>2. CASE SetFlag(c)
  BY <1>2 DEF SetFlag
<1>3. CASE Leave(c)
  BY <1>3 DEF Leave, Take
<1>4. CASE Booked(c)
  BY <1>4 DEF Booked, Take
<1>5. CASE Refused(c)
  BY <1>5 DEF Refused
<1>. QED
  BY <1>1, <1>2, <1>3, <1>4, <1>5 DEF Customer

(* However late the signals are, every variable keeps to its type; so the  *)
(* agent never sells more tickets than there are, and answers, and queues  *)
(* again, only customers.                                                  *)
THEOREM NeverOversold == BookingSpec => []BookingTypeOK
<1>1. BookingTyped /\ [BookingNext]_bookingVars => BookingTyped'
  <2>. SUFFICES ASSUME BookingTyped, [BookingNext]_bookingVars PROVE BookingTyped'
    OBVIOUS
  <2>1. CASE UNCHANGED bookingVars
    BY <2>1 DEF bookingVars, agent, customer, BookingTyped, BookingTypeOK, Numbered
  <2>. QED
    BY <2>1, AgentTypes, CustomerTypes DEF BookingNext
<1>2. BookingTyped => BookingTypeOK
  BY DEF BookingTyped
<1>. QED
  BY <1>1, <1>2, BookingTypedInit, PTL DEF BookingSpec
-----------------------------------------------------------------------------
(* LAB 5. *)
Places == {"unborn", "signal", "push", "pcb", "look", "schedule", "pop", "idle", "release",
           "enqueue", "ready", "preempt", "requeue", "block", "exit", "quit",
           "read", "nap", "sync", "ticked", "rest", "gone"}
States == {"READY", "RUNNING", "IO", "EXITED"}

Types ==
  /\ now \in Nat /\ running \in {-1} \cup Processes /\ next_interrupt \in Int
  /\ queue \in Seq(Processes)
  /\ state \in [Processes -> States] /\ registered \subseteq Processes
  /\ sync \in Nat
  /\ pc \in [Processes -> Places] /\ inturn \in BOOLEAN
  /\ DOMAIN burst_times = Processes
  /\ \A p \in Processes : burst_times[p] \in Seq(Nat \ {0}) /\ Len(burst_times[p]) % 2 = 1
  /\ burst_idx \in [Processes -> Nat] /\ rem \in [Processes -> Int]
  /\ local_time \in [Processes -> Nat]
  /\ got_sigusr1 \in [Processes -> BOOLEAN] /\ seen \in [Processes -> States]
  /\ tpc \in {"start", "sleep", "timeout", "open", "window", "end"}
  /\ lpc \in {"loop", "nap", "sync", "wait", "end"}
  /\ ltime \in Nat /\ forked \in 0 .. N

(* After its last burst a process only leaves. *)
Leaving(p) == burst_idx[p] > Len(burst_times[p])
Bursts == \A p \in Processes :
            /\ burst_idx[p] \in 1 .. Len(burst_times[p]) + 1
            /\ Leaving(p) => pc[p] \in {"exit", "release", "schedule", "idle", "pop", "quit", "gone"}
            /\ pc[p] \in {"exit", "quit"} => Leaving(p)
            /\ pc[p] = "unborn" <=> p >= forked

Typed == Types /\ Bursts
-----------------------------------------------------------------------------
LEMMA Constants ==
  /\ Processes = 0 .. N - 1 /\ N \in Nat \ {0} /\ N <= S /\ S \in Nat
  /\ 0 \in Processes /\ -1 \notin Processes /\ Processes \subseteq Nat
  /\ IsFiniteSet(Processes)
<1>1. Processes = 0 .. N - 1 /\ N \in 1 .. S /\ S \in Nat
  BY SchedulerAssumption
<1>2. IsFiniteSet(0 .. N - 1)
  BY <1>1, FS_Interval
<1>. QED
  BY <1>1, <1>2

(* Where a push and a change of state lead, and to which state. *)
LEMMA Tables ==
  /\ DOMAIN AfterPush = {"push", "enqueue", "requeue"}
  /\ AfterPush["push"] = "pcb" /\ AfterPush["enqueue"] = "ready" /\ AfterPush["requeue"] = "schedule"
  /\ DOMAIN NewState = {"pcb", "ready", "preempt", "block", "exit"}
  /\ NewState["pcb"] = "READY" /\ NewState["ready"] = "READY" /\ NewState["preempt"] = "READY"
  /\ NewState["block"] = "IO" /\ NewState["exit"] = "EXITED"
  /\ AfterSet["pcb"] = "look" /\ AfterSet["ready"] = "look" /\ AfterSet["preempt"] = "requeue"
  /\ AfterSet["block"] = "release" /\ AfterSet["exit"] = "release"
<1>1. DOMAIN AfterPush = {"push", "enqueue", "requeue"}
  BY DEF AfterPush
<1>2. AfterPush["push"] = "pcb" /\ AfterPush["enqueue"] = "ready" /\ AfterPush["requeue"] = "schedule"
  BY DEF AfterPush
<1>3. DOMAIN NewState = {"pcb", "ready", "preempt", "block", "exit"}
  BY DEF NewState
<1>4. /\ NewState["pcb"] = "READY" /\ NewState["ready"] = "READY" /\ NewState["preempt"] = "READY"
      /\ NewState["block"] = "IO" /\ NewState["exit"] = "EXITED"
  BY DEF NewState
<1>5. /\ AfterSet["pcb"] = "look" /\ AfterSet["ready"] = "look" /\ AfterSet["preempt"] = "requeue"
      /\ AfterSet["block"] = "release" /\ AfterSet["exit"] = "release"
  BY DEF AfterSet
<1>. QED
  BY <1>1, <1>2, <1>3, <1>4, <1>5

LEMMA TypedInit == Init => Typed
<1> SUFFICES ASSUME Init PROVE Typed
  OBVIOUS
<1>1. PICK w \in Workloads : burst_times = w.bursts /\ inturn = w.inturn
  BY DEF Init
<1>2. /\ inturn \in BOOLEAN /\ DOMAIN burst_times = Processes
      /\ \A p \in Processes : burst_times[p] \in Seq(Nat \ {0}) /\ Len(burst_times[p]) % 2 = 1
  BY <1>1, SchedulerAssumption
<1>3. ASSUME NEW p \in Processes PROVE 1 \in 1 .. Len(burst_times[p]) /\ burst_times[p][1] \in Nat
  <2>1. PICK s \in Seq(Nat \ {0}) : s = burst_times[p] /\ Len(s) % 2 = 1
    BY <1>2
  <2>2. Len(s) \in Nat /\ Len(s) # 0
    <3>1. 0 % 2 = 0
      OBVIOUS
    <3>2. PICK l : l = Len(s)
      OBVIOUS
    <3>3. l \in Nat /\ l % 2 = 1
      <4>1. l \in Nat
        BY <2>1, <3>2
      <4>2. l % 2 = 1
        BY <2>1, <3>2, Zenon
      <4>. QED
        BY <4>1, <4>2
    <3>4. l # 0
      BY <3>1, <3>3
    <3>. QED
      BY <3>2, <3>3, <3>4
  <2>. QED
    BY <2>1, <2>2
<1>4. Types
  <2>1. /\ now \in Nat /\ running \in {-1} \cup Processes /\ next_interrupt \in Int
        /\ queue \in Seq(Processes) /\ sync \in Nat /\ registered \subseteq Processes
        /\ tpc \in {"start", "sleep", "timeout", "open", "window", "end"}
        /\ lpc \in {"loop", "nap", "sync", "wait", "end"} /\ ltime \in Nat /\ forked \in 0 .. N
    BY Constants DEF Init
  <2>2. state \in [Processes -> States] /\ seen \in [Processes -> States] /\ pc \in [Processes -> Places]
    BY DEF Init, States, Places
  <2>3. got_sigusr1 \in [Processes -> BOOLEAN] /\ burst_idx \in [Processes -> Nat]
    BY DEF Init
  <2>4. local_time \in [Processes -> Nat]
    BY SchedulerAssumption DEF Init
  <2>5. rem \in [Processes -> Int]
    BY <1>3 DEF Init
  <2>. QED
    BY <1>2, <2>1, <2>2, <2>3, <2>4, <2>5 DEF Types
<1>5. Bursts
  <2>1. ASSUME NEW p \in Processes
        PROVE  burst_idx[p] = 1 /\ pc[p] = "unborn" /\ Len(burst_times[p]) \in Nat
    BY <1>2 DEF Init
  <2>2. forked = 0 /\ \A p \in Processes : p >= 0
    BY Constants DEF Init
  <2>. QED
    BY <1>3, <2>1, <2>2 DEF Bursts, Leaving
<1>. QED
  BY <1>4, <1>5 DEF Typed

(* A step of one process that leaves its bursts alone. *)
LEMMA Moved ==
  ASSUME Typed, NEW p \in Processes, NEW x \in Places, pc' = [pc EXCEPT ![p] = x],
         UNCHANGED <<burst_idx, burst_times, forked>>, pc[p] # "unborn", x # "unborn",
         Leaving(p) => x \in {"release", "schedule", "idle", "pop", "quit", "gone"},
         x \in {"exit", "quit"} => Leaving(p)
  PROVE  pc' \in [Processes -> Places] /\ Bursts'
<1>1. pc \in [Processes -> Places] /\ Bursts
  BY DEF Typed, Types
<1>2. pc' \in [Processes -> Places]
  BY <1>1
<1>3. \A q \in Processes : Leaving(q)' = Leaving(q)
  BY DEF Leaving
<1>4. \A q \in Processes : pc'[q] = IF q = p THEN x ELSE pc[q]
  BY <1>1
<1>5. ASSUME NEW q \in Processes
      PROVE  /\ burst_idx'[q] \in 1 .. Len(burst_times'[q]) + 1
             /\ Leaving(q)' => pc'[q] \in {"exit", "release", "schedule", "idle", "pop", "quit", "gone"}
             /\ pc'[q] \in {"exit", "quit"} => Leaving(q)'
             /\ pc'[q] = "unborn" <=> q >= forked'
  BY <1>1, <1>3, <1>4 DEF Bursts
<1>. QED
  BY <1>2, <1>5 DEF Bursts

LEMMA PushTyped == ASSUME Typed, NEW p \in Processes, Push(p) PROVE Typed'
<1>1. PICK x : x = AfterPush[pc[p]]
  OBVIOUS
<1>2. /\ pc[p] \in {"push", "enqueue", "requeue"} /\ x \in {"pcb", "ready", "schedule"}
      /\ pc' = [pc EXCEPT ![p] = x] /\ queue' = queuePush(queue, p)
  BY <1>1, Tables DEF Push, Typed, Types
<1>3. UNCHANGED <<now, running, next_interrupt, state, registered, sync, own, others>>
  BY DEF Push
<1>4. ~ Leaving(p)
  BY <1>2 DEF Typed, Bursts
<1>5. pc' \in [Processes -> Places] /\ Bursts'
  BY <1>2, <1>3, <1>4, Moved DEF own, fixed, others, Places
<1>6. queue' \in Seq(Processes)
  BY <1>2 DEF queuePush, Typed, Types
<1>. QED
  BY <1>3, <1>5, <1>6 DEF Typed, Types, own, fixed, others

LEMMA SetStateTyped == ASSUME Typed, NEW p \in Processes, SetState(p) PROVE Typed'
<1>1. PICK x, y : x = AfterSet[pc[p]] /\ y = NewState[pc[p]]
  OBVIOUS
<1>2. /\ pc[p] \in {"pcb", "ready", "preempt", "block", "exit"}
      /\ x \in {"look", "requeue", "release"} /\ y \in States
      /\ pc[p] \in {"pcb", "ready", "preempt", "block"} => ~ Leaving(p)
      /\ pc[p] = "exit" => x = "release"
  BY <1>1, Tables DEF SetState, Typed, Bursts, States
<1>3. /\ pc' = [pc EXCEPT ![p] = x] /\ state' = [state EXCEPT ![p] = y] /\ registered' = registered \cup {p}
      /\ UNCHANGED <<now, running, next_interrupt, queue, sync, own, others>>
  BY <1>1 DEF SetState, Typed, Types
<1>4. pc' \in [Processes -> Places] /\ Bursts'
  BY <1>2, <1>3, Moved DEF own, fixed, others, Places
<1>5. state' \in [Processes -> States] /\ registered' \subseteq Processes
  BY <1>2, <1>3 DEF Typed, Types
<1>. QED
  BY <1>3, <1>4, <1>5 DEF Typed, Types, own, fixed, others

LEMMA ScheduleTyped ==
  ASSUME Typed, NEW p \in Processes,
         Release(p) \/ Look(p) \/ scheduleNext(p) \/ GoIdle(p) \/ Pop(p) \/ PopNothing(p) \/ quit(p)
  PROVE  Typed'
<1>1. UNCHANGED <<now, registered, own, others>>
  BY DEF Release, Look, scheduleNext, GoIdle, Pop, PopNothing, quit, shared
<1>2. PICK x : pc' = [pc EXCEPT ![p] = x]
  BY DEF Release, Look, scheduleNext, GoIdle, Pop, PopNothing, quit, Goto
<1>3. pc'[p] = x
  BY <1>2 DEF Typed, Types
<1>4. /\ x \in {"schedule", "read", "idle", "pop", "quit", "gone"}
      /\ pc[p] = "look" \/ (x = "read" => ~ Leaving(p)) 
      /\ x = "quit" => Leaving(p)
  <2>1. AfterSchedule(p) = IF Leaving(p) THEN "quit" ELSE "read"
    BY DEF AfterSchedule, Leaving
  <2>2. CASE Release(p) \/ Look(p) \/ scheduleNext(p) \/ quit(p)
    BY <1>3, <2>2 DEF Release, Look, scheduleNext, quit, Goto, Typed, Types
  <2>3. CASE GoIdle(p) \/ Pop(p) \/ PopNothing(p)
    BY <1>3, <2>1, <2>3 DEF GoIdle, Pop, PopNothing, Goto, Typed, Types
  <2>. QED
    BY <2>2, <2>3
<1>5. (pc[p] = "look" => ~ Leaving(p)) /\ pc[p] # "unborn"
  BY DEF Release, Look, scheduleNext, GoIdle, Pop, PopNothing, quit, Goto, Typed, Bursts
<1>6. pc' \in [Processes -> Places] /\ Bursts'
  BY <1>1, <1>2, <1>4, <1>5, Moved DEF own, fixed, others, Places
<1>7. sync' \in Nat
  BY DEF Release, Look, scheduleNext, GoIdle, Pop, PopNothing, quit, shared, Undo, Typed, Types
<1>8. \A q \in Processes : getQuantum(q) \in Int
  BY SchedulerAssumption DEF getQuantum
<1>9. Quantum[0] \in Nat /\ Quantum[1] \in Nat /\ Quantum[2] \in Nat
  BY SchedulerAssumption
<1>10. /\ running' \in {-1} \cup Processes /\ next_interrupt' \in Int
       /\ queue' \in Seq(Processes) /\ state' \in [Processes -> States]
  <2>1. CASE Release(p) \/ Look(p) \/ scheduleNext(p) \/ GoIdle(p) \/ quit(p)
    BY <2>1 DEF Release, Look, scheduleNext, GoIdle, quit, shared, Typed, Types
  <2>2. CASE PopNothing(p)
    <3>1. running' = -1 /\ UNCHANGED <<queue, state>>
      BY <2>2 DEF PopNothing
    <3>2. local_time[p] \in Nat /\ next_interrupt \in Int
      BY DEF Typed, Types
    <3>3. \A q \in {0, Quantum[0], Quantum[1], Quantum[2]} : local_time[p] + q \in Int
      BY <1>9, <3>2
    <3>4. next_interrupt' \in Int
      BY <2>2, <3>2, <3>3 DEF PopNothing
    <3>. QED
      BY <3>1, <3>4 DEF Typed, Types
  <2>3. CASE Pop(p)
    <3>1. queue # <<>> /\ queue \in Seq(Processes)
      BY <2>3 DEF Pop, Typed, Types
    <3>2. PICK h \in Processes : h = Head(queue)
      BY <3>1
    <3>3. /\ state' = [state EXCEPT ![h] = "RUNNING"] /\ running' = h
          /\ next_interrupt' = local_time[p] + getQuantum(h) /\ queue' = Tail(queue)
      BY <2>3, <3>2 DEF Pop
    <3>4. queue' \in Seq(Processes)
      BY <3>1, <3>3
    <3>5. state' \in [Processes -> States]
      BY <3>3 DEF Typed, Types, States
    <3>6. next_interrupt' \in Int
      BY <1>8, <3>3 DEF Typed, Types
    <3>. QED
      BY <3>3, <3>4, <3>5, <3>6
  <2>. QED
    BY <2>1, <2>2, <2>3
<1>. QED
  BY <1>1, <1>6, <1>7, <1>10 DEF Typed, Types, own, fixed, others

LEMMA LoopTyped ==
  ASSUME Typed, NEW p \in Processes,
         \/ StartTimer(p) \/ ReadState(p) \/ EndNap(p) \/ PassWindow(p)
         \/ Rest(p) \/ EndRest(p) \/ Interrupted(p) \/ Continue(p)
  PROVE  Typed'
<1>1. /\ UNCHANGED <<now, running, next_interrupt, queue, state, registered, burst_idx, fixed, others>>
      /\ sync' \in Nat
  BY DEF StartTimer, ReadState, EndNap, PassWindow, Rest, EndRest, Interrupted, Continue, shared, own, Typed, Types
<1>2. PICK x \in {"push", "nap", "sync", "ticked", "rest", "read", "preempt"} : pc' = [pc EXCEPT ![p] = x]
  BY DEF StartTimer, ReadState, EndNap, PassWindow, Rest, EndRest, Interrupted, Continue, Goto
<1>3. pc[p] \in {"signal", "read", "nap", "sync", "ticked", "rest"}
  BY DEF StartTimer, ReadState, EndNap, PassWindow, Rest, EndRest, Interrupted, Continue, Goto
<1>4. ~ Leaving(p)
  BY <1>3 DEF Typed, Bursts
<1>5. pc' \in [Processes -> Places] /\ Bursts'
  BY <1>1, <1>2, <1>3, <1>4, Moved DEF fixed, others, Places
<1>6. seen' \in [Processes -> States] /\ rem' \in [Processes -> Int]
  <2>1. CASE ReadState(p)
    BY <2>1 DEF ReadState, Typed, Types
  <2>2. CASE ~ ReadState(p)
    BY <2>2 DEF StartTimer, EndNap, PassWindow, Rest, EndRest, Interrupted, Continue, own, Typed, Types
  <2>. QED
    BY <2>1, <2>2
<1>7. local_time' \in [Processes -> Nat]
  <2>1. CASE PassWindow(p)
    BY <2>1 DEF PassWindow, Typed, Types
  <2>2. CASE ~ PassWindow(p)
    BY <2>2 DEF StartTimer, EndNap, ReadState, Rest, EndRest, Interrupted, Continue, own, Typed, Types
  <2>. QED
    BY <2>1, <2>2
<1>8. got_sigusr1' \in [Processes -> BOOLEAN]
  <2>1. CASE Interrupted(p)
    BY <2>1 DEF Interrupted, Typed, Types
  <2>2. CASE ~ Interrupted(p)
    BY <2>2 DEF StartTimer, EndNap, ReadState, Rest, EndRest, PassWindow, Continue, own, Typed, Types
  <2>. QED
    BY <2>1, <2>2
<1>. QED
  BY <1>1, <1>5, <1>6, <1>7, <1>8 DEF Typed, Types, fixed, others

LEMMA EndBurstTyped == ASSUME Typed, NEW p \in Processes, EndBurst(p) PROVE Typed'
<1>1. /\ UNCHANGED <<shared, fixed, local_time, seen, others>>
      /\ burst_idx' = [burst_idx EXCEPT ![p] = @ + 1]
      /\ got_sigusr1' = [got_sigusr1 EXCEPT ![p] = FALSE]
      /\ pc[p] = "ticked"
  BY DEF EndBurst, Goto
<1>2. /\ burst_idx[p] \in 1 .. Len(burst_times[p]) /\ Len(burst_times[p]) \in Nat
      /\ burst_times[p] \in Seq(Nat \ {0}) /\ burst_idx \in [Processes -> Nat]
      /\ pc \in [Processes -> Places] /\ rem \in [Processes -> Int]
  <2>1. ~ Leaving(p) /\ burst_idx[p] \in 1 .. Len(burst_times[p]) + 1
    BY <1>1 DEF Typed, Bursts
  <2>2. burst_times[p] \in Seq(Nat \ {0}) /\ Len(burst_times[p]) \in Nat
    <3>1. PICK s \in Seq(Nat \ {0}) : s = burst_times[p]
      BY DEF Typed, Types
    <3>2. Len(s) \in Nat
      OBVIOUS
    <3>. QED
      BY <3>1, <3>2
  <2>. QED
    BY <2>1, <2>2 DEF Typed, Types, Leaving
<1>3. \/ pc' = [pc EXCEPT ![p] = "exit"] /\ burst_idx[p] = Len(burst_times[p]) /\ rem' = rem
      \/ /\ burst_idx[p] # Len(burst_times[p])
         /\ \/ pc' = [pc EXCEPT ![p] = "block"]
            \/ pc' = [pc EXCEPT ![p] = "enqueue"]
         /\ rem' = [rem EXCEPT ![p] = burst_times[p][burst_idx[p] + 1]]
  BY DEF EndBurst, Goto
<1>4. rem' \in [Processes -> Int]
  <2>1. burst_idx[p] # Len(burst_times[p]) => burst_times[p][burst_idx[p] + 1] \in Nat
    BY <1>2
  <2>. QED
    BY <1>2, <1>3, <2>1
<1>5. pc' \in [Processes -> Places]
  BY <1>2, <1>3 DEF Places
<1>6. Bursts'
  <2>1. ASSUME NEW q \in Processes, q # p
        PROVE  burst_idx'[q] = burst_idx[q] /\ pc'[q] = pc[q] /\ Leaving(q)' = Leaving(q)
    BY <1>1, <1>2, <1>3, <2>1 DEF Leaving, fixed
  <2>2. /\ burst_idx'[p] = burst_idx[p] + 1 /\ burst_times' = burst_times
        /\ Leaving(p)' <=> burst_idx[p] = Len(burst_times[p])
    BY <1>1, <1>2 DEF Leaving, fixed
  <2>3. pc'[p] \in {"exit", "block", "enqueue"} /\ (pc'[p] = "exit" <=> burst_idx[p] = Len(burst_times[p]))
    BY <1>2, <1>3
  <2>4. ASSUME NEW q \in Processes
        PROVE  /\ burst_idx'[q] \in 1 .. Len(burst_times'[q]) + 1
               /\ Leaving(q)' => pc'[q] \in {"exit", "release", "schedule", "idle", "pop", "quit", "gone"}
               /\ pc'[q] \in {"exit", "quit"} => Leaving(q)'
               /\ pc'[q] = "unborn" <=> q >= forked'
    <3>0. forked' = forked /\ ~ (p >= forked)
      BY <1>1 DEF others, Typed, Bursts
    <3>1. CASE q = p
      BY <1>2, <2>2, <2>3, <3>0, <3>1
    <3>2. CASE q # p
      BY <2>1, <2>2, <3>0, <3>2 DEF Typed, Bursts
    <3>. QED
      BY <3>1, <3>2
  <2>. QED
    BY <2>4 DEF Bursts
<1>7. burst_idx' \in [Processes -> Nat] /\ got_sigusr1' \in [Processes -> BOOLEAN]
  BY <1>1, <1>2 DEF Typed, Types
<1>. QED
  BY <1>1, <1>4, <1>5, <1>6, <1>7 DEF Typed, Types, shared, fixed, others

LEMMA TimerTyped == ASSUME Typed, Timer PROVE Typed'
<1>1. UNCHANGED <<running, next_interrupt, queue, state, registered, fixed, burst_idx, rem, seen, lpc, ltime, forked>>
  BY DEF Timer, StartClock, Tick, handleTimeout, OpenWindow, CloseWindow, NobodyTouched
<1>2. now' \in Nat /\ sync' \in Nat /\ tpc' \in {"sleep", "timeout", "open", "window"}
  BY DEF Timer, StartClock, Tick, handleTimeout, OpenWindow, CloseWindow, Typed, Types
<1>3. \/ UNCHANGED <<pc, local_time, got_sigusr1>>
      \/ /\ running \in Processes /\ got_sigusr1' = [got_sigusr1 EXCEPT ![running] = TRUE]
         /\ \/ UNCHANGED <<pc, local_time>>
            \/ /\ pc[running] = "sync" /\ pc' = [pc EXCEPT ![running] = "ticked"]
               /\ local_time' = [local_time EXCEPT ![running] = @ + 1]
  BY DEF Timer, StartClock, Tick, handleTimeout, OpenWindow, CloseWindow, Typed, Types
<1>4. local_time' \in [Processes -> Nat] /\ got_sigusr1' \in [Processes -> BOOLEAN]
  <2>1. local_time \in [Processes -> Nat] /\ got_sigusr1 \in [Processes -> BOOLEAN]
    BY DEF Typed, Types
  <2>2. got_sigusr1' \in [Processes -> BOOLEAN]
    BY <1>3, <2>1
  <2>3. local_time' \in [Processes -> Nat]
    BY <1>3, <2>1
  <2>. QED
    BY <2>2, <2>3
<1>5. pc' \in [Processes -> Places] /\ Bursts'
  <2>1. CASE pc' = pc
    BY <1>1, <2>1 DEF Typed, Types, Bursts, Leaving, fixed
  <2>2. CASE pc' # pc
    <3>1. running \in Processes /\ pc[running] = "sync" /\ pc' = [pc EXCEPT ![running] = "ticked"]
      BY <1>3, <2>2
    <3>2. ~ Leaving(running)
      BY <3>1 DEF Typed, Bursts
    <3>. QED
      BY <1>1, <3>1, <3>2, Moved DEF fixed, others, Places
  <2>. QED
    BY <2>1, <2>2
<1>. QED
  BY <1>1, <1>2, <1>4, <1>5 DEF Typed, Types, fixed

LEMMA LauncherTyped == ASSUME Typed, Launcher PROVE Typed'
<1>1. CASE forkProcess
  <2>1. /\ forked \in Processes /\ forked' = forked + 1
        /\ UNCHANGED <<shared, own, tpc, lpc, ltime>>
    BY <1>1, Constants DEF forkProcess, Typed, Types
  <2>2. PICK x \in {"signal", "push"} : pc' = [pc EXCEPT ![forked] = x]
    BY <1>1 DEF forkProcess
  <2>3. forked' \in 0 .. N
    BY <2>1, Constants
  <2>4. pc[forked] = "unborn" /\ ~ Leaving(forked) /\ pc \in [Processes -> Places]
    <3>1. forked >= forked
      BY <2>1, Constants
    <3>. QED
      BY <2>1, <3>1 DEF Typed, Types, Bursts
  <2>5. pc' \in [Processes -> Places] /\ \A q \in Processes : pc'[q] = IF q = forked THEN x ELSE pc[q]
    BY <2>2, <2>4 DEF Places
  <2>6. \A q \in Processes : q >= forked' <=> q >= forked /\ q # forked
    BY <2>1, Constants
  <2>7. Bursts'
    <3>1. \A q \in Processes : Leaving(q)' = Leaving(q) /\ burst_idx'[q] = burst_idx[q]
                               /\ burst_times'[q] = burst_times[q]
      BY <2>1 DEF Leaving, own, fixed
    <3>2. ASSUME NEW q \in Processes
          PROVE  /\ burst_idx'[q] \in 1 .. Len(burst_times'[q]) + 1
                 /\ Leaving(q)' => pc'[q] \in {"exit", "release", "schedule", "idle", "pop", "quit", "gone"}
                 /\ pc'[q] \in {"exit", "quit"} => Leaving(q)'
                 /\ pc'[q] = "unborn" <=> q >= forked'
      BY <2>4, <2>5, <2>6, <3>1 DEF Typed, Bursts
    <3>. QED
      BY <3>2 DEF Bursts
  <2>. QED
    BY <2>1, <2>3, <2>5, <2>7 DEF Typed, Types, shared, own, fixed
<1>2. CASE NextTick \/ LauncherEndNap \/ LauncherPassWindow \/ LauncherQuit
  <2>1. UNCHANGED <<shared, own, pc, forked>>
    BY <1>2 DEF NextTick, LauncherEndNap, LauncherPassWindow, LauncherQuit
  <2>2. /\ lpc' \in {"loop", "nap", "sync", "wait", "end"} /\ ltime' \in Nat
        /\ tpc' \in {"start", "sleep", "timeout", "open", "window", "end"}
    BY <1>2 DEF NextTick, LauncherEndNap, LauncherPassWindow, LauncherQuit, Typed, Types
  <2>. QED
    BY <2>1, <2>2 DEF Typed, Types, Bursts, Leaving, shared, own, fixed
<1>. QED
  BY <1>1, <1>2 DEF Launcher

LEMMA TypedNext == Typed /\ [Next]_vars => Typed'
<1> SUFFICES ASSUME Typed, [Next]_vars PROVE Typed'
  OBVIOUS
<1>1. CASE UNCHANGED vars
  BY <1>1 DEF vars, shared, own, fixed, others, Typed, Types, Bursts, Leaving
<1>. QED
  BY <1>1, PushTyped, SetStateTyped, ScheduleTyped, LoopTyped, EndBurstTyped, TimerTyped, LauncherTyped
     DEF Next, Process
-----------------------------------------------------------------------------
(* What each step does, process by process.  A process is still if its own *)
(* memory and its place do not change.                                     *)
Still(q) == /\ pc'[q] = pc[q] /\ seen'[q] = seen[q] /\ burst_idx'[q] = burst_idx[q]
            /\ local_time'[q] = local_time[q] /\ got_sigusr1'[q] = got_sigusr1[q]
Only(p)  == burst_times' = burst_times /\ inturn' = inturn
            /\ \A q \in Processes : q # p => Still(q)
Memory   == UNCHANGED <<seen, burst_idx, burst_times, inturn, local_time, got_sigusr1>>
World    == UNCHANGED <<tpc, lpc, ltime, forked>>

LEMMA OnlyMoved ==
  ASSUME Typed, NEW p \in Processes, NEW x, pc' = [pc EXCEPT ![p] = x], Memory
  PROVE  Only(p) /\ pc'[p] = x
<1>1. pc \in [Processes -> Places]
  BY DEF Typed, Types
<1>. QED
  BY <1>1 DEF Only, Still, Memory

LEMMA PushStep ==
  ASSUME Typed, NEW p \in Processes, Push(p)
  PROVE  /\ Only(p) /\ Memory /\ World
         /\ \/ pc[p] = "push" /\ pc'[p] = "pcb" /\ MayWork(p)
            \/ pc[p] = "enqueue" /\ pc'[p] = "ready"
            \/ pc[p] = "requeue" /\ pc'[p] = "schedule"
         /\ queue' = queuePush(queue, p)
         /\ UNCHANGED <<now, running, next_interrupt, state, registered, sync>>
<1>1. PICK x : x = AfterPush[pc[p]]
  OBVIOUS
<1>2. /\ pc[p] \in {"push", "enqueue", "requeue"} /\ pc' = [pc EXCEPT ![p] = x]
      /\ pc[p] = "push" => x = "pcb" /\ MayWork(p)
      /\ pc[p] = "enqueue" => x = "ready"
      /\ pc[p] = "requeue" => x = "schedule"
  BY <1>1, Tables DEF Push, Typed, Types
<1>3. /\ queue' = queuePush(queue, p) /\ Memory /\ World
      /\ UNCHANGED <<now, running, next_interrupt, state, registered, sync>>
  BY DEF Push, own, fixed, others, Memory, World
<1>. QED
  BY <1>2, <1>3, OnlyMoved

LEMMA SetStateStep ==
  ASSUME Typed, NEW p \in Processes, SetState(p)
  PROVE  /\ Only(p) /\ Memory /\ World
         /\ \/ pc[p] = "pcb" /\ pc'[p] = "look" /\ state'[p] = "READY"
            \/ pc[p] = "ready" /\ pc'[p] = "look" /\ state'[p] = "READY"
            \/ pc[p] = "preempt" /\ pc'[p] = "requeue" /\ state'[p] = "READY"
            \/ pc[p] = "block" /\ pc'[p] = "release" /\ state'[p] = "IO"
            \/ pc[p] = "exit" /\ pc'[p] = "release" /\ state'[p] = "EXITED"
         /\ \A q \in Processes : q # p => state'[q] = state[q]
         /\ registered' = registered \cup {p}
         /\ UNCHANGED <<now, running, next_interrupt, queue, sync>>
<1>1. PICK x, y : x = AfterSet[pc[p]] /\ y = NewState[pc[p]]
  OBVIOUS
<1>2. /\ pc[p] \in {"pcb", "ready", "preempt", "block", "exit"}
      /\ pc' = [pc EXCEPT ![p] = x] /\ state' = [state EXCEPT ![p] = y]
      /\ registered' = registered \cup {p} /\ Memory /\ World
      /\ UNCHANGED <<now, running, next_interrupt, queue, sync>>
  BY <1>1, Tables DEF SetState, own, fixed, others, Memory, World, Typed, Types
<1>3. /\ pc[p] \in {"pcb", "ready"} => x = "look" /\ y = "READY"
      /\ pc[p] = "preempt" => x = "requeue" /\ y = "READY"
      /\ pc[p] = "block" => x = "release" /\ y = "IO"
      /\ pc[p] = "exit" => x = "release" /\ y = "EXITED"
  BY <1>1, Tables
<1>4. state'[p] = y /\ \A q \in Processes : q # p => state'[q] = state[q]
  BY <1>2 DEF Typed, Types
<1>5. Only(p) /\ pc'[p] = x
  BY <1>2, OnlyMoved
<1>. QED
  BY <1>2, <1>3, <1>4, <1>5

LEMMA LookStep ==
  ASSUME Typed, NEW p \in Processes, Release(p) \/ Look(p) \/ scheduleNext(p)
  PROVE  /\ Only(p) /\ Memory /\ World
         /\ \/ pc[p] = "release" /\ pc'[p] = "schedule" /\ running' = -1
            \/ pc[p] = "look" /\ pc'[p] = "schedule" /\ running = -1 /\ running' = running
            \/ pc[p] = "look" /\ pc'[p] = "read" /\ running # -1 /\ running' = running
            \/ pc[p] = "schedule" /\ pc'[p] = "idle" /\ queue = <<>> /\ running' = running
            \/ pc[p] = "schedule" /\ pc'[p] = "pop" /\ queue # <<>> /\ running' = running
         /\ UNCHANGED <<now, next_interrupt, queue, state, registered, sync>>
<1>1. /\ Memory /\ World /\ UNCHANGED <<now, next_interrupt, queue, state, registered, sync>>
  BY DEF Release, Look, scheduleNext, shared, own, fixed, others, Memory, World
<1>2. PICK x : /\ pc' = [pc EXCEPT ![p] = x]
               /\ \/ pc[p] = "release" /\ x = "schedule" /\ running' = -1
                  \/ pc[p] = "look" /\ x = "schedule" /\ running = -1 /\ running' = running
                  \/ pc[p] = "look" /\ x = "read" /\ running # -1 /\ running' = running
                  \/ pc[p] = "schedule" /\ x = "idle" /\ queue = <<>> /\ running' = running
                  \/ pc[p] = "schedule" /\ x = "pop" /\ queue # <<>> /\ running' = running
  BY DEF Release, Look, scheduleNext, shared, Goto
<1>. QED
  BY <1>1, <1>2, OnlyMoved

LEMMA AfterScheduling ==
  ASSUME NEW p \in Processes
  PROVE  AfterSchedule(p) = IF Leaving(p) THEN "quit" ELSE "read"
BY DEF AfterSchedule, Leaving

LEMMA GoIdleStep ==
  ASSUME Typed, NEW p \in Processes, GoIdle(p)
  PROVE  /\ Only(p) /\ Memory /\ World
         /\ pc[p] = "idle" /\ pc'[p] = (IF Leaving(p) THEN "quit" ELSE "read")
         /\ running' = -1 /\ next_interrupt' = -1
         /\ UNCHANGED <<now, queue, state, registered, sync>>
<1>1. /\ Memory /\ World /\ running' = -1 /\ next_interrupt' = -1
      /\ UNCHANGED <<now, queue, state, registered, sync>>
  BY DEF GoIdle, own, fixed, others, Memory, World
<1>2. PICK x : x = (IF Leaving(p) THEN "quit" ELSE "read")
  OBVIOUS
<1>3. pc[p] = "idle" /\ pc' = [pc EXCEPT ![p] = x]
  BY <1>2, AfterScheduling DEF GoIdle, Goto
<1>. QED
  BY <1>1, <1>2, <1>3, OnlyMoved

LEMMA PopStep ==
  ASSUME Typed, NEW p \in Processes, Pop(p)
  PROVE  /\ Only(p) /\ Memory /\ World
         /\ pc[p] = "pop" /\ pc'[p] = (IF Leaving(p) THEN "quit" ELSE "read")
         /\ queue # <<>> /\ queue' = Tail(queue) /\ running' = Head(queue) /\ Head(queue) \in Processes
         /\ state'[Head(queue)] = "RUNNING"
         /\ \A q \in Processes : q # Head(queue) => state'[q] = state[q]
         /\ next_interrupt' = local_time[p] + getQuantum(Head(queue))
         /\ UNCHANGED <<now, registered, sync>>
<1>1. queue # <<>> /\ queue \in Seq(Processes) /\ state \in [Processes -> States]
  BY DEF Pop, Typed, Types
<1>2. PICK h \in Processes : h = Head(queue)
  BY <1>1
<1>3. /\ state' = [state EXCEPT ![h] = "RUNNING"] /\ running' = h /\ queue' = Tail(queue)
      /\ next_interrupt' = local_time[p] + getQuantum(h) /\ Memory /\ World
      /\ UNCHANGED <<now, registered, sync>>
  BY <1>2 DEF Pop, own, fixed, others, Memory, World
<1>4. PICK x : x = (IF Leaving(p) THEN "quit" ELSE "read")
  OBVIOUS
<1>5. pc[p] = "pop" /\ pc' = [pc EXCEPT ![p] = x]
  BY <1>4, AfterScheduling DEF Pop, Goto
<1>6. state'[h] = "RUNNING" /\ \A q \in Processes : q # h => state'[q] = state[q]
  BY <1>1, <1>3
<1>7. Only(p) /\ pc'[p] = x
  BY <1>3, <1>5, OnlyMoved
<1>. QED
  BY <1>1, <1>2, <1>3, <1>4, <1>5, <1>6, <1>7

LEMMA PopNothingStep ==
  ASSUME Typed, NEW p \in Processes, PopNothing(p)
  PROVE  /\ Only(p) /\ Memory /\ World
         /\ pc[p] = "pop" /\ queue = <<>> /\ pc'[p] \in {IF Leaving(p) THEN "quit" ELSE "read", "gone"}
         /\ pc'[p] # "gone" => sync' = sync
         /\ sync' = sync \/ (p = 0 /\ sync > 0 /\ sync' = sync - 1)
         /\ UNCHANGED <<now, queue, state, registered>>
<1>1. /\ Memory /\ World /\ pc[p] = "pop" /\ queue = <<>>
      /\ UNCHANGED <<now, queue, state, registered>>
  BY DEF PopNothing, own, fixed, others, Memory, World
<1>2. PICK x : x = (IF Leaving(p) THEN "quit" ELSE "read")
  OBVIOUS
<1>3. x = AfterSchedule(p) /\ x # "gone"
  BY <1>2, AfterScheduling
<1>4. \/ pc' = [pc EXCEPT ![p] = x] /\ sync' = sync
      \/ pc' = [pc EXCEPT ![p] = "gone"] /\ (sync' = sync \/ (p = 0 /\ sync > 0 /\ sync' = sync - 1))
  BY <1>3 DEF PopNothing, Undo
<1>. QED
  BY <1>1, <1>2, <1>3, <1>4, OnlyMoved

LEMMA quitStep ==
  ASSUME Typed, NEW p \in Processes, quit(p)
  PROVE  /\ Only(p) /\ Memory /\ World
         /\ pc[p] = "quit" /\ pc'[p] = "gone"
         /\ sync' = sync \/ (p = 0 /\ sync > 0 /\ sync' = sync - 1)
         /\ UNCHANGED <<now, running, next_interrupt, queue, state, registered>>
<1>1. /\ Memory /\ World
      /\ sync' = sync \/ (p = 0 /\ sync > 0 /\ sync' = sync - 1)
      /\ UNCHANGED <<now, running, next_interrupt, queue, state, registered>>
  BY DEF quit, Undo, own, fixed, others, Memory, World
<1>2. pc[p] = "quit" /\ pc' = [pc EXCEPT ![p] = "gone"]
  BY DEF quit, Goto
<1>. QED
  BY <1>1, <1>2, OnlyMoved

LEMMA StartTimerStep ==
  ASSUME Typed, NEW p \in Processes, StartTimer(p)
  PROVE  /\ Only(p) /\ Memory /\ World
         /\ pc[p] = "signal" /\ pc'[p] = "push" /\ sync' = sync + 1
         /\ UNCHANGED <<now, running, next_interrupt, queue, state, registered>>
<1>1. /\ Memory /\ World /\ sync' = sync + 1
      /\ UNCHANGED <<now, running, next_interrupt, queue, state, registered>>
  BY DEF StartTimer, own, fixed, others, Memory, World
<1>2. pc[p] = "signal" /\ pc' = [pc EXCEPT ![p] = "push"]
  BY DEF StartTimer, Goto
<1>. QED
  BY <1>1, <1>2, OnlyMoved

LEMMA LoopStep ==
  ASSUME Typed, NEW p \in Processes, EndNap(p) \/ Rest(p) \/ EndRest(p) \/ Continue(p)
  PROVE  /\ Only(p) /\ Memory /\ World
         /\ \/ pc[p] = "nap" /\ pc'[p] = "sync" /\ Between
            \/ pc[p] = "ticked" /\ pc'[p] = "rest" /\ seen[p] = "READY"
            \/ pc[p] = "rest" /\ pc'[p] = "read" /\ Between
            \/ pc[p] = "ticked" /\ pc'[p] = "read" /\ seen[p] # "READY" /\ ~ got_sigusr1[p]
         /\ UNCHANGED <<now, running, next_interrupt, queue, state, registered, sync>>
<1>1. /\ Memory /\ World
      /\ UNCHANGED <<now, running, next_interrupt, queue, state, registered, sync>>
  BY DEF EndNap, Rest, EndRest, Continue, shared, own, fixed, others, Memory, World
<1>2. PICK x : /\ pc' = [pc EXCEPT ![p] = x]
               /\ \/ pc[p] = "nap" /\ x = "sync" /\ Between
                  \/ pc[p] = "ticked" /\ x = "rest" /\ seen[p] = "READY"
                  \/ pc[p] = "rest" /\ x = "read" /\ Between
                  \/ pc[p] = "ticked" /\ x = "read" /\ seen[p] # "READY" /\ ~ got_sigusr1[p]
  BY DEF EndNap, Rest, EndRest, Continue, Goto
<1>. QED
  BY <1>1, <1>2, OnlyMoved

LEMMA ReadStateStep ==
  ASSUME Typed, NEW p \in Processes, ReadState(p)
  PROVE  /\ Only(p) /\ World
         /\ pc[p] = "read" /\ pc'[p] = "nap" /\ seen'[p] = state[p]
         /\ UNCHANGED <<now, running, next_interrupt, queue, state, registered, sync,
                        burst_idx, burst_times, inturn, local_time, got_sigusr1>>
<1>1. /\ World /\ pc[p] = "read" /\ pc' = [pc EXCEPT ![p] = "nap"]
      /\ seen' = [seen EXCEPT ![p] = state[p]]
      /\ UNCHANGED <<now, running, next_interrupt, queue, state, registered, sync,
                     burst_idx, burst_times, inturn, local_time, got_sigusr1>>
  BY DEF ReadState, Goto, shared, fixed, others, World
<1>2. pc \in [Processes -> Places] /\ seen \in [Processes -> States]
  BY DEF Typed, Types
<1>. QED
  BY <1>1, <1>2 DEF Only, Still

LEMMA PassWindowStep ==
  ASSUME Typed, NEW p \in Processes, PassWindow(p)
  PROVE  /\ Only(p) /\ World
         /\ pc[p] = "sync" /\ pc'[p] = "ticked" /\ sync = 0 /\ local_time'[p] = local_time[p] + 1
         /\ UNCHANGED <<now, running, next_interrupt, queue, state, registered, sync,
                        burst_idx, burst_times, inturn, seen, got_sigusr1>>
<1>1. /\ World /\ pc[p] = "sync" /\ pc' = [pc EXCEPT ![p] = "ticked"] /\ sync = 0
      /\ local_time' = [local_time EXCEPT ![p] = @ + 1]
      /\ UNCHANGED <<now, running, next_interrupt, queue, state, registered, sync,
                     burst_idx, burst_times, inturn, seen, got_sigusr1>>
  BY DEF PassWindow, Goto, shared, fixed, others, World
<1>2. pc \in [Processes -> Places] /\ local_time \in [Processes -> Nat]
  BY DEF Typed, Types
<1>. QED
  BY <1>1, <1>2 DEF Only, Still

LEMMA InterruptedStep ==
  ASSUME Typed, NEW p \in Processes, Interrupted(p)
  PROVE  /\ Only(p) /\ World
         /\ pc[p] = "ticked" /\ pc'[p] = "preempt" /\ seen[p] # "READY" /\ got_sigusr1[p]
         /\ ~ got_sigusr1'[p] /\ MayWork(p)
         /\ UNCHANGED <<now, running, next_interrupt, queue, state, registered, sync,
                        burst_idx, burst_times, inturn, seen, local_time>>
<1>1. /\ World /\ pc[p] = "ticked" /\ pc' = [pc EXCEPT ![p] = "preempt"] /\ seen[p] # "READY"
      /\ got_sigusr1[p] /\ got_sigusr1' = [got_sigusr1 EXCEPT ![p] = FALSE] /\ MayWork(p)
      /\ UNCHANGED <<now, running, next_interrupt, queue, state, registered, sync,
                     burst_idx, burst_times, inturn, seen, local_time>>
  BY DEF Interrupted, Goto, shared, fixed, others, World
<1>2. pc \in [Processes -> Places] /\ got_sigusr1 \in [Processes -> BOOLEAN]
  BY DEF Typed, Types
<1>. QED
  BY <1>1, <1>2 DEF Only, Still

LEMMA EndBurstStep ==
  ASSUME Typed, NEW p \in Processes, EndBurst(p)
  PROVE  /\ Only(p) /\ World
         /\ pc[p] = "ticked" /\ seen[p] # "READY" /\ MayWork(p)
         /\ ~ Leaving(p) /\ burst_idx'[p] = burst_idx[p] + 1 /\ ~ got_sigusr1'[p]
         /\ \/ /\ pc'[p] = "exit" /\ burst_idx[p] = Len(burst_times[p]) /\ Leaving(p)'
            \/ /\ burst_idx[p] # Len(burst_times[p]) /\ ~ Leaving(p)'
               /\ pc'[p] = (IF seen[p] = "RUNNING" THEN "block" ELSE "enqueue")
         /\ UNCHANGED <<now, running, next_interrupt, queue, state, registered, sync,
                        burst_times, inturn, seen, local_time>>
<1>1. /\ World /\ pc[p] = "ticked" /\ seen[p] # "READY" /\ MayWork(p)
      /\ burst_idx' = [burst_idx EXCEPT ![p] = @ + 1]
      /\ got_sigusr1' = [got_sigusr1 EXCEPT ![p] = FALSE]
      /\ UNCHANGED <<now, running, next_interrupt, queue, state, registered, sync,
                     burst_times, inturn, seen, local_time>>
  BY DEF EndBurst, Goto, shared, fixed, others, World
<1>2. PICK x : /\ pc' = [pc EXCEPT ![p] = x]
               /\ \/ x = "exit" /\ burst_idx[p] = Len(burst_times[p])
                  \/ /\ burst_idx[p] # Len(burst_times[p])
                     /\ x = (IF seen[p] = "RUNNING" THEN "block" ELSE "enqueue")
  BY DEF EndBurst, Goto
<1>3. /\ pc \in [Processes -> Places] /\ got_sigusr1 \in [Processes -> BOOLEAN]
      /\ burst_idx \in [Processes -> Nat]
  BY DEF Typed, Types
<1>4. ~ Leaving(p) /\ burst_idx[p] \in 1 .. Len(burst_times[p]) + 1
  BY <1>1 DEF Typed, Bursts
<1>5. PICK l : l = Len(burst_times[p])
  OBVIOUS
<1>6. l \in Nat
  <2>1. PICK s \in Seq(Nat \ {0}) : s = burst_times[p]
    BY DEF Typed, Types
  <2>. QED
    BY <1>5, <2>1
<1>7. burst_idx'[p] = burst_idx[p] + 1 /\ ~ got_sigusr1'[p] /\ pc'[p] = x
  BY <1>1, <1>2, <1>3
<1>8. Leaving(p)' <=> burst_idx[p] + 1 > l
  BY <1>1, <1>5, <1>7 DEF Leaving
<1>9. Leaving(p)' <=> burst_idx[p] = l
  BY <1>3, <1>4, <1>5, <1>6, <1>8 DEF Leaving
<1>10. Only(p)
  BY <1>1, <1>2, <1>3 DEF Only, Still
<1>. QED
  BY <1>1, <1>2, <1>4, <1>5, <1>7, <1>9, <1>10

(* The timer, but for the signal. *)
LEMMA TimerStep ==
  ASSUME Typed, StartClock \/ Tick \/ OpenWindow \/ CloseWindow
  PROVE  /\ UNCHANGED <<running, next_interrupt, queue, state, registered, pc, lpc, ltime, forked>> /\ Memory
         /\ \/ tpc = "start" /\ tpc' = "sleep" /\ sync > 0 /\ sync' = sync /\ now' = 0
            \/ /\ tpc = "sleep" /\ tpc' = "timeout" /\ sync' = sync /\ now' = now + 1 /\ now < MaxTime
               /\ \A p \in Processes : pc[p] \in {"unborn", "sync", "gone"}
               /\ lpc \in {"sync", "wait", "end"}
            \/ tpc = "open" /\ tpc' = "window" /\ sync > 0 /\ sync' = sync - 1 /\ now' = now
            \/ /\ tpc = "window" /\ tpc' = "sleep" /\ sync' = sync + 1 /\ now' = now
               /\ \A p \in Processes : pc[p] \in {"unborn", "nap", "rest", "gone"}
               /\ lpc \in {"nap", "wait", "end"}
<1>1. /\ UNCHANGED <<running, next_interrupt, queue, state, registered, pc, lpc, ltime, forked>> /\ Memory
  BY DEF StartClock, Tick, OpenWindow, CloseWindow, NobodyTouched, fixed, Memory
<1>2. Asleep = Processes => \A p \in Processes : pc[p] \in {"unborn", "nap", "rest", "gone"}
  BY DEF Asleep
<1>. QED
  BY <1>1, <1>2 DEF StartClock, Tick, OpenWindow, CloseWindow

LEMMA handleTimeoutStep ==
  ASSUME Typed, handleTimeout
  PROVE  /\ tpc = "timeout" /\ tpc' = "open"
         /\ UNCHANGED <<now, sync, running, next_interrupt, queue, state, registered, seen, burst_idx,
                        burst_times, inturn, lpc, ltime, forked>>
         /\ \/ UNCHANGED <<pc, local_time, got_sigusr1>>
               /\ (running = -1 \/ next_interrupt = -1 \/ now # next_interrupt)
            \/ /\ running \in Processes /\ now = next_interrupt /\ Only(running) /\ got_sigusr1'[running]
               /\ \/ pc[running] # "sync" /\ UNCHANGED <<pc, local_time>>
                  \/ /\ pc[running] = "sync" /\ pc'[running] = "ticked"
                     /\ local_time'[running] = local_time[running] + 1
<1>1. /\ tpc = "timeout" /\ tpc' = "open"
      /\ UNCHANGED <<now, sync, running, next_interrupt, queue, state, registered, seen, burst_idx,
                     burst_times, inturn, lpc, ltime, forked>>
  BY DEF handleTimeout, NobodyTouched, fixed
<1>2. CASE running = -1 \/ next_interrupt = -1 \/ now # next_interrupt
  BY <1>1, <1>2 DEF handleTimeout
<1>3. CASE ~ (running = -1 \/ next_interrupt = -1 \/ now # next_interrupt)
  <2>1. PICK r \in Processes : r = running
    BY <1>3 DEF Typed, Types
  <2>2. /\ pc \in [Processes -> Places] /\ got_sigusr1 \in [Processes -> BOOLEAN]
        /\ local_time \in [Processes -> Nat]
    BY DEF Typed, Types
  <2>3. got_sigusr1' = [got_sigusr1 EXCEPT ![r] = TRUE]
    BY <1>3, <2>1 DEF handleTimeout
  <2>4. \/ pc[r] # "sync" /\ UNCHANGED <<pc, local_time>>
        \/ pc[r] = "sync" /\ pc' = [pc EXCEPT ![r] = "ticked"] /\ local_time' = [local_time EXCEPT ![r] = @ + 1]
    BY <1>3, <2>1 DEF handleTimeout
  <2>5. \A q \in Processes : q # r => Still(q)
    BY <1>1, <2>2, <2>3, <2>4 DEF Still
  <2>6. /\ got_sigusr1'[r]
        /\ \/ pc[r] # "sync" /\ UNCHANGED <<pc, local_time>>
           \/ pc[r] = "sync" /\ pc'[r] = "ticked" /\ local_time'[r] = local_time[r] + 1
    BY <2>2, <2>3, <2>4
  <2>. QED
    BY <1>1, <1>3, <2>1, <2>5, <2>6 DEF Only
<1>. QED
  BY <1>2, <1>3

LEMMA forkProcessStep ==
  ASSUME Typed, forkProcess
  PROVE  /\ forked \in Processes /\ Only(forked) /\ Memory /\ forked' = forked + 1
         /\ pc[forked] = "unborn" /\ pc'[forked] = (IF forked = 0 THEN "signal" ELSE "push")
         /\ lpc = "loop" /\ ltime = Arrival[forked]
         /\ UNCHANGED <<now, running, next_interrupt, queue, state, registered, sync, tpc, lpc, ltime>>
<1>1. forked \in Processes /\ pc \in [Processes -> Places]
  BY Constants DEF forkProcess, Typed, Types
<1>2. PICK x : x = (IF forked = 0 THEN "signal" ELSE "push")
  OBVIOUS
<1>3. /\ pc' = [pc EXCEPT ![forked] = x] /\ Memory /\ forked' = forked + 1 /\ lpc = "loop" /\ ltime = Arrival[forked]
      /\ UNCHANGED <<now, running, next_interrupt, queue, state, registered, sync, tpc, lpc, ltime>>
  BY <1>2 DEF forkProcess, shared, own, fixed, Memory
<1>4. pc[forked] = "unborn"
  <2>1. forked >= forked
    BY <1>1, Constants
  <2>. QED
    BY <1>1, <2>1 DEF Typed, Bursts
<1>5. Only(forked) /\ pc'[forked] = x
  BY <1>1, <1>3, OnlyMoved
<1>. QED
  BY <1>1, <1>2, <1>3, <1>4, <1>5

LEMMA LauncherStep ==
  ASSUME Typed, NextTick \/ LauncherEndNap \/ LauncherPassWindow \/ LauncherQuit
  PROVE  /\ UNCHANGED <<now, running, next_interrupt, queue, state, registered, sync, pc, forked>> /\ Memory
         /\ \/ lpc = "loop" /\ lpc' = "wait" /\ forked = N /\ UNCHANGED <<ltime, tpc>>
            \/ lpc = "loop" /\ lpc' = "nap" /\ forked # N /\ ltime # Arrival[forked] /\ UNCHANGED <<ltime, tpc>>
            \/ lpc = "nap" /\ lpc' = "sync" /\ Between /\ UNCHANGED <<ltime, tpc>>
            \/ lpc = "sync" /\ lpc' = "loop" /\ sync = 0 /\ ltime' = ltime + 1 /\ UNCHANGED tpc
            \/ /\ lpc = "wait" /\ lpc' = "end" /\ tpc' = "end" /\ UNCHANGED ltime
               /\ \A p \in Processes : pc[p] = "gone"
BY DEF NextTick, LauncherEndNap, LauncherPassWindow, LauncherQuit, shared, own, fixed, Memory
-----------------------------------------------------------------------------
(* The queue.  Who is in it is ready, or about to be written ready, and    *)
(* not on a way that leads into it.                                        *)
OutOfQueue == {"unborn", "signal", "push", "enqueue", "preempt", "requeue", "block", "exit",
               "release", "quit", "gone"}
Waits(p) ==
  /\ p \in Who(queue) =>
       /\ state[p] = "READY" \/ pc[p] = "ready"
       /\ pc[p] \notin OutOfQueue
       /\ pc[p] \in {"nap", "sync", "ticked"} => seen[p] = "READY"
       /\ ~ Leaving(p)
  /\ pc[p] \in {"unborn", "signal", "push", "requeue"} => state[p] = "READY"
Waiting == NoneTwice(queue) /\ \A p \in Processes : Waits(p)

LEMMA Unhurt ==
  ASSUME NEW p \in Processes, NEW q \in Processes, q # p, Only(p), Waits(q), state'[q] = state[q],
         q \in Who(queue)' => q \in Who(queue)
  PROVE  Waits(q)'
<1>1. /\ pc'[q] = pc[q] /\ seen'[q] = seen[q] /\ burst_idx'[q] = burst_idx[q] /\ burst_times' = burst_times
  BY DEF Only, Still
<1>2. Leaving(q)' <=> Leaving(q)
  BY <1>1 DEF Leaving
<1>. QED
  BY <1>1, <1>2 DEF Waits

(* A step of one process that leaves the queue alone. *)
LEMMA Elsewhere ==
  ASSUME Waiting, NEW p \in Processes, Only(p), queue' = queue,
         \A q \in Processes : q # p => state'[q] = state[q], Waits(p)'
  PROVE  Waiting'
<1>1. NoneTwice(queue)' /\ Who(queue)' = Who(queue)
  BY Zenon DEF Waiting
<1>2. ASSUME NEW q \in Processes PROVE Waits(q)'
  BY <1>1, Unhurt DEF Waiting
<1>. QED
  BY <1>1, <1>2 DEF Waiting

LEMMA InQueue ==
  ASSUME Typed
  PROVE  queue \in Seq(Processes) /\ Who(queue) \subseteq Processes
<1>1. queue \in Seq(Processes)
  BY DEF Typed, Types
<1>. QED
  BY <1>1 DEF Who

LEMMA WaitingInit == Init => Waiting
<1> SUFFICES ASSUME Init PROVE Waiting
  OBVIOUS
<1>1. NoneTwice(queue) /\ Who(queue) = {}
  BY DEF Init, NoneTwice, Who
<1>2. \A p \in Processes : state[p] = "READY"
  BY DEF Init
<1>. QED
  BY <1>1, <1>2 DEF Waiting, Waits

LEMMA PushWaits == ASSUME Typed, Waiting, NEW p \in Processes, Push(p) PROVE Waiting'
<1>1. /\ Only(p) /\ Memory /\ queue' = queuePush(queue, p) /\ state' = state
      /\ \/ pc[p] = "push" /\ pc'[p] = "pcb"
         \/ pc[p] = "enqueue" /\ pc'[p] = "ready"
         \/ pc[p] = "requeue" /\ pc'[p] = "schedule"
  BY PushStep
<1>2. p \notin Who(queue) /\ ~ Leaving(p)
  BY <1>1 DEF Waiting, Waits, OutOfQueue, Typed, Bursts
<1>3. NoneTwice(queue') /\ Who(queue') \subseteq Who(queue) \cup {p}
  <2>1. CASE queue' = queue
    BY <2>1 DEF Waiting
  <2>2. CASE queue' = Append(queue, p)
    BY <1>2, <2>2, Pushed, InQueue DEF Waiting
  <2>. QED
    BY <1>1, <2>1, <2>2 DEF queuePush
<1>4. Who(queue)' = Who(queue') /\ NoneTwice(queue)' = NoneTwice(queue')
  BY DEF Who, NoneTwice
<1>5. Leaving(p)' <=> Leaving(p)
  BY <1>1 DEF Leaving, Memory
<1>6. Waits(p)'
  BY <1>1, <1>2, <1>5 DEF Waiting, Waits, OutOfQueue
<1>7. ASSUME NEW q \in Processes, q # p PROVE Waits(q)'
  BY <1>1, <1>3, <1>4, <1>7, Unhurt DEF Waiting
<1>. QED
  BY <1>3, <1>4, <1>6, <1>7 DEF Waiting

LEMMA PopWaits == ASSUME Typed, Waiting, NEW p \in Processes, Pop(p) PROVE Waiting'
<1>1. PICK h \in Processes : h = Head(queue)
  BY PopStep
<1>2. /\ Only(p) /\ Memory /\ queue # <<>> /\ queue' = Tail(queue) /\ state'[h] = "RUNNING"
      /\ \A q \in Processes : q # h => state'[q] = state[q]
      /\ pc[p] = "pop" /\ pc'[p] = (IF Leaving(p) THEN "quit" ELSE "read")
  BY <1>1, PopStep
<1>3. NoneTwice(queue') /\ Who(queue') = Who(queue) \ {h} /\ h \in Who(queue)
  BY <1>1, <1>2, Popped, InQueue DEF Waiting
<1>4. Who(queue)' = Who(queue') /\ NoneTwice(queue)' = NoneTwice(queue')
  BY DEF Who, NoneTwice
<1>5. \A q \in Processes : Leaving(q)' <=> Leaving(q)
  BY <1>2 DEF Leaving, Memory
<1>6. pc[h] \notin OutOfQueue
  BY <1>3 DEF Waiting, Waits
<1>7. ASSUME NEW q \in Processes PROVE Waits(q)'
  <2>1. CASE q = p
    BY <1>2, <1>3, <1>4, <1>5, <2>1 DEF Waiting, Waits, OutOfQueue
  <2>2. CASE q # p /\ q # h
    BY <1>2, <1>3, <1>4, <2>2, Unhurt DEF Waiting
  <2>3. CASE q # p /\ q = h
    <3>1. h \notin Who(queue)' /\ pc'[h] = pc[h]
      BY <1>2, <1>3, <1>4, <2>3 DEF Only, Still
    <3>. QED
      BY <1>6, <2>3, <3>1 DEF Waits, OutOfQueue
  <2>. QED
    BY <2>1, <2>2, <2>3
<1>. QED
  BY <1>3, <1>4, <1>7 DEF Waiting

LEMMA SetStateWaits == ASSUME Typed, Waiting, NEW p \in Processes, SetState(p) PROVE Waiting'
<1>1. /\ Only(p) /\ Memory /\ queue' = queue
      /\ \/ pc[p] = "pcb" /\ pc'[p] = "look" /\ state'[p] = "READY"
         \/ pc[p] = "ready" /\ pc'[p] = "look" /\ state'[p] = "READY"
         \/ pc[p] = "preempt" /\ pc'[p] = "requeue" /\ state'[p] = "READY"
         \/ pc[p] = "block" /\ pc'[p] = "release" /\ state'[p] = "IO"
         \/ pc[p] = "exit" /\ pc'[p] = "release" /\ state'[p] = "EXITED"
      /\ \A q \in Processes : q # p => state'[q] = state[q]
  BY SetStateStep
<1>2. Who(queue)' = Who(queue) /\ (Leaving(p)' <=> Leaving(p))
  BY <1>1 DEF Who, Leaving, Memory
<1>3. Waits(p)'
  BY <1>1, <1>2 DEF Waiting, Waits, OutOfQueue
<1>. QED
  BY <1>1, <1>3, Elsewhere

LEMMA ScheduleWaits ==
  ASSUME Typed, Waiting, NEW p \in Processes,
         Release(p) \/ Look(p) \/ scheduleNext(p) \/ GoIdle(p) \/ PopNothing(p) \/ quit(p) \/ StartTimer(p)
  PROVE  Waiting'
<1>1. /\ Only(p) /\ Memory /\ queue' = queue /\ state' = state
  BY LookStep, GoIdleStep, PopNothingStep, quitStep, StartTimerStep
<1>2. Who(queue)' = Who(queue) /\ (Leaving(p)' <=> Leaving(p))
  BY <1>1 DEF Who, Leaving, Memory
<1>3. Waits(p) /\ (pc[p] \in {"quit"} => Leaving(p))
  BY DEF Waiting, Typed, Bursts
<1>4. CASE Release(p) \/ Look(p) \/ scheduleNext(p)
  <2>1. \/ pc[p] = "release" /\ pc'[p] = "schedule"
        \/ pc[p] \in {"look", "schedule"} /\ pc'[p] \in {"schedule", "read", "idle", "pop"}
    BY <1>4, LookStep
  <2>2. Waits(p)'
    BY <1>1, <1>2, <1>3, <2>1 DEF Waits, OutOfQueue
  <2>. QED
    BY <1>1, <2>2, Elsewhere
<1>5. CASE GoIdle(p) \/ PopNothing(p)
  <2>1. /\ pc[p] \in {"idle", "pop"}
        /\ \/ pc'[p] = "quit" /\ Leaving(p)
           \/ pc'[p] = "read"
           \/ pc'[p] = "gone" /\ queue = <<>>
    BY <1>5, GoIdleStep, PopNothingStep
  <2>2. queue = <<>> => p \notin Who(queue)
    BY DEF Who
  <2>3. Waits(p)'
    BY <1>1, <1>2, <1>3, <2>1, <2>2 DEF Waits, OutOfQueue
  <2>. QED
    BY <1>1, <2>3, Elsewhere
<1>6. CASE quit(p) \/ StartTimer(p)
  <2>1. (pc[p] = "quit" /\ pc'[p] = "gone") \/ (pc[p] = "signal" /\ pc'[p] = "push")
    BY <1>6, quitStep, StartTimerStep
  <2>2. Waits(p)'
    BY <1>1, <1>2, <1>3, <2>1 DEF Waits, OutOfQueue
  <2>. QED
    BY <1>1, <2>2, Elsewhere
<1>. QED
  BY <1>4, <1>5, <1>6

LEMMA LoopWaits ==
  ASSUME Typed, Waiting, NEW p \in Processes,
         \/ ReadState(p) \/ EndNap(p) \/ PassWindow(p) \/ Rest(p) \/ EndRest(p)
         \/ Interrupted(p) \/ Continue(p) \/ EndBurst(p)
  PROVE  Waiting'
<1>1. Only(p) /\ queue' = queue /\ state' = state
  BY LoopStep, ReadStateStep, PassWindowStep, InterruptedStep, EndBurstStep
<1>2. Who(queue)' = Who(queue)
  BY <1>1 DEF Who
<1>3. CASE EndBurst(p) \/ Interrupted(p)
  <2>1. pc[p] = "ticked" /\ seen[p] # "READY" /\ pc'[p] \in {"exit", "block", "enqueue", "preempt"}
    BY <1>3, EndBurstStep, InterruptedStep
  <2>2. Waits(p)'
    BY <1>2, <2>1 DEF Waiting, Waits
  <2>. QED
    BY <1>1, <2>2, Elsewhere
<1>4. CASE ReadState(p)
  <2>1. pc[p] = "read" /\ pc'[p] = "nap" /\ seen'[p] = state[p] /\ UNCHANGED <<burst_idx, burst_times>>
    BY <1>4, ReadStateStep
  <2>2. Waits(p)'
    BY <1>1, <1>2, <2>1 DEF Waiting, Waits, OutOfQueue, Leaving
  <2>. QED
    BY <1>1, <2>2, Elsewhere
<1>5. CASE EndNap(p) \/ PassWindow(p) \/ Rest(p) \/ EndRest(p) \/ Continue(p)
  <2>1. /\ \/ pc[p] = "nap" /\ pc'[p] = "sync"
           \/ pc[p] = "sync" /\ pc'[p] = "ticked"
           \/ pc[p] \in {"ticked", "rest"} /\ pc'[p] \in {"rest", "read"}
        /\ UNCHANGED <<seen, burst_idx, burst_times>>
    BY <1>5, LoopStep, PassWindowStep DEF Memory
  <2>2. Waits(p)'
    BY <1>1, <1>2, <2>1 DEF Waiting, Waits, OutOfQueue, Leaving
  <2>. QED
    BY <1>1, <2>2, Elsewhere
<1>. QED
  BY <1>3, <1>4, <1>5

LEMMA WaitingNext == Typed /\ Waiting /\ [Next]_vars => Waiting'
<1> SUFFICES ASSUME Typed, Waiting, [Next]_vars PROVE Waiting'
  OBVIOUS
<1>1. ASSUME UNCHANGED <<queue, pc, seen, state, burst_idx, burst_times>> PROVE Waiting'
  BY <1>1 DEF Waiting, Waits, NoneTwice, Who, Leaving
<1>2. CASE UNCHANGED vars
  BY <1>1, <1>2 DEF vars, shared, own, fixed
<1>3. CASE \E p \in Processes : Process(p)
  BY <1>3, PushWaits, PopWaits, SetStateWaits, ScheduleWaits, LoopWaits DEF Process
<1>4. CASE StartClock \/ Tick \/ OpenWindow \/ CloseWindow
  BY <1>1, <1>4, TimerStep DEF Memory
<1>5. CASE handleTimeout
  <2>1. UNCHANGED <<queue, seen, state, burst_idx, burst_times>>
    BY <1>5, handleTimeoutStep
  <2>2. CASE pc' = pc
    BY <1>1, <2>1, <2>2
  <2>3. CASE pc' # pc
    <3>0. PICK r \in Processes : r = running
      BY <1>5, <2>3, handleTimeoutStep
    <3>1. Only(r) /\ pc[r] = "sync" /\ pc'[r] = "ticked"
      BY <1>5, <2>3, <3>0, handleTimeoutStep
    <3>2. Waits(r)'
      BY <2>1, <3>1 DEF Waiting, Waits, OutOfQueue, Leaving, Who
    <3>. QED
      BY <2>1, <3>1, <3>2, Elsewhere
  <2>. QED
    BY <2>2, <2>3
<1>6. CASE forkProcess
  <2>0. PICK r \in Processes : r = forked
    BY <1>6, forkProcessStep
  <2>1. /\ Only(r) /\ pc[r] = "unborn" /\ pc'[r] \in {"signal", "push"}
        /\ UNCHANGED <<queue, state>> /\ Memory
    BY <1>6, <2>0, forkProcessStep
  <2>2. Waits(r)'
    BY <2>1 DEF Waiting, Waits, OutOfQueue, Leaving, Who, Memory
  <2>. QED
    BY <2>1, <2>2, Elsewhere
<1>7. CASE NextTick \/ LauncherEndNap \/ LauncherPassWindow \/ LauncherQuit
  BY <1>1, <1>7, LauncherStep DEF Memory
<1>. QED
  BY <1>2, <1>3, <1>4, <1>5, <1>6, <1>7 DEF Next, Timer, Launcher

(* A queue that holds nobody twice is as long as its members are many. *)
LEMMA AsManyAsQueued ==
  ASSUME Typed, Waiting
  PROVE  /\ IsFiniteSet(Who(queue)) /\ Cardinality(Who(queue)) = Len(queue)
         /\ Len(queue) \in Nat /\ Len(queue) <= N
         /\ \A p \in Processes : p \notin Who(queue) => Len(queue) < S
<1>1. PICK l : l = Len(queue)
  OBVIOUS
<1>2. l \in Nat /\ queue \in [1 .. l -> Processes]
  BY <1>1, InQueue, LenProperties
<1>3. IsFiniteSet(Processes) /\ N \in Nat /\ N <= S /\ N = Cardinality(Processes) /\ S \in Nat
  BY Constants DEF N
<1>4. IsFiniteSet(Who(queue)) /\ Cardinality(Who(queue)) <= N
  BY <1>3, InQueue, FS_Subset
<1>5. queue \in [1 .. l -> Who(queue)] /\ \A h \in Who(queue) : \E i \in 1 .. l : queue[i] = h
  BY <1>1, <1>2 DEF Who
<1>6. queue \in Injection(1 .. l, Who(queue)) /\ queue \in Surjection(1 .. l, Who(queue))
  BY <1>1, <1>5 DEF Waiting, NoneTwice, Injection, Surjection, IsInjective
<1>7. Cardinality(1 .. l) = Cardinality(Who(queue))
  BY <1>4, <1>6, FS_Injection
<1>8. Cardinality(1 .. l) = l
  BY <1>2, FS_Interval
<1>9. ASSUME NEW p \in Processes, p \notin Who(queue) PROVE l < S
  <2>1. IsFiniteSet(Processes \ {p}) /\ Cardinality(Processes \ {p}) = N - 1
    BY <1>3, FS_RemoveElement
  <2>2. Who(queue) \in SUBSET (Processes \ {p})
    BY <1>9, InQueue
  <2>3. Cardinality(Who(queue)) <= N - 1
    BY <2>1, <2>2, FS_Subset
  <2>. QED
    BY <1>2, <1>3, <1>7, <1>8, <2>3
<1>. QED
  BY <1>1, <1>2, <1>3, <1>4, <1>7, <1>8, <1>9

(* Nobody is in the queue twice, however the work of the processes in a    *)
(* tick is interleaved.                                                    *)
THEOREM NobodyIsQueuedTwice == Spec => []QueuedOnce
<1>1. Typed /\ Waiting => QueuedOnce
  BY DEF Waiting, NoneTwice, QueuedOnce
<1>. QED
  BY <1>1, TypedInit, TypedNext, WaitingInit, WaitingNext, PTL DEF Spec

(* And so there is a place for each that is pushed: queuePush never finds  *)
(* the queue full, which it would not report.                              *)
THEOREM TheQueueHasRoom == Spec => [](\A p \in Processes : pc[p] \in DOMAIN AfterPush => Len(queue) < S)
<1>1. Typed /\ Waiting => \A p \in Processes : pc[p] \in DOMAIN AfterPush => Len(queue) < S
  <2> SUFFICES ASSUME Typed, Waiting, NEW p \in Processes, pc[p] \in DOMAIN AfterPush PROVE Len(queue) < S
    OBVIOUS
  <2>1. p \notin Who(queue)
    BY Tables DEF Waiting, Waits, OutOfQueue
  <2>. QED
    BY <2>1, AsManyAsQueued
<1>. QED
  BY <1>1, TypedInit, TypedNext, WaitingInit, WaitingNext, PTL DEF Spec
-----------------------------------------------------------------------------
(* Work in turn.  If the work of one process in a tick does not overlap    *)
(* with that of another, the place of each process says what its state,    *)
(* the queue and the word for the running process are.                     *)
WorkPlaces == {"pcb", "look", "schedule", "pop", "idle", "release", "enqueue",
               "ready", "preempt", "requeue", "block", "exit", "quit"}
Choosing   == {"schedule", "pop", "idle"}
Looking    == {"pcb", "ready", "look", "schedule", "pop"}

(* In the middle of its work. *)
Inside(p) ==
  /\ pc[p] \in {"pcb", "look"} => p \in Who(queue) /\ state[p] = "READY"
  /\ pc[p] = "ready" => p \in Who(queue) /\ state[p] = "IO"
  /\ pc[p] = "enqueue" => state[p] = "IO"
  /\ pc[p] \in {"preempt", "block", "exit"} => state[p] = "RUNNING"
  /\ pc[p] = "requeue" => running = p
  /\ pc[p] = "release" => state[p] \in {"IO", "EXITED"} /\ running = p
  /\ pc[p] \in Choosing =>
       /\ \A q \in Processes : state[q] # "RUNNING"
       /\ running \in {-1, p}
       /\ pc[p] = "pop" => queue # <<>>
       /\ pc[p] = "idle" => queue = <<>> /\ running = -1

(* In the loop: what it has seen is still so, but that it was given the CPU. *)
InLoop(p) ==
  /\ pc[p] \in {"nap", "sync", "ticked", "rest"} =>
       /\ seen[p] \in {"READY", "RUNNING", "IO"}
       /\ seen[p] \in {"RUNNING", "IO"} => state[p] = seen[p]
       /\ seen[p] = "READY" => state[p] \in {"READY", "RUNNING"}
  /\ pc[p] = "rest" => seen[p] = "READY"

Place(p) == /\ Inside(p) /\ InLoop(p)
            /\ p \in registered <=> pc[p] \notin {"unborn", "signal", "push", "pcb"}

(* The CPU burst is the odd one. *)
OnCpuBurst(p) == pc[p] \in {"enqueue", "ready"} \/ (pc[p] # "block" /\ state[p] # "IO")

Whose(p) ==
  /\ state[p] = "RUNNING" => running = p
  /\ running = p => \/ state[p] = "RUNNING"
                    \/ pc[p] \in {"requeue", "release"}
                    \/ pc[p] \in {"schedule", "pop"} /\ p \in Who(queue)
  /\ p \in registered /\ state[p] = "READY" => p \in Who(queue) \/ pc[p] = "requeue"
  /\ state[p] = "EXITED" <=> Leaving(p) /\ pc[p] # "exit"
  /\ pc[p] \in {"quit", "gone"} => state[p] = "EXITED"
  /\ ~ Leaving(p) => (burst_idx[p] % 2 = 1 <=> OnCpuBurst(p))

Alone         == \A p, q \in Processes : pc[p] \in WorkPlaces /\ pc[q] \in WorkPlaces => p = q
SomebodyLooks == running = -1 /\ queue # <<>> => \E p \in Processes : pc[p] \in Looking

Turned == /\ Alone /\ SomebodyLooks
          /\ \A p \in Processes : Place(p)
          /\ \A p \in Processes : Whose(p)
InTurn == inturn => Turned

LEMMA Nobody ==
  ASSUME Turned, NEW p \in Processes, pc[p] \in Choosing
  PROVE  \A q \in Processes : state[q] # "RUNNING"
BY DEF Turned, Place, Inside

LEMMA InTurnInit == Init => InTurn
<1> SUFFICES ASSUME Init PROVE Turned
  BY DEF InTurn
<1>1. \A p \in Processes : pc[p] = "unborn" /\ state[p] = "READY" /\ burst_idx[p] = 1 /\ registered = {}
  BY DEF Init
<1>2. \A p \in Processes : ~ Leaving(p) /\ burst_idx[p] % 2 = 1
  <2>1. 1 % 2 = 1
    OBVIOUS
  <2>2. \A p \in Processes : ~ Leaving(p)
    BY <1>1, TypedInit DEF Typed, Bursts
  <2>. QED
    BY <1>1, <2>1, <2>2
<1>3. running = -1 /\ queue = <<>> /\ -1 \notin Processes
  BY Constants DEF Init
<1>4. Alone /\ SomebodyLooks
  BY <1>1, <1>3 DEF Alone, SomebodyLooks, WorkPlaces
<1>5. \A p \in Processes : Place(p)
  BY <1>1 DEF Place, Inside, InLoop, Choosing
<1>6. \A p \in Processes : Whose(p)
  BY <1>1, <1>2, <1>3 DEF Whose, OnCpuBurst
<1>. QED
  BY <1>4, <1>5, <1>6 DEF Turned

LEMMA AloneStays ==
  ASSUME Alone, NEW p \in Processes, Only(p),
         \/ pc'[p] \notin WorkPlaces
         \/ pc[p] \in WorkPlaces
         \/ \A q \in Processes : q # p => pc[q] \notin WorkPlaces
  PROVE  Alone'
<1>1. \A q \in Processes : q # p => pc'[q] = pc[q]
  BY DEF Only, Still
<1>. QED
  BY <1>1 DEF Alone

LEMMA WorksAlone ==
  ASSUME inturn, NEW p \in Processes, MayWork(p)
  PROVE  \A q \in Processes : q # p => pc[q] \notin WorkPlaces
BY DEF MayWork, Working, WorkPlaces

LEMMA MyTurn ==
  ASSUME Alone, NEW p \in Processes, pc[p] \in WorkPlaces
  PROVE  \A q \in Processes : q # p => pc[q] \notin WorkPlaces
BY DEF Alone

(* A step of one process that leaves the shared memory alone. *)
LEMMA WorldKept ==
  ASSUME Typed, Turned, NEW p \in Processes, Only(p), Alone', Place(p)', Whose(p)',
         UNCHANGED <<queue, state, registered, running>>,
         running = -1 /\ queue # <<>> /\ pc[p] \in Looking => pc'[p] \in Looking
  PROVE  Turned'
<1>0. Who(queue)' = Who(queue)
  BY DEF Who
<1>1. ASSUME NEW q \in Processes, q # p
      PROVE  /\ pc'[q] = pc[q] /\ seen'[q] = seen[q] /\ burst_idx'[q] = burst_idx[q]
             /\ (Leaving(q)' <=> Leaving(q))
  BY <1>1 DEF Only, Still, Leaving
<1>2. ASSUME NEW q \in Processes PROVE Place(q)'
  <2>1. CASE q = p
    BY <2>1
  <2>2. CASE q # p
    <3>1. Inside(q)'
      BY <1>0, <1>1, <2>2 DEF Turned, Place, Inside
    <3>2. InLoop(q)' /\ (q \in registered' <=> pc'[q] \notin {"unborn", "signal", "push", "pcb"})
      BY <1>1, <2>2 DEF Turned, Place, InLoop
    <3>. QED
      BY <3>1, <3>2 DEF Place
  <2>. QED
    BY <2>1, <2>2
<1>3. ASSUME NEW q \in Processes PROVE Whose(q)'
  <2>1. CASE q = p
    BY <2>1
  <2>2. CASE q # p
    <3>1. OnCpuBurst(q)' <=> OnCpuBurst(q)
      BY <1>1, <2>2 DEF OnCpuBurst
    <3>. QED
      BY <1>0, <1>1, <2>2, <3>1 DEF Turned, Whose
  <2>. QED
    BY <2>1, <2>2
<1>4. SomebodyLooks'
  <2> SUFFICES ASSUME running = -1, queue # <<>> PROVE \E q \in Processes : pc'[q] \in Looking
    BY DEF SomebodyLooks
  <2>1. PICK q \in Processes : pc[q] \in Looking
    BY DEF Turned, SomebodyLooks
  <2>. QED
    BY <1>1, <2>1
<1>. QED
  BY <1>2, <1>3, <1>4 DEF Turned

(* A step of one process that changes it, while nobody else is at work. *)
LEMMA OthersKept ==
  ASSUME Typed, Turned, NEW p \in Processes, Only(p),
         NEW q \in Processes, q # p, pc[q] \notin WorkPlaces,
         q \in registered' <=> q \in registered,
         \/ state'[q] = state[q]
         \/ state[q] = "READY" /\ state'[q] = "RUNNING" /\ running' = q,
         running' = q => state'[q] = "RUNNING",
         state'[q] = "RUNNING" => running' = q,
         q \in Who(queue) /\ state'[q] = state[q] => q \in Who(queue)'
  PROVE  Place(q)' /\ Whose(q)'
<1>1. /\ pc'[q] = pc[q] /\ seen'[q] = seen[q] /\ burst_idx'[q] = burst_idx[q] /\ (Leaving(q)' <=> Leaving(q))
  BY DEF Only, Still, Leaving
<1>2. Inside(q)'
  BY <1>1 DEF Inside, WorkPlaces, Choosing
<1>3. InLoop(q)' /\ (q \in registered' <=> pc'[q] \notin {"unborn", "signal", "push", "pcb"})
  BY <1>1 DEF Turned, Place, InLoop
<1>4. OnCpuBurst(q)' <=> OnCpuBurst(q)
  BY <1>1 DEF OnCpuBurst, WorkPlaces
<1>5. Whose(q)'
  <2>1. Whose(q) /\ pc[q] # "requeue" /\ pc[q] # "exit"
    BY DEF Turned, WorkPlaces
  <2>. QED
    BY <1>1, <1>4, <2>1 DEF Whose
<1>. QED
  BY <1>2, <1>3, <1>5 DEF Place

LEMMA PushInTurn == ASSUME Typed, Waiting, Turned, inturn, NEW p \in Processes, Push(p) PROVE Turned'
<1>1. /\ Only(p) /\ Memory /\ queue' = queuePush(queue, p)
      /\ \/ pc[p] = "push" /\ pc'[p] = "pcb" /\ MayWork(p)
         \/ pc[p] = "enqueue" /\ pc'[p] = "ready"
         \/ pc[p] = "requeue" /\ pc'[p] = "schedule"
      /\ UNCHANGED <<running, state, registered>>
  BY PushStep
<1>2. \A q \in Processes : q # p => pc[q] \notin WorkPlaces
  BY <1>1, WorksAlone, MyTurn DEF Turned, WorkPlaces
<1>3. Alone'
  BY <1>1, <1>2, AloneStays DEF Turned
<1>4. p \notin Who(queue) /\ ~ Leaving(p) /\ ~ Leaving(p)'
  BY <1>1 DEF Waiting, Waits, OutOfQueue, Typed, Bursts, Leaving, Memory
<1>5. Who(queue)' = Who(queue) \cup {p}
  <2>1. queue' = Append(queue, p)
    BY <1>1, <1>4, AsManyAsQueued DEF queuePush
  <2>2. Who(queue') = Who(queue) \cup {p}
    BY <1>4, <2>1, Pushed, InQueue DEF Waiting
  <2>. QED
    BY <2>2 DEF Who
<1>6. ASSUME NEW q \in Processes, q # p PROVE Place(q)' /\ Whose(q)'
  <2>1. (running = q => state[q] = "RUNNING") /\ (state[q] = "RUNNING" => running = q)
    BY <1>2, <1>6 DEF Turned, Whose, WorkPlaces
  <2>. QED
    BY <1>1, <1>2, <1>5, <1>6, <2>1, OthersKept
<1>7. Waits(p) /\ Place(p) /\ Whose(p)
  BY DEF Waiting, Turned
<1>8. pc[p] = "requeue" => \A q \in Processes : state[q] # "RUNNING"
  <2> SUFFICES ASSUME pc[p] = "requeue", NEW q \in Processes PROVE state[q] # "RUNNING"
    OBVIOUS
  <2>1. running = p /\ state[p] = "READY"
    BY <1>7 DEF Waits, Place, Inside
  <2>. QED
    BY <2>1 DEF Turned, Whose
<1>9. Place(p)'
  <2>1. p \in Who(queue)'
    BY <1>5
  <2>2. Inside(p)'
    BY <1>1, <1>7, <1>8, <2>1 DEF Waits, Place, Inside, Choosing
  <2>. QED
    BY <1>1, <1>7, <2>2 DEF Place, InLoop
<1>10. Whose(p)'
  <2>1. burst_idx' = burst_idx
    BY <1>1 DEF Memory
  <2>2. OnCpuBurst(p)' <=> OnCpuBurst(p)
    BY <1>1, <1>7 DEF OnCpuBurst, Place, Inside
  <2>. QED
    BY <1>1, <1>4, <1>5, <1>7, <2>1, <2>2 DEF Whose, Place, Inside
<1>11. SomebodyLooks'
  BY <1>1 DEF SomebodyLooks, Looking
<1>. QED
  BY <1>3, <1>6, <1>9, <1>10, <1>11 DEF Turned

LEMMA SetStateInTurn == ASSUME Typed, Waiting, Turned, inturn, NEW p \in Processes, SetState(p) PROVE Turned'
<1>1. /\ Only(p) /\ Memory /\ UNCHANGED <<running, queue>>
      /\ \/ pc[p] = "pcb" /\ pc'[p] = "look" /\ state'[p] = "READY"
         \/ pc[p] = "ready" /\ pc'[p] = "look" /\ state'[p] = "READY"
         \/ pc[p] = "preempt" /\ pc'[p] = "requeue" /\ state'[p] = "READY"
         \/ pc[p] = "block" /\ pc'[p] = "release" /\ state'[p] = "IO"
         \/ pc[p] = "exit" /\ pc'[p] = "release" /\ state'[p] = "EXITED"
      /\ \A q \in Processes : q # p => state'[q] = state[q]
      /\ registered' = registered \cup {p}
  BY SetStateStep
<1>2. \A q \in Processes : q # p => pc[q] \notin WorkPlaces
  BY <1>1, MyTurn DEF Turned, WorkPlaces
<1>3. Alone'
  BY <1>1, <1>2, AloneStays DEF Turned
<1>4. Who(queue)' = Who(queue) /\ (Leaving(p)' <=> Leaving(p))
  BY <1>1 DEF Who, Leaving, Memory
<1>5. ASSUME NEW q \in Processes, q # p PROVE Place(q)' /\ Whose(q)'
  <2>1. (running = q => state[q] = "RUNNING") /\ (state[q] = "RUNNING" => running = q)
    BY <1>2, <1>5 DEF Turned, Whose, WorkPlaces
  <2>. QED
    BY <1>1, <1>2, <1>4, <1>5, <2>1, OthersKept
<1>6. Place(p) /\ Whose(p) /\ (pc[p] = "exit" => Leaving(p))
      /\ (pc[p] \in {"pcb", "ready", "preempt", "block"} => ~ Leaving(p))
  BY DEF Turned, Typed, Bursts
<1>7. Place(p)'
  <2>1. Inside(p)'
    BY <1>1, <1>4, <1>6 DEF Place, Inside, Whose, Choosing
  <2>. QED
    BY <1>1, <2>1 DEF Place, InLoop
<1>8. Whose(p)'
  <2>1. burst_idx' = burst_idx
    BY <1>1 DEF Memory
  <2>2. ~ Leaving(p) => (OnCpuBurst(p)' <=> OnCpuBurst(p))
    BY <1>1, <1>6 DEF OnCpuBurst, Place, Inside
  <2>. QED
    BY <1>1, <1>4, <1>6, <2>1, <2>2 DEF Whose, Place, Inside
<1>9. SomebodyLooks'
  <2> SUFFICES ASSUME running = -1, queue # <<>> PROVE \E q \in Processes : pc'[q] \in Looking
    BY <1>1 DEF SomebodyLooks
  <2>1. PICK q \in Processes : pc[q] \in Looking
    BY DEF Turned, SomebodyLooks
  <2>2. q = p
    BY <1>2, <2>1 DEF Looking, WorkPlaces
  <2>. QED
    BY <1>1, <2>1, <2>2 DEF Looking
<1>. QED
  BY <1>3, <1>5, <1>7, <1>8, <1>9 DEF Turned

LEMMA LookInTurn ==
  ASSUME Typed, Waiting, Turned, inturn, NEW p \in Processes, Release(p) \/ Look(p) \/ scheduleNext(p)
  PROVE  Turned'
<1>1. /\ Only(p) /\ Memory /\ UNCHANGED <<queue, state, registered>>
      /\ \/ pc[p] = "release" /\ pc'[p] = "schedule" /\ running' = -1
         \/ pc[p] = "look" /\ pc'[p] = "schedule" /\ running = -1 /\ running' = running
         \/ pc[p] = "look" /\ pc'[p] = "read" /\ running # -1 /\ running' = running
         \/ pc[p] = "schedule" /\ pc'[p] = "idle" /\ queue = <<>> /\ running' = running
         \/ pc[p] = "schedule" /\ pc'[p] = "pop" /\ queue # <<>> /\ running' = running
  BY LookStep
<1>2. \A q \in Processes : q # p => pc[q] \notin WorkPlaces
  BY <1>1, MyTurn DEF Turned, WorkPlaces
<1>3. Alone'
  BY <1>1, <1>2, AloneStays DEF Turned
<1>4. Who(queue)' = Who(queue) /\ (Leaving(p)' <=> Leaving(p)) /\ (queue = <<>> => Who(queue) = {})
  BY <1>1 DEF Who, Leaving, Memory
<1>5. Place(p) /\ Whose(p) /\ -1 \notin Processes /\ burst_idx' = burst_idx
  BY <1>1, Constants DEF Turned, Memory
<1>6. \A q \in Processes : state[q] = "RUNNING" => running = q
  BY DEF Turned, Whose
<1>7. pc'[p] \in Choosing => \A q \in Processes : state'[q] # "RUNNING"
  <2> SUFFICES ASSUME pc'[p] \in Choosing, NEW q \in Processes, state[q] = "RUNNING" PROVE FALSE
    BY <1>1
  <2>1. running = q
    BY <1>6
  <2>2. CASE pc[p] = "schedule"
    BY <1>5, <2>2 DEF Place, Inside, Choosing
  <2>3. CASE pc[p] = "release"
    BY <1>5, <2>1, <2>3 DEF Place, Inside
  <2>4. CASE pc[p] = "look"
    BY <1>1, <1>5, <2>1, <2>4 DEF Choosing
  <2>. QED
    BY <1>1, <2>2, <2>3, <2>4
<1>8. Place(p)'
  <2>1. pc'[p] = "idle" => running' = -1
    BY <1>1, <1>4, <1>5 DEF Place, Inside, Choosing, Whose
  <2>2. pc'[p] \in Choosing => running' \in {-1, p}
    BY <1>1, <1>5 DEF Place, Inside, Choosing
  <2>3. Inside(p)'
    BY <1>1, <1>7, <2>1, <2>2 DEF Inside, Choosing
  <2>. QED
    BY <1>1, <1>5, <2>3 DEF Place, InLoop
<1>9. Whose(p)'
  <2>1. OnCpuBurst(p)' <=> OnCpuBurst(p)
    BY <1>1 DEF OnCpuBurst
  <2>2. running' = p => state[p] = "RUNNING" \/ (pc'[p] \in {"schedule", "pop"} /\ p \in Who(queue))
    BY <1>1, <1>4, <1>5 DEF Whose, Place, Inside
  <2>3. state[p] = "RUNNING" => running' = p
    BY <1>1, <1>5 DEF Whose, Place, Inside
  <2>. QED
    BY <1>1, <1>4, <1>5, <2>1, <2>2, <2>3 DEF Whose
<1>10. CASE running' = running
  <2>1. running = -1 /\ queue # <<>> /\ pc[p] \in Looking => pc'[p] \in Looking
    BY <1>1, <1>10 DEF Looking
  <2>. QED
    BY <1>1, <1>3, <1>8, <1>9, <1>10, <2>1, WorldKept
<1>11. CASE pc[p] = "release"
  <2>1. running' = -1 /\ running = p /\ pc'[p] = "schedule"
    BY <1>1, <1>5, <1>11 DEF Place, Inside
  <2>2. ASSUME NEW q \in Processes, q # p PROVE Place(q)' /\ Whose(q)'
    <3>1. state[q] # "RUNNING" /\ running' # q
      BY <1>5, <1>6, <2>1, <2>2
    <3>. QED
      BY <1>1, <1>2, <1>4, <2>2, <3>1, OthersKept
  <2>3. SomebodyLooks'
    BY <2>1 DEF SomebodyLooks, Looking
  <2>. QED
    BY <1>3, <1>8, <1>9, <2>2, <2>3 DEF Turned
<1>. QED
  BY <1>1, <1>10, <1>11

(* Out of the queue and of the world's sight: the end of scheduleNext, of  *)
(* the process, and the steps of the loop.                                 *)
LEMMA GoIdleInTurn ==
  ASSUME Typed, Waiting, Turned, inturn, NEW p \in Processes, GoIdle(p) \/ quit(p) \/ StartTimer(p)
  PROVE  Turned'
<1>1. /\ Only(p) /\ Memory /\ UNCHANGED <<queue, state, registered>>
      /\ \/ pc[p] = "idle" /\ pc'[p] = (IF Leaving(p) THEN "quit" ELSE "read") /\ running' = -1
         \/ pc[p] = "quit" /\ pc'[p] = "gone" /\ running' = running
         \/ pc[p] = "signal" /\ pc'[p] = "push" /\ running' = running
  BY GoIdleStep, quitStep, StartTimerStep
<1>2. Place(p) /\ Whose(p) /\ Waits(p)
  BY DEF Turned, Waiting
<1>3. running' = running
  BY <1>1, <1>2 DEF Place, Inside, Choosing
<1>4. Alone'
  BY <1>1, AloneStays DEF Turned, WorkPlaces
<1>5. Who(queue)' = Who(queue) /\ (Leaving(p)' <=> Leaving(p)) /\ burst_idx' = burst_idx
  BY <1>1 DEF Who, Leaving, Memory
<1>6. Place(p)'
  <2>1. Inside(p)' /\ InLoop(p)'
    BY <1>1 DEF Inside, InLoop, Choosing
  <2>. QED
    BY <1>1, <1>2, <2>1 DEF Place
<1>7. Whose(p)'
  <2>1. OnCpuBurst(p)' <=> OnCpuBurst(p)
    BY <1>1 DEF OnCpuBurst
  <2>. QED
    BY <1>1, <1>2, <1>3, <1>5, <2>1 DEF Whose
<1>8. pc[p] \notin Looking
  BY <1>1 DEF Looking
<1>. QED
  BY <1>1, <1>3, <1>4, <1>6, <1>7, <1>8, WorldKept

LEMMA PopInTurn == ASSUME Typed, Waiting, Turned, inturn, NEW p \in Processes, Pop(p) PROVE Turned'
<1>1. PICK h \in Processes : h = Head(queue)
  BY PopStep
<1>2. /\ Only(p) /\ Memory /\ queue # <<>> /\ queue' = Tail(queue) /\ state'[h] = "RUNNING" /\ running' = h
      /\ \A q \in Processes : q # h => state'[q] = state[q]
      /\ pc[p] = "pop" /\ pc'[p] = (IF Leaving(p) THEN "quit" ELSE "read") /\ registered' = registered
  BY <1>1, PopStep
<1>3. \A q \in Processes : q # p => pc[q] \notin WorkPlaces
  BY <1>2, MyTurn DEF Turned, WorkPlaces
<1>4. Alone'
  BY <1>2, AloneStays DEF Turned, WorkPlaces
<1>5. Who(queue)' = Who(queue) \ {h} /\ h \in Who(queue)
  <2>1. Who(queue') = Who(queue) \ {h} /\ h \in Who(queue)
    BY <1>1, <1>2, Popped, InQueue DEF Waiting
  <2>. QED
    BY <2>1 DEF Who
<1>6. state[h] = "READY" /\ ~ Leaving(h)
  BY <1>2, <1>3, <1>5 DEF Waiting, Waits, WorkPlaces
<1>7. \A q \in Processes : state[q] # "RUNNING"
  BY <1>2, Nobody DEF Choosing
<1>8. ASSUME NEW q \in Processes, q # p PROVE Place(q)' /\ Whose(q)'
  <2>1. CASE q = h
    BY <1>2, <1>3, <1>6, <1>8, <2>1, OthersKept
  <2>2. CASE q # h
    BY <1>2, <1>3, <1>5, <1>7, <1>8, <2>2, OthersKept
  <2>. QED
    BY <2>1, <2>2
<1>9. Place(p) /\ Whose(p) /\ (Leaving(p)' <=> Leaving(p)) /\ burst_idx' = burst_idx
  BY <1>2 DEF Turned, Leaving, Memory
<1>10. Place(p)'
  <2>1. Inside(p)' /\ InLoop(p)'
    BY <1>2 DEF Inside, InLoop, Choosing
  <2>. QED
    BY <1>2, <1>9, <2>1 DEF Place
<1>11. Whose(p)'
  <2>1. CASE h = p
    <3>1. OnCpuBurst(p)' /\ OnCpuBurst(p)
      BY <1>2, <1>6, <2>1 DEF OnCpuBurst
    <3>. QED
      BY <1>2, <1>6, <1>9, <2>1, <3>1 DEF Whose
  <2>2. CASE h # p
    <3>1. OnCpuBurst(p)' <=> OnCpuBurst(p)
      BY <1>2, <2>2 DEF OnCpuBurst
    <3>. QED
      BY <1>2, <1>5, <1>7, <1>9, <2>2, <3>1 DEF Whose
  <2>. QED
    BY <2>1, <2>2
<1>12. SomebodyLooks'
  BY <1>2, Constants DEF SomebodyLooks
<1>. QED
  BY <1>4, <1>8, <1>10, <1>11, <1>12 DEF Turned

LEMMA PopNothingInTurn ==
  ASSUME Typed, Turned, NEW p \in Processes, PopNothing(p)
  PROVE  FALSE
<1>1. pc[p] = "pop" /\ queue = <<>>
  BY PopNothingStep
<1>. QED
  BY <1>1 DEF Turned, Place, Inside, Choosing

LEMMA LoopInTurn ==
  ASSUME Typed, Waiting, Turned, inturn, NEW p \in Processes,
         EndNap(p) \/ Rest(p) \/ EndRest(p) \/ Continue(p) \/ ReadState(p) \/ PassWindow(p) \/ Interrupted(p),
         got_sigusr1[p] => seen[p] = "RUNNING"
  PROVE  Turned'
<1>1. /\ Only(p) /\ UNCHANGED <<queue, state, registered, running, burst_idx, burst_times>>
      /\ \/ pc[p] = "nap" /\ pc'[p] = "sync" /\ seen' = seen
         \/ pc[p] = "ticked" /\ pc'[p] = "rest" /\ seen[p] = "READY" /\ seen' = seen
         \/ pc[p] = "rest" /\ pc'[p] = "read" /\ seen' = seen
         \/ pc[p] = "ticked" /\ pc'[p] = "read" /\ seen' = seen
         \/ pc[p] = "read" /\ pc'[p] = "nap" /\ seen'[p] = state[p]
         \/ pc[p] = "sync" /\ pc'[p] = "ticked" /\ seen' = seen
         \/ pc[p] = "ticked" /\ pc'[p] = "preempt" /\ seen' = seen /\ MayWork(p)
               /\ seen[p] # "READY" /\ got_sigusr1[p]
  BY LoopStep, ReadStateStep, PassWindowStep, InterruptedStep DEF Memory
<1>2. Place(p) /\ Whose(p) /\ ~ Leaving(p) /\ state[p] \in States /\ (Leaving(p)' <=> Leaving(p))
  BY <1>1 DEF Turned, Typed, Types, Bursts, Leaving
<1>3. Alone'
  <2>1. pc'[p] # "preempt" => pc'[p] \notin WorkPlaces
    BY <1>1 DEF WorkPlaces
  <2>2. pc'[p] = "preempt" => \A q \in Processes : q # p => pc[q] \notin WorkPlaces
    BY <1>1, WorksAlone
  <2>. QED
    BY <1>1, <2>1, <2>2, AloneStays DEF Turned
<1>4. Who(queue)' = Who(queue)
  BY <1>1 DEF Who
<1>5. Place(p)'
  <2>1. Inside(p)'
    BY <1>1, <1>2 DEF Inside, Choosing, Place, InLoop
  <2>2. InLoop(p)'
    BY <1>1, <1>2 DEF Place, InLoop, Whose, States
  <2>. QED
    BY <1>1, <1>2, <2>1, <2>2 DEF Place
<1>6. Whose(p)'
  <2>1. OnCpuBurst(p)' <=> OnCpuBurst(p)
    BY <1>1 DEF OnCpuBurst
  <2>. QED
    BY <1>1, <1>2, <1>4, <2>1 DEF Whose
<1>7. pc[p] \notin Looking
  BY <1>1 DEF Looking
<1>. QED
  BY <1>1, <1>3, <1>5, <1>6, <1>7, WorldKept

LEMMA EndBurstInTurn ==
  ASSUME Typed, Waiting, Turned, inturn, NEW p \in Processes, EndBurst(p)
  PROVE  Turned'
<1>1. /\ Only(p) /\ UNCHANGED <<queue, state, registered, running, burst_times, seen>>
      /\ pc[p] = "ticked" /\ seen[p] # "READY" /\ MayWork(p)
      /\ ~ Leaving(p) /\ burst_idx'[p] = burst_idx[p] + 1
      /\ \/ /\ pc'[p] = "exit" /\ burst_idx[p] = Len(burst_times[p]) /\ Leaving(p)'
         \/ /\ burst_idx[p] # Len(burst_times[p]) /\ ~ Leaving(p)'
            /\ pc'[p] = (IF seen[p] = "RUNNING" THEN "block" ELSE "enqueue")
  BY EndBurstStep
<1>2. Place(p) /\ Whose(p)
  BY DEF Turned
<1>3. seen[p] \in {"RUNNING", "IO"} /\ state[p] = seen[p]
  BY <1>1, <1>2 DEF Place, InLoop
<1>4. Alone'
  BY <1>1, WorksAlone, AloneStays DEF Turned
<1>5. PICK b \in Nat : b = burst_idx[p]
  BY DEF Typed, Types
<1>6. b % 2 = 1 <=> state[p] # "IO"
  BY <1>1, <1>2, <1>5 DEF Whose, OnCpuBurst
<1>7. pc'[p] = "exit" => state[p] = "RUNNING"
  <2>1. Len(burst_times[p]) % 2 = 1
    BY DEF Typed, Types
  <2>2. pc'[p] = "exit" => b % 2 = 1
    <3>1. pc'[p] = "exit" => b = Len(burst_times[p])
      BY <1>1, <1>5
    <3>. QED
      BY <2>1, <3>1, Zenon
  <2>. QED
    BY <1>3, <1>6, <2>2
<1>8. Place(p)'
  <2>1. pc'[p] \in {"block", "exit"} => state[p] = "RUNNING"
    BY <1>1, <1>3, <1>7
  <2>2. pc'[p] = "enqueue" => state[p] = "IO"
    BY <1>1, <1>3
  <2>3. Inside(p)' /\ InLoop(p)'
    BY <1>1, <2>1, <2>2 DEF Inside, InLoop, Choosing
  <2>. QED
    BY <1>1, <1>2, <2>3 DEF Place
<1>9. Whose(p)'
  <2>1. (b + 1) % 2 = 1 <=> ~ (b % 2 = 1)
    OBVIOUS
  <2>2. burst_idx'[p] % 2 = 1 <=> state[p] = "IO"
    <3>1. burst_idx'[p] = b + 1
      BY <1>1, <1>5
    <3>2. burst_idx'[p] % 2 = (b + 1) % 2
      BY <3>1, Zenon
    <3>. QED
      BY <1>6, <2>1, <3>2
  <2>3. ~ Leaving(p)' => (OnCpuBurst(p)' <=> state[p] = "IO")
    BY <1>1, <1>3 DEF OnCpuBurst
  <2>4. Who(queue)' = Who(queue)
    BY <1>1 DEF Who
  <2>. QED
    BY <1>1, <1>2, <1>3, <2>2, <2>3, <2>4 DEF Whose
<1>10. pc[p] \notin Looking
  BY <1>1 DEF Looking
<1>. QED
  BY <1>1, <1>4, <1>8, <1>9, <1>10, WorldKept

LEMMA TimeoutInTurn == ASSUME Typed, Waiting, Turned, inturn, handleTimeout PROVE Turned'
<1>1. UNCHANGED <<queue, seen, state, registered, running, burst_idx, burst_times>>
  BY handleTimeoutStep
<1>2. CASE pc' = pc
  BY <1>1, <1>2 DEF Turned, Alone, SomebodyLooks, Place, Inside, InLoop, Whose, Who, Leaving, OnCpuBurst
<1>3. CASE pc' # pc
  <2>1. PICK r \in Processes : r = running
    BY <1>3, handleTimeoutStep
  <2>2. Only(r) /\ pc[r] = "sync" /\ pc'[r] = "ticked"
    BY <1>3, <2>1, handleTimeoutStep
  <2>3. Place(r) /\ Whose(r) /\ Who(queue)' = Who(queue) /\ (Leaving(r)' <=> Leaving(r))
    BY <1>1 DEF Turned, Who, Leaving
  <2>4. Alone' /\ pc[r] \notin Looking
    BY <2>2, AloneStays DEF Turned, WorkPlaces, Looking
  <2>5. Place(r)'
    BY <1>1, <2>2, <2>3 DEF Place, Inside, InLoop, Choosing
  <2>6. OnCpuBurst(r)' <=> OnCpuBurst(r)
    BY <1>1, <2>2 DEF OnCpuBurst
  <2>7. Whose(r)'
    BY <1>1, <2>2, <2>3, <2>6 DEF Whose
  <2>. QED
    BY <1>1, <2>2, <2>4, <2>5, <2>7, WorldKept
<1>. QED
  BY <1>2, <1>3

LEMMA ForkInTurn == ASSUME Typed, Waiting, Turned, inturn, forkProcess PROVE Turned'
<1>1. PICK r \in Processes : r = forked
  BY forkProcessStep
<1>2. /\ Only(r) /\ Memory /\ pc[r] = "unborn" /\ pc'[r] \in {"signal", "push"}
      /\ UNCHANGED <<queue, state, registered, running>>
  BY <1>1, forkProcessStep
<1>3. /\ Place(r) /\ Whose(r) /\ Who(queue)' = Who(queue) /\ (Leaving(r)' <=> Leaving(r))
      /\ burst_idx' = burst_idx
  BY <1>2 DEF Turned, Who, Leaving, Memory
<1>4. Alone' /\ pc[r] \notin Looking
  BY <1>2, AloneStays DEF Turned, WorkPlaces, Looking
<1>5. Place(r)'
  BY <1>2, <1>3 DEF Place, Inside, InLoop, Choosing
<1>6. OnCpuBurst(r)' <=> OnCpuBurst(r)
  BY <1>2 DEF OnCpuBurst
<1>7. Whose(r)'
  BY <1>2, <1>3, <1>6 DEF Whose
<1>. QED
  BY <1>2, <1>4, <1>5, <1>7, WorldKept

(* A signal that was received is that of this tick, for who has the CPU.   *)
Fresh(p) == got_sigusr1[p] => /\ pc[p] = "ticked" /\ seen[p] = "RUNNING" /\ state[p] = "RUNNING"
                              /\ next_interrupt = now

LEMMA InTurnNext ==
  ASSUME Typed, Waiting, Turned, inturn, \A p \in Processes : Fresh(p), [Next]_vars
  PROVE  Turned'
<1>1. ASSUME UNCHANGED <<queue, pc, seen, state, registered, running, burst_idx, burst_times>> PROVE Turned'
  BY <1>1 DEF Turned, Alone, SomebodyLooks, Place, Inside, InLoop, Whose, Who, Leaving, OnCpuBurst
<1>2. CASE UNCHANGED vars
  BY <1>1, <1>2 DEF vars, shared, own, fixed
<1>3. ASSUME NEW p \in Processes, Process(p) PROVE Turned'
  <2>1. got_sigusr1[p] => seen[p] = "RUNNING"
    BY DEF Fresh
  <2>. QED
    BY <1>3, <2>1, PushInTurn, SetStateInTurn, LookInTurn, GoIdleInTurn, PopInTurn, PopNothingInTurn,
       LoopInTurn, EndBurstInTurn DEF Process
<1>4. CASE StartClock \/ Tick \/ OpenWindow \/ CloseWindow
  BY <1>1, <1>4, TimerStep DEF Memory
<1>5. CASE NextTick \/ LauncherEndNap \/ LauncherPassWindow \/ LauncherQuit
  BY <1>1, <1>5, LauncherStep DEF Memory
<1>. QED
  BY <1>2, <1>3, <1>4, <1>5, TimeoutInTurn, ForkInTurn DEF Next, Timer, Launcher
-----------------------------------------------------------------------------
(* The semaphore, whose unit process 0 gives, and the timer takes for the  *)
(* time of a window.                                                       *)
OneUnit == /\ sync \in {0, 1} /\ now <= MaxTime
           /\ tpc = "window" => sync = 0
           /\ tpc = "start" => now = 0
           /\ pc[0] \in {"unborn", "signal"} => sync = 0 /\ tpc = "start"
           /\ \A p \in Processes : pc[p] = "signal" => p = 0

LEMMA OneUnitInit == Init => OneUnit
<1> SUFFICES ASSUME Init PROVE OneUnit
  OBVIOUS
<1>1. \A p \in Processes : pc[p] = "unborn"
  BY DEF Init
<1>2. sync = 0 /\ tpc = "start" /\ now = 0 /\ now <= MaxTime
  BY SchedulerAssumption DEF Init
<1>. QED
  BY <1>1, <1>2, Constants DEF OneUnit

LEMMA UnitKept ==
  ASSUME OneUnit, NEW p \in Processes, Only(p), pc'[p] \notin {"unborn", "signal"},
         UNCHANGED <<now, tpc>>,
         \/ sync' = sync
         \/ p = 0 /\ sync > 0 /\ sync' = sync - 1
  PROVE  OneUnit'
<1>1. \A q \in Processes : q # p => pc'[q] = pc[q]
  BY DEF Only, Still
<1>2. sync' \in {0, 1}
  BY DEF OneUnit
<1>3. tpc' = "window" => sync' = 0
  BY DEF OneUnit
<1>4. pc'[0] \in {"unborn", "signal"} => sync' = 0 /\ tpc' = "start"
  BY <1>1, Constants DEF OneUnit
<1>5. \A q \in Processes : pc'[q] = "signal" => q = 0
  BY <1>1 DEF OneUnit
<1>. QED
  BY <1>2, <1>3, <1>4, <1>5 DEF OneUnit

LEMMA OneUnitNext == Typed /\ OneUnit /\ [Next]_vars => OneUnit'
<1> SUFFICES ASSUME Typed, OneUnit, [Next]_vars PROVE OneUnit'
  OBVIOUS
<1>1. CASE UNCHANGED <<pc, sync, now, tpc>>
  BY <1>1 DEF OneUnit
<1>2. CASE UNCHANGED vars
  BY <1>1, <1>2 DEF vars, shared, others
<1>3. ASSUME NEW p \in Processes, Process(p) PROVE OneUnit'
  <2>1. CASE StartTimer(p)
    <3>1. Only(p) /\ pc[p] = "signal" /\ pc'[p] = "push" /\ sync' = sync + 1 /\ UNCHANGED <<now, tpc>>
      BY <2>1, StartTimerStep DEF World
    <3>2. p = 0 /\ sync = 0 /\ tpc = "start"
      BY <3>1 DEF OneUnit
    <3>3. \A q \in Processes : q # p => pc'[q] = pc[q]
      BY <3>1 DEF Only, Still
    <3>. QED
      BY <3>1, <3>2, <3>3 DEF OneUnit
  <2>2. CASE ~ StartTimer(p)
    <3>1. Only(p) /\ UNCHANGED <<now, tpc>> /\ (sync' = sync \/ (p = 0 /\ sync > 0 /\ sync' = sync - 1))
      BY <1>3, <2>2, PushStep, SetStateStep, LookStep, GoIdleStep, PopStep, PopNothingStep, quitStep,
         LoopStep, ReadStateStep, PassWindowStep, InterruptedStep, EndBurstStep DEF Process, World
    <3>2. pc'[p] \notin {"unborn", "signal"}
      <4>1. CASE Push(p) \/ SetState(p) \/ Release(p) \/ Look(p) \/ scheduleNext(p)
        BY <4>1, PushStep, SetStateStep, LookStep
      <4>2. CASE GoIdle(p) \/ Pop(p) \/ PopNothing(p) \/ quit(p)
        BY <4>2, GoIdleStep, PopStep, PopNothingStep, quitStep
      <4>3. CASE EndNap(p) \/ Rest(p) \/ EndRest(p) \/ Continue(p) \/ ReadState(p) \/ PassWindow(p)
        BY <4>3, LoopStep, ReadStateStep, PassWindowStep
      <4>4. CASE Interrupted(p) \/ EndBurst(p)
        BY <4>4, InterruptedStep, EndBurstStep
      <4>. QED
        BY <1>3, <2>2, <4>1, <4>2, <4>3, <4>4 DEF Process
    <3>. QED
      BY <3>1, <3>2, UnitKept
  <2>. QED
    BY <2>1, <2>2
<1>4. CASE StartClock \/ Tick \/ OpenWindow \/ CloseWindow
  <2>1. /\ pc' = pc
        /\ \/ tpc = "start" /\ tpc' = "sleep" /\ sync > 0 /\ sync' = sync /\ now' = 0
           \/ tpc = "sleep" /\ tpc' = "timeout" /\ sync' = sync /\ now' = now + 1 /\ now < MaxTime
           \/ tpc = "open" /\ tpc' = "window" /\ sync > 0 /\ sync' = sync - 1 /\ now' = now
           \/ tpc = "window" /\ tpc' = "sleep" /\ sync' = sync + 1 /\ now' = now
    BY <1>4, TimerStep
  <2>2. now \in Nat /\ MaxTime \in Nat
    BY SchedulerAssumption DEF Typed, Types
  <2>3. sync' \in {0, 1} /\ now' <= MaxTime
    BY <2>1, <2>2 DEF OneUnit
  <2>4. pc[0] \notin {"unborn", "signal"}
    BY <2>1 DEF OneUnit
  <2>5. (tpc' = "window" => sync' = 0) /\ tpc' # "start"
    BY <2>1 DEF OneUnit
  <2>. QED
    BY <2>1, <2>3, <2>4, <2>5 DEF OneUnit
<1>5. CASE handleTimeout
  <2>1. UNCHANGED <<now, sync>> /\ tpc = "timeout" /\ tpc' = "open"
    BY <1>5, handleTimeoutStep
  <2>2. ASSUME NEW q \in Processes PROVE pc'[q] \in {"unborn", "signal"} => pc'[q] = pc[q]
    BY <1>5, handleTimeoutStep DEF Only, Still
  <2>. QED
    BY <2>1, <2>2, Constants DEF OneUnit
<1>6. CASE forkProcess
  <2>1. PICK r \in Processes : r = forked
    BY <1>6, forkProcessStep
  <2>2. /\ Only(r) /\ pc[r] = "unborn" /\ pc'[r] = (IF r = 0 THEN "signal" ELSE "push")
        /\ UNCHANGED <<now, sync, tpc>>
    BY <1>6, <2>1, forkProcessStep
  <2>3. \A q \in Processes : q # r => pc'[q] = pc[q]
    BY <2>2 DEF Only, Still
  <2>. QED
    BY <2>2, <2>3, Constants DEF OneUnit
<1>7. CASE NextTick \/ LauncherEndNap \/ LauncherPassWindow
  BY <1>1, <1>7 DEF NextTick, LauncherEndNap, LauncherPassWindow, shared
<1>8. CASE LauncherQuit
  <2>1. UNCHANGED <<pc, sync, now>> /\ tpc' = "end" /\ pc[0] = "gone"
    BY <1>8, Constants DEF LauncherQuit, shared
  <2>. QED
    BY <2>1 DEF OneUnit
<1>. QED
  BY <1>2, <1>3, <1>4, <1>5, <1>6, <1>7, <1>8 DEF Next, Timer, Launcher

(* Every variable keeps its range: in particular sync is never raised      *)
(* above one, nor lowered below zero by the kernel.                        *)
THEOREM SchedulerRanges == Spec => []TypeOK
<1>1. Typed /\ OneUnit => TypeOK
  BY DEF Typed, Types, OneUnit, TypeOK, States
<1>. QED
  BY <1>1, TypedInit, TypedNext, OneUnitInit, OneUnitNext, PTL DEF Spec
-----------------------------------------------------------------------------
(* The clock.  As long as the unit of sync is there, and if not in the     *)
(* window then only before the timer has started, everybody who is alive   *)
(* has the time of the timer, or is to pass the window of this tick.       *)
Missing == sync = 0 /\ tpc \in {"sleep", "timeout", "open"}
Lost    == sync = 0 /\ tpc \in {"sleep", "timeout", "open", "end"}

Ahead == {"timeout", "open", "window"}
Clock(p) ==
  /\ pc[p] = "unborn" => local_time[p] = Arrival[p]
  /\ pc[p] \notin {"unborn", "gone"} =>
       local_time[p] = IF pc[p] = "sync" /\ tpc \in Ahead THEN now - 1 ELSE now
  /\ pc[p] = "gone" => local_time[p] <= now
  /\ tpc = "timeout" => pc[p] \in {"unborn", "sync", "gone"}
  /\ tpc \in {"start", "sleep"} => pc[p] # "ticked"
  /\ tpc = "start" => pc[p] # "sync"
  /\ tpc = "end" => pc[p] = "gone"
LauncherClock ==
  /\ lpc \in {"loop", "nap"} => ltime = now
  /\ lpc = "sync" => ltime = IF tpc \in Ahead THEN now - 1 ELSE now
  /\ tpc \in {"timeout", "open"} => lpc \in {"sync", "wait"}
  /\ lpc = "sync" => tpc # "start"
  /\ lpc \in {"wait", "end"} => forked = N
  /\ lpc = "end" <=> tpc = "end"
Timing == LauncherClock /\ \A p \in Processes : Clock(p)

LEMMA TimingInit == Init => Timing
<1> SUFFICES ASSUME Init PROVE Timing
  OBVIOUS
<1>1. \A p \in Processes : pc[p] = "unborn"
  BY DEF Init
<1>2. tpc = "start" /\ lpc = "loop" /\ ltime = 0 /\ now = 0 /\ local_time = Arrival
  BY DEF Init
<1>. QED
  BY <1>1, <1>2 DEF Timing, Clock, LauncherClock

(* A lost unit is not found again. *)
LEMMA LostStays == Typed /\ OneUnit /\ Lost /\ [Next]_vars => Lost'
<1> SUFFICES ASSUME Typed, OneUnit, Lost, [Next]_vars PROVE Lost'
  OBVIOUS
<1>1. ASSUME UNCHANGED <<sync, tpc>> PROVE Lost'
  BY <1>1 DEF Lost
<1>2. CASE UNCHANGED vars
  BY <1>1, <1>2 DEF vars, shared, others
<1>3. ASSUME NEW p \in Processes, Process(p) PROVE Lost'
  <2>1. CASE StartTimer(p)
    <3>1. pc[p] = "signal"
      BY <2>1, StartTimerStep
    <3>2. tpc = "start"
      BY <3>1 DEF OneUnit
    <3>. QED
      BY <3>2 DEF Lost
  <2>2. CASE ~ StartTimer(p)
    <3>1. UNCHANGED tpc /\ (sync' = sync \/ (p = 0 /\ sync > 0 /\ sync' = sync - 1))
      BY <1>3, <2>2, PushStep, SetStateStep, LookStep, GoIdleStep, PopStep, PopNothingStep, quitStep,
         LoopStep, ReadStateStep, PassWindowStep, InterruptedStep, EndBurstStep DEF Process, World
    <3>. QED
      BY <3>1 DEF Lost
  <2>. QED
    BY <2>1, <2>2
<1>4. CASE Timer
  BY <1>4, TimerStep, handleTimeoutStep DEF Timer, Lost
<1>5. CASE Launcher
  BY <1>5, forkProcessStep, LauncherStep DEF Launcher, Lost
<1>. QED
  BY <1>2, <1>3, <1>4, <1>5 DEF Next

LEMMA OtherClocks ==
  ASSUME NEW p \in Processes, NEW q \in Processes, q # p, Only(p), Clock(q), UNCHANGED <<now, tpc>>
  PROVE  Clock(q)'
BY DEF Only, Still, Clock

(* A step of a process within one tick. *)
LEMMA SameTick ==
  ASSUME Typed, Timing, NEW p \in Processes, Only(p), local_time'[p] = local_time[p], UNCHANGED now, World,
         pc[p] \notin {"unborn", "gone", "sync"},
         pc'[p] \notin {"unborn", "ticked"}, pc'[p] = "sync" => tpc = "sleep"
  PROVE  Timing'
<1>1. Clock(p) /\ now \in Nat
  BY DEF Timing, Typed, Types
<1>2. Clock(p)'
  BY <1>1 DEF Clock, World, Ahead
<1>3. LauncherClock'
  BY DEF Timing, LauncherClock, World
<1>. QED
  BY <1>2, <1>3, OtherClocks DEF Timing, World

LEMMA ProcessTiming ==
  ASSUME Typed, Timing, ~ Missing, NEW p \in Processes, Process(p)
  PROVE  Timing'
<1>1. CASE PassWindow(p)
  <2>1. /\ Only(p) /\ World /\ pc[p] = "sync" /\ pc'[p] = "ticked" /\ sync = 0
        /\ local_time'[p] = local_time[p] + 1 /\ UNCHANGED now
    BY <1>1, PassWindowStep
  <2>2. Clock(p) /\ now \in Nat
    BY DEF Timing, Typed, Types
  <2>3. tpc = "window"
    BY <2>1, <2>2 DEF Missing, Clock, Typed, Types
  <2>4. Clock(p)'
    BY <2>1, <2>2, <2>3 DEF Clock, World, Ahead
  <2>5. LauncherClock'
    BY <2>1 DEF Timing, LauncherClock, World
  <2>. QED
    BY <2>1, <2>4, <2>5, OtherClocks DEF Timing, World
<1>2. CASE EndNap(p) \/ Rest(p) \/ EndRest(p) \/ Continue(p)
  <2>1. /\ Only(p) /\ Memory /\ World /\ UNCHANGED now /\ pc[p] \in {"nap", "ticked", "rest"}
        /\ pc'[p] \in {"rest", "read", "sync"} /\ (pc'[p] = "sync" => Between)
    BY <1>2, LoopStep
  <2>2. Between => tpc = "sleep"
    BY DEF Between, ClockStopped, Missing
  <2>. QED
    BY <2>1, <2>2, SameTick DEF Memory
<1>3. CASE ReadState(p) \/ Interrupted(p) \/ EndBurst(p)
  <2>1. /\ Only(p) /\ World /\ UNCHANGED <<now, local_time>> /\ pc[p] \in {"read", "ticked"}
        /\ pc'[p] \in {"nap", "preempt", "exit", "block", "enqueue"}
    BY <1>3, ReadStateStep, InterruptedStep, EndBurstStep
  <2>. QED
    BY <2>1, SameTick
<1>4. CASE Push(p) \/ SetState(p) \/ Release(p) \/ Look(p) \/ scheduleNext(p) \/ StartTimer(p)
  <2>1. /\ Only(p) /\ World /\ Memory /\ UNCHANGED now /\ pc[p] \notin {"unborn", "gone", "sync"}
        /\ pc'[p] \notin {"unborn", "ticked", "sync"}
    BY <1>4, PushStep, SetStateStep, LookStep, StartTimerStep
  <2>. QED
    BY <2>1, SameTick DEF Memory
<1>5. CASE GoIdle(p) \/ Pop(p) \/ PopNothing(p) \/ quit(p)
  <2>1. /\ Only(p) /\ World /\ Memory /\ UNCHANGED now /\ pc[p] \notin {"unborn", "gone", "sync"}
        /\ pc'[p] \notin {"unborn", "ticked", "sync"}
    BY <1>5, GoIdleStep, PopStep, PopNothingStep, quitStep
  <2>. QED
    BY <2>1, SameTick DEF Memory
<1>. QED
  BY <1>1, <1>2, <1>3, <1>4, <1>5 DEF Process

LEMMA TimerTiming == ASSUME Typed, OneUnit, Timing, Timer PROVE Timing'
<1>0. now \in Nat /\ LauncherClock
  BY DEF Typed, Types, Timing
<1>1. CASE StartClock \/ Tick \/ OpenWindow \/ CloseWindow
  <2>1. /\ UNCHANGED <<pc, local_time, lpc, ltime, forked>>
        /\ \/ tpc = "start" /\ tpc' = "sleep" /\ now' = now
           \/ /\ tpc = "sleep" /\ tpc' = "timeout" /\ now' = now + 1
              /\ \A p \in Processes : pc[p] \in {"unborn", "sync", "gone"}
              /\ lpc \in {"sync", "wait", "end"}
           \/ tpc = "open" /\ tpc' = "window" /\ now' = now
           \/ /\ tpc = "window" /\ tpc' = "sleep" /\ now' = now
              /\ \A p \in Processes : pc[p] \in {"unborn", "nap", "rest", "gone"}
              /\ lpc \in {"nap", "wait", "end"}
    BY <1>1, TimerStep DEF Memory, OneUnit
  <2>2. LauncherClock'
    BY <1>0, <2>1 DEF LauncherClock, Ahead
  <2>3. ASSUME NEW p \in Processes PROVE Clock(p)'
    <3>1. Clock(p) /\ local_time[p] \in Nat
      BY DEF Timing, Typed, Types
    <3>2. CASE tpc = "start"
      BY <1>0, <2>1, <3>1, <3>2 DEF Clock, Ahead
    <3>3. CASE tpc = "sleep"
      BY <1>0, <2>1, <3>1, <3>3 DEF Clock, Ahead
    <3>4. CASE tpc = "open"
      BY <1>0, <2>1, <3>1, <3>4 DEF Clock, Ahead
    <3>5. CASE tpc = "window"
      BY <1>0, <2>1, <3>1, <3>5 DEF Clock, Ahead
    <3>. QED
      BY <2>1, <3>2, <3>3, <3>4, <3>5
  <2>. QED
    BY <2>2, <2>3 DEF Timing
<1>2. CASE handleTimeout
  <2>1. /\ tpc = "timeout" /\ tpc' = "open" /\ UNCHANGED <<now, lpc, ltime, forked>>
        /\ \A q \in Processes : Clock(q)
    BY <1>2, handleTimeoutStep DEF Timing
  <2>2. LauncherClock'
    BY <1>0, <2>1 DEF LauncherClock, Ahead
  <2>3. CASE UNCHANGED <<pc, local_time>>
    BY <2>1, <2>2, <2>3 DEF Timing, Clock, Ahead
  <2>4. CASE ~ UNCHANGED <<pc, local_time>>
    <3>1. PICK r \in Processes : r = running
      BY <1>2, <2>4, handleTimeoutStep
    <3>2. /\ Only(r) /\ pc[r] = "sync" /\ pc'[r] = "ticked" /\ local_time'[r] = local_time[r] + 1
      BY <1>2, <2>4, <3>1, handleTimeoutStep
    <3>3. Clock(r)'
      BY <1>0, <2>1, <3>2 DEF Clock, Ahead
    <3>4. ASSUME NEW q \in Processes, q # r PROVE Clock(q)'
      BY <2>1, <3>2, <3>4 DEF Only, Still, Clock, Ahead
    <3>. QED
      BY <2>2, <3>3, <3>4 DEF Timing
  <2>. QED
    BY <2>3, <2>4
<1>. QED
  BY <1>1, <1>2 DEF Timer

LEMMA LauncherTiming == ASSUME Typed, Timing, ~ Missing, Launcher PROVE Timing'
<1>0. now \in Nat /\ LauncherClock
  BY DEF Typed, Types, Timing
<1>1. CASE forkProcess
  <2>1. PICK r \in Processes : r = forked
    BY <1>1, forkProcessStep
  <2>2. /\ Only(r) /\ Memory /\ pc[r] = "unborn" /\ pc'[r] \in {"signal", "push"}
        /\ lpc = "loop" /\ ltime = Arrival[r] /\ UNCHANGED <<now, tpc, lpc, ltime>>
    BY <1>1, <2>1, forkProcessStep
  <2>3. Clock(r)'
    BY <1>0, <2>2 DEF Timing, Clock, LauncherClock, Memory
  <2>4. LauncherClock'
    BY <1>0, <2>2 DEF LauncherClock
  <2>. QED
    BY <2>2, <2>3, <2>4, OtherClocks DEF Timing
<1>2. CASE NextTick \/ LauncherEndNap \/ LauncherPassWindow \/ LauncherQuit
  <2>1. /\ UNCHANGED <<now, pc, local_time, forked>>
        /\ \/ lpc = "loop" /\ lpc' = "wait" /\ forked = N /\ UNCHANGED <<ltime, tpc>>
           \/ lpc = "loop" /\ lpc' = "nap" /\ UNCHANGED <<ltime, tpc>>
           \/ lpc = "nap" /\ lpc' = "sync" /\ Between /\ UNCHANGED <<ltime, tpc>>
           \/ lpc = "sync" /\ lpc' = "loop" /\ sync = 0 /\ ltime' = ltime + 1 /\ UNCHANGED tpc
           \/ /\ lpc = "wait" /\ lpc' = "end" /\ tpc' = "end" /\ UNCHANGED ltime
              /\ \A p \in Processes : pc[p] = "gone"
    BY <1>2, LauncherStep DEF Memory
  <2>2. Between => tpc = "sleep"
    BY DEF Between, ClockStopped, Missing
  <2>3. lpc = "sync" /\ sync = 0 => tpc = "window"
    BY <1>0 DEF LauncherClock, Missing, Typed, Types
  <2>4. LauncherClock'
    BY <1>0, <2>1, <2>2, <2>3 DEF LauncherClock, Ahead
  <2>5. \A p \in Processes : Clock(p)'
    BY <2>1 DEF Timing, Clock
  <2>. QED
    BY <2>4, <2>5 DEF Timing
<1>. QED
  BY <1>1, <1>2 DEF Launcher

LEMMA TimingNext == Typed /\ OneUnit /\ Timing /\ ~ Missing /\ [Next]_vars => Timing'
<1> SUFFICES ASSUME Typed, OneUnit, Timing, ~ Missing, [Next]_vars PROVE Timing'
  OBVIOUS
<1>1. CASE UNCHANGED vars
  BY <1>1 DEF vars, shared, own, others, Timing, LauncherClock, Clock
<1>. QED
  BY <1>1, ProcessTiming, TimerTiming, LauncherTiming DEF Next

(* The unit is lost only by the end of process 0, at the hands of the      *)
(* kernel, and not in the window.                                          *)
THEOREM OnlyItsGiverLosesTheUnit ==
  Spec => [][~ Missing /\ Missing' => pc[0] \in {"quit", "pop"} /\ pc'[0] = "gone"]_vars
<1>1. ASSUME Typed, OneUnit, [Next]_vars, ~ Missing, Missing'
      PROVE  pc[0] \in {"quit", "pop"} /\ pc'[0] = "gone"
  <2>1. CASE UNCHANGED vars
    BY <1>1, <2>1 DEF vars, shared, others, Missing
  <2>2. ASSUME NEW p \in Processes, Process(p) PROVE pc[0] \in {"quit", "pop"} /\ pc'[0] = "gone"
    <3>1. CASE quit(p) \/ PopNothing(p)
      BY <1>1, <3>1, quitStep, PopNothingStep DEF Missing, World
    <3>2. CASE StartTimer(p)
      BY <1>1, <3>2, StartTimerStep DEF OneUnit, Missing, World
    <3>3. CASE ~ (quit(p) \/ PopNothing(p) \/ StartTimer(p))
      <4>1. CASE Push(p) \/ SetState(p) \/ Release(p) \/ Look(p) \/ scheduleNext(p) \/ GoIdle(p) \/ Pop(p)
        <5>1. UNCHANGED <<tpc, sync>>
          BY <1>1, <4>1, PushStep, SetStateStep, LookStep, GoIdleStep, PopStep DEF World
        <5>. QED
          BY <1>1, <5>1 DEF Missing
      <4>2. CASE \/ EndNap(p) \/ Rest(p) \/ EndRest(p) \/ Continue(p) \/ ReadState(p) \/ PassWindow(p)
                 \/ Interrupted(p) \/ EndBurst(p)
        <5>1. UNCHANGED <<tpc, sync>>
          BY <1>1, <4>2, LoopStep, ReadStateStep, PassWindowStep, InterruptedStep, EndBurstStep DEF World
        <5>. QED
          BY <1>1, <5>1 DEF Missing
      <4>. QED
        BY <2>2, <3>3, <4>1, <4>2 DEF Process
    <3>. QED
      BY <3>1, <3>2, <3>3
  <2>3. CASE Timer
    BY <1>1, <2>3, TimerStep, handleTimeoutStep DEF Timer, Missing, OneUnit
  <2>4. CASE Launcher
    BY <1>1, <2>4, forkProcessStep, LauncherStep DEF Launcher, Missing
  <2>. QED
    BY <1>1, <2>1, <2>2, <2>3, <2>4 DEF Next
<1>. QED
  BY <1>1, TypedInit, TypedNext, OneUnitInit, OneUnitNext, PTL DEF Spec

(* A unit that is missing was lost by process 0: it has left. *)
GivenBack == Lost => pc[0] = "gone"

LEMMA GivenBackInit == Init => GivenBack
BY DEF Init, GivenBack, Lost

(* Who has left does nothing more. *)
LEMMA GoneStays ==
  ASSUME Typed, [Next]_vars, NEW p \in Processes, pc[p] = "gone" PROVE pc'[p] = "gone"
<1>1. CASE UNCHANGED vars
  BY <1>1 DEF vars
<1>2. ASSUME NEW q \in Processes, Process(q) PROVE pc'[p] = "gone"
  <2>1. Only(q) /\ pc[q] # "gone"
    BY <1>2, PushStep, SetStateStep, LookStep, GoIdleStep, PopStep, PopNothingStep, quitStep, StartTimerStep,
       LoopStep, ReadStateStep, PassWindowStep, InterruptedStep, EndBurstStep DEF Process
  <2>. QED
    BY <2>1 DEF Only, Still
<1>3. CASE handleTimeout
  <2>1. CASE pc' = pc
    BY <2>1
  <2>2. CASE pc' # pc
    <3>1. PICK r \in Processes : r = running
      BY <1>3, <2>2, handleTimeoutStep
    <3>2. Only(r) /\ pc[r] = "sync"
      BY <1>3, <2>2, <3>1, handleTimeoutStep
    <3>. QED
      BY <3>2 DEF Only, Still
  <2>. QED
    BY <2>1, <2>2
<1>4. CASE StartClock \/ Tick \/ OpenWindow \/ CloseWindow
  BY <1>4, TimerStep
<1>5. CASE forkProcess
  <2>1. PICK r \in Processes : r = forked
    BY <1>5, forkProcessStep
  <2>2. Only(r) /\ pc[r] = "unborn"
    BY <1>5, <2>1, forkProcessStep
  <2>. QED
    BY <2>2 DEF Only, Still
<1>6. CASE NextTick \/ LauncherEndNap \/ LauncherPassWindow \/ LauncherQuit
  BY <1>6, LauncherStep
<1>. QED
  BY <1>1, <1>2, <1>3, <1>4, <1>5, <1>6 DEF Next, Timer, Launcher

LEMMA GivenBackNext == Typed /\ OneUnit /\ GivenBack /\ [Next]_vars => GivenBack'
<1> SUFFICES ASSUME Typed, OneUnit, GivenBack, [Next]_vars, Lost' PROVE pc'[0] = "gone"
  BY DEF GivenBack
<1>0. 0 \in Processes /\ sync \in Nat
  BY Constants DEF Typed, Types
<1>1. CASE Lost
  BY <1>0, <1>1, GoneStays DEF GivenBack
<1>2. CASE ~ Lost
  <2>1. CASE UNCHANGED vars
    BY <1>2, <2>1 DEF vars, shared, others, Lost
  <2>2. ASSUME NEW p \in Processes, Process(p) PROVE pc'[0] = "gone"
    <3>1. CASE quit(p) \/ PopNothing(p)
      BY <1>0, <1>2, <3>1, quitStep, PopNothingStep DEF World, Lost
    <3>2. CASE StartTimer(p)
      BY <1>0, <3>2, StartTimerStep DEF Lost
    <3>3. CASE Push(p) \/ SetState(p) \/ Release(p) \/ Look(p) \/ scheduleNext(p) \/ GoIdle(p) \/ Pop(p)
      BY <1>2, <3>3, PushStep, SetStateStep, LookStep, GoIdleStep, PopStep DEF World, Lost
    <3>4. CASE \/ EndNap(p) \/ Rest(p) \/ EndRest(p) \/ Continue(p) \/ ReadState(p) \/ PassWindow(p)
               \/ Interrupted(p) \/ EndBurst(p)
      BY <1>2, <3>4, LoopStep, ReadStateStep, PassWindowStep, InterruptedStep, EndBurstStep DEF World, Lost
    <3>. QED
      BY <2>2, <3>1, <3>2, <3>3, <3>4 DEF Process
  <2>3. CASE Timer
    BY <1>0, <1>2, <2>3, TimerStep, handleTimeoutStep DEF Timer, Lost
  <2>4. CASE Launcher
    BY <1>0, <1>2, <2>4, forkProcessStep, LauncherStep, GoneStays DEF Launcher, Lost
  <2>. QED
    BY <2>1, <2>2, <2>3, <2>4 DEF Next
<1>. QED
  BY <1>1, <1>2

(* Until then the clocks are right. *)
ClocksRight == ~ Lost => Timing

LEMMA ClocksRightNext == Typed /\ OneUnit /\ ClocksRight /\ [Next]_vars => ClocksRight'
<1> SUFFICES ASSUME Typed, OneUnit, ClocksRight, [Next]_vars, ~ Lost' PROVE Timing'
  BY DEF ClocksRight
<1>1. ~ Lost
  BY LostStays
<1>2. Timing /\ ~ Missing
  BY <1>1 DEF ClocksRight, Lost, Missing
<1>. QED
  BY <1>2, TimingNext

(* Nobody is ahead of the timer before process 0 has taken its unit along. *)
THEOREM TheClockIsGlobal == Spec => []GlobalTime
<1>1. Typed /\ ClocksRight /\ GivenBack => GlobalTime
  <2> SUFFICES ASSUME Typed, ClocksRight, GivenBack, ~ UnitLost, NEW p \in Processes, pc[p] # "unborn"
               PROVE  local_time[p] <= now
    BY DEF GlobalTime
  <2>1. ~ Lost
    BY DEF GivenBack, Lost, UnitLost
  <2>2. Clock(p) /\ now \in Nat
    BY <2>1 DEF ClocksRight, Timing, Typed, Types
  <2>3. CASE pc[p] = "gone"
    BY <2>2, <2>3 DEF Clock
  <2>4. CASE pc[p] # "gone"
    BY <2>2, <2>4 DEF Clock
  <2>. QED
    BY <2>3, <2>4
<1>2. Init => ClocksRight
  BY TimingInit DEF ClocksRight
<1>. QED
  BY <1>1, <1>2, TypedInit, TypedNext, OneUnitInit, OneUnitNext, ClocksRightNext,
     GivenBackInit, GivenBackNext, PTL DEF Spec
-----------------------------------------------------------------------------
(* The signal.  The end of the quantum of who has the CPU is as far away   *)
(* as it needs, to see that it runs before it is signalled: who was        *)
(* dispatched in its nap reads its state in the next tick only, and a      *)
(* quantum is two ticks at least.                                          *)
LoopPlaces == {"read", "nap", "sync", "ticked", "rest"}
Margin(p) ==
  IF seen[p] = "READY" /\ (pc[p] = "nap" \/ (pc[p] = "sync" /\ tpc = "sleep")) THEN 2
  ELSE IF seen[p] = "RUNNING" /\ ((pc[p] = "sync" /\ tpc = "timeout") \/ (pc[p] = "ticked" /\ got_sigusr1[p]))
  THEN 0 ELSE 1
Due(p)   == state[p] = "RUNNING" /\ pc[p] \in LoopPlaces => next_interrupt >= now + Margin(p)
NoneLeft == tpc \in {"start", "sleep", "timeout"} => \A p \in Processes : Leaving(p) => pc[p] = "gone"

Punctual == /\ \A p \in Processes : Fresh(p)
            /\ NoneLeft
            /\ Lost => tpc \in {"open", "end"}
            /\ ~ Lost => Timing /\ \A p \in Processes : Due(p)
Orderly  == inturn => Turned /\ Punctual

LEMMA OrderlyInit == Init => Orderly
<1> SUFFICES ASSUME Init, inturn PROVE Turned /\ Punctual
  BY DEF Orderly
<1>1. Turned /\ Timing /\ Typed
  BY InTurnInit, TimingInit, TypedInit DEF InTurn
<1>2. \A p \in Processes : state[p] = "READY" /\ ~ got_sigusr1[p] /\ pc[p] = "unborn"
  BY DEF Init
<1>3. tpc = "start"
  BY DEF Init
<1>4. \A p \in Processes : ~ Leaving(p)
  BY <1>1, <1>2 DEF Typed, Bursts
<1>. QED
  BY <1>1, <1>2, <1>3, <1>4 DEF Punctual, Fresh, Due, NoneLeft, Lost

LEMMA QuantumTwo ==
  ASSUME NEW p \in Processes
  PROVE  getQuantum(p) \in Int /\ getQuantum(p) >= 2
<1>1. PICK i \in 0 .. 2 : i = (IF p \in registered THEN Priority[p] ELSE 0)
  BY SchedulerAssumption
<1>2. Quantum[i] \in Nat \ {0, 1}
  BY SchedulerAssumption
<1>. QED
  BY <1>1, <1>2 DEF getQuantum

(* Who is due for a signal has seen that it runs. *)
LEMMA SeesItsSignal ==
  ASSUME Typed, Waiting, Turned, Timing, \A p \in Processes : Due(p), tpc = "timeout",
         NEW r \in Processes, running = r, now = next_interrupt
  PROVE  pc[r] = "sync" /\ seen[r] = "RUNNING" /\ state[r] = "RUNNING"
<1>1. /\ Clock(r) /\ Place(r) /\ Whose(r) /\ Due(r) /\ Waits(r) /\ now \in Nat
  BY DEF Typed, Types, Timing, Turned, Waiting
<1>2. pc[r] \in {"unborn", "sync", "gone"}
  BY <1>1 DEF Clock
<1>3. state[r] = "RUNNING"
  BY <1>1, <1>2 DEF Whose
<1>4. pc[r] = "sync"
  BY <1>1, <1>2, <1>3 DEF Whose, Waits
<1>5. seen[r] \in {"READY", "RUNNING"}
  BY <1>1, <1>3, <1>4 DEF Place, InLoop
<1>6. seen[r] # "READY"
  <2> SUFFICES ASSUME seen[r] = "READY" PROVE FALSE
    OBVIOUS
  <2>1. Margin(r) = 1
    BY <1>4 DEF Margin
  <2>2. next_interrupt >= now + 1
    BY <1>1, <1>3, <1>4, <2>1 DEF Due, LoopPlaces
  <2>. QED
    BY <1>1, <2>2
<1>. QED
  BY <1>3, <1>4, <1>5, <1>6

LEMMA FreshNext ==
  ASSUME Typed, Waiting, OneUnit, inturn, Turned, Punctual, [Next]_vars, NEW q \in Processes
  PROVE  Fresh(q)'
<1>0. Fresh(q)
  BY DEF Punctual
<1>1. ASSUME UNCHANGED <<got_sigusr1, pc, seen, state, next_interrupt, now>> PROVE Fresh(q)'
  BY <1>0, <1>1 DEF Fresh
<1>2. CASE UNCHANGED vars
  BY <1>1, <1>2 DEF vars, shared, own
<1>3. ASSUME NEW p \in Processes, Process(p), q # p PROVE Fresh(q)'
  <2>1. CASE Pop(p) \/ GoIdle(p) \/ PopNothing(p)
    <3>1. Only(p) /\ pc[p] \in Choosing
      BY <2>1, PopStep, GoIdleStep, PopNothingStep DEF Choosing
    <3>2. ~ got_sigusr1[q]
      BY <1>0, <3>1, Nobody DEF Fresh
    <3>. QED
      BY <1>3, <3>1, <3>2 DEF Only, Still, Fresh
  <2>2. CASE Push(p) \/ SetState(p) \/ Release(p) \/ Look(p) \/ scheduleNext(p) \/ quit(p) \/ StartTimer(p)
    <3>1. Only(p) /\ state'[q] = state[q] /\ UNCHANGED <<now, next_interrupt>>
      BY <1>3, <2>2, PushStep, SetStateStep, LookStep, quitStep, StartTimerStep
    <3>. QED
      BY <1>0, <1>3, <3>1 DEF Only, Still, Fresh
  <2>3. CASE ReadState(p) \/ EndNap(p) \/ PassWindow(p) \/ Rest(p) \/ EndRest(p) \/ EndBurst(p) \/ Interrupted(p) \/ Continue(p)
    <3>1. Only(p) /\ UNCHANGED <<state, now, next_interrupt>>
      BY <2>3, LoopStep, ReadStateStep, PassWindowStep, InterruptedStep, EndBurstStep
    <3>. QED
      BY <1>0, <1>3, <3>1 DEF Only, Still, Fresh
  <2>. QED
    BY <1>3, <2>1, <2>2, <2>3 DEF Process
<1>4. ASSUME Process(q) PROVE Fresh(q)'
  <2>1. CASE EndBurst(q) \/ Interrupted(q)
    BY <2>1, EndBurstStep, InterruptedStep DEF Fresh
  <2>2. CASE EndNap(q) \/ Rest(q) \/ EndRest(q) \/ Continue(q) \/ ReadState(q) \/ PassWindow(q)
    <3>1. got_sigusr1' = got_sigusr1 /\ (pc[q] # "ticked" \/ seen[q] = "READY" \/ ~ got_sigusr1[q])
      BY <2>2, LoopStep, ReadStateStep, PassWindowStep DEF Memory
    <3>. QED
      BY <1>0, <3>1 DEF Fresh
  <2>3. CASE Push(q) \/ SetState(q) \/ Release(q) \/ Look(q) \/ scheduleNext(q) \/ StartTimer(q)
    <3>1. got_sigusr1' = got_sigusr1 /\ pc[q] # "ticked"
      BY <2>3, PushStep, SetStateStep, LookStep, StartTimerStep DEF Memory
    <3>. QED
      BY <1>0, <3>1 DEF Fresh
  <2>4. CASE GoIdle(q) \/ Pop(q) \/ PopNothing(q) \/ quit(q)
    <3>1. got_sigusr1' = got_sigusr1 /\ pc[q] # "ticked"
      BY <2>4, GoIdleStep, PopStep, PopNothingStep, quitStep DEF Memory
    <3>. QED
      BY <1>0, <3>1 DEF Fresh
  <2>. QED
    BY <1>4, <2>1, <2>2, <2>3, <2>4 DEF Process
<1>5. CASE StartClock \/ Tick \/ OpenWindow \/ CloseWindow
  <2>1. /\ UNCHANGED <<got_sigusr1, pc, seen, state, next_interrupt>>
        /\ now' = now \/ pc[q] \in {"unborn", "sync", "gone"}
    BY <1>5, TimerStep DEF Memory, OneUnit
  <2>. QED
    BY <1>0, <2>1 DEF Fresh
<1>6. CASE handleTimeout
  <2>1. /\ tpc = "timeout" /\ UNCHANGED <<now, next_interrupt, state, seen>>
        /\ \/ UNCHANGED <<pc, got_sigusr1>>
           \/ running \in Processes /\ now = next_interrupt /\ Only(running)
    BY <1>6, handleTimeoutStep
  <2>2. CASE UNCHANGED <<pc, got_sigusr1>>
    BY <1>1, <2>1, <2>2
  <2>3. CASE ~ UNCHANGED <<pc, got_sigusr1>>
    <3>1. PICK r \in Processes : r = running
      BY <2>1, <2>3
    <3>2. now = next_interrupt /\ Only(r) /\ (pc[r] = "sync" => pc'[r] = "ticked")
      BY <1>6, <2>1, <2>3, <3>1, handleTimeoutStep
    <3>3. CASE q # r
      BY <1>0, <2>1, <3>2, <3>3 DEF Only, Still, Fresh
    <3>4. CASE q = r
      <4>1. Timing /\ \A p \in Processes : Due(p)
        BY <2>1 DEF Punctual
      <4>2. pc[r] = "sync" /\ seen[r] = "RUNNING" /\ state[r] = "RUNNING"
        BY <2>1, <3>1, <3>2, <4>1, SeesItsSignal
      <4>. QED
        BY <2>1, <3>2, <3>4, <4>2 DEF Fresh
    <3>. QED
      BY <3>3, <3>4
  <2>. QED
    BY <2>2, <2>3
<1>7. CASE forkProcess
  <2>1. PICK r \in Processes : r = forked
    BY <1>7, forkProcessStep
  <2>2. /\ Only(r) /\ pc[r] = "unborn" /\ UNCHANGED <<got_sigusr1, seen, state, next_interrupt, now>>
    BY <1>7, <2>1, forkProcessStep DEF Memory
  <2>. QED
    BY <1>0, <2>2 DEF Only, Still, Fresh
<1>8. CASE NextTick \/ LauncherEndNap \/ LauncherPassWindow \/ LauncherQuit
  BY <1>1, <1>8, LauncherStep DEF Memory
<1>. QED
  BY <1>2, <1>3, <1>4, <1>5, <1>6, <1>7, <1>8 DEF Next, Timer, Launcher

LEMMA NoneLeftNext ==
  ASSUME Typed, inturn, Turned, Punctual, ~ Lost, [Next]_vars
  PROVE  NoneLeft'
<1> SUFFICES ASSUME tpc' \in {"start", "sleep", "timeout"}, NEW q \in Processes, Leaving(q)' PROVE pc'[q] = "gone"
  BY DEF NoneLeft
<1>0. Clock(q) /\ NoneLeft
  BY DEF Punctual, Timing
<1>1. CASE UNCHANGED <<pc, burst_idx, burst_times, tpc>>
  BY <1>0, <1>1 DEF NoneLeft, Leaving
<1>2. CASE UNCHANGED vars
  BY <1>1, <1>2 DEF vars, shared, own, fixed, others
<1>3. ASSUME NEW p \in Processes, Process(p) PROVE pc'[q] = "gone"
  <2>1. Only(p) /\ World
    BY <1>3, PushStep, SetStateStep, LookStep, GoIdleStep, PopStep, PopNothingStep, quitStep, StartTimerStep,
       LoopStep, ReadStateStep, PassWindowStep, InterruptedStep, EndBurstStep DEF Process
  <2>2. CASE q # p
    BY <1>0, <2>1, <2>2 DEF Only, Still, World, NoneLeft, Leaving
  <2>3. CASE q = p /\ EndBurst(p)
    <3>1. pc[q] = "ticked"
      BY <2>3, EndBurstStep
    <3>. QED
      BY <1>0, <2>1, <3>1 DEF Clock, World
  <2>4. CASE q = p /\ ~ EndBurst(p)
    <3>1. UNCHANGED <<burst_idx, burst_times>> /\ pc[p] # "gone"
      <4>1. CASE Push(p) \/ SetState(p) \/ Release(p) \/ Look(p) \/ scheduleNext(p) \/ GoIdle(p) \/ Pop(p)
        BY <4>1, PushStep, SetStateStep, LookStep, GoIdleStep, PopStep DEF Memory
      <4>2. CASE PopNothing(p) \/ quit(p) \/ StartTimer(p)
        BY <4>2, PopNothingStep, quitStep, StartTimerStep DEF Memory
      <4>3. CASE EndNap(p) \/ Rest(p) \/ EndRest(p) \/ Continue(p) \/ ReadState(p) \/ PassWindow(p) \/ Interrupted(p)
        BY <4>3, LoopStep, ReadStateStep, PassWindowStep, InterruptedStep DEF Memory
      <4>. QED
        BY <1>3, <2>4, <4>1, <4>2, <4>3 DEF Process
    <3>. QED
      BY <1>0, <2>1, <2>4, <3>1 DEF World, NoneLeft, Leaving
  <2>. QED
    BY <2>2, <2>3, <2>4
<1>4. CASE StartClock \/ Tick \/ OpenWindow \/ CloseWindow
  <2>1. /\ UNCHANGED <<pc, burst_idx, burst_times>>
        /\ tpc \in {"start", "sleep"} \/ pc[q] \in {"unborn", "nap", "rest", "gone"}
    BY <1>4, TimerStep DEF Memory
  <2>2. Leaving(q)
    BY <2>1 DEF Leaving
  <2>3. CASE tpc \in {"start", "sleep"}
    BY <1>0, <2>1, <2>2, <2>3 DEF NoneLeft
  <2>4. CASE pc[q] \in {"unborn", "nap", "rest", "gone"}
    BY <2>1, <2>2, <2>4 DEF Typed, Bursts
  <2>. QED
    BY <2>1, <2>3, <2>4
<1>5. CASE handleTimeout
  BY <1>5, handleTimeoutStep
<1>6. CASE forkProcess
  <2>1. PICK r \in Processes : r = forked
    BY <1>6, forkProcessStep
  <2>2. Only(r) /\ Memory /\ pc[r] = "unborn" /\ tpc' = tpc
    BY <1>6, <2>1, forkProcessStep
  <2>3. Leaving(q)
    BY <2>2 DEF Memory, Leaving
  <2>. QED
    BY <1>0, <2>2, <2>3 DEF Only, Still, NoneLeft
<1>7. CASE NextTick \/ LauncherEndNap \/ LauncherPassWindow \/ LauncherQuit
  <2>1. UNCHANGED <<pc, burst_idx, burst_times>> /\ (tpc' = tpc \/ tpc' = "end")
    BY <1>7, LauncherStep DEF Memory
  <2>. QED
    BY <1>1, <2>1
<1>. QED
  BY <1>2, <1>3, <1>4, <1>5, <1>6, <1>7 DEF Next, Timer, Launcher

LEMMA DueNext ==
  ASSUME Typed, Waiting, OneUnit, inturn, Turned, Punctual, ~ Lost, [Next]_vars, NEW q \in Processes
  PROVE  Due(q)'
<1>0. /\ Due(q) /\ Clock(q) /\ Place(q) /\ Whose(q) /\ Fresh(q) /\ now \in Nat /\ next_interrupt \in Int
      /\ Margin(q) \in {0, 1, 2}
  BY DEF Punctual, Timing, Turned, Typed, Types, Margin
<1>1. CASE UNCHANGED <<got_sigusr1, pc, seen, state, next_interrupt, now, tpc>>
  BY <1>0, <1>1 DEF Due, Margin
<1>2. CASE UNCHANGED vars
  BY <1>1, <1>2 DEF vars, shared, own, others
<1>3. ASSUME NEW p \in Processes, Process(p), q # p PROVE Due(q)'
  <2>1. CASE Pop(p)
    <3>1. PICK h \in Processes : h = Head(queue)
      BY <2>1, PopStep
    <3>2. next_interrupt' = local_time[p] + getQuantum(h) /\ now' = now /\ pc[p] = "pop"
      BY <2>1, <3>1, PopStep
    <3>3. local_time[p] = now
      BY <3>2 DEF Punctual, Timing, Clock
    <3>4. next_interrupt' >= now' + 2 /\ next_interrupt' \in Int
      BY <1>0, <3>2, <3>3, QuantumTwo
    <3>5. Margin(q)' \in {0, 1, 2}
      BY DEF Margin
    <3>. QED
      BY <1>0, <3>2, <3>4, <3>5 DEF Due
  <2>2. CASE GoIdle(p) \/ PopNothing(p)
    <3>1. pc[p] \in Choosing /\ state' = state
      BY <2>2, GoIdleStep, PopNothingStep DEF Choosing
    <3>2. state'[q] # "RUNNING"
      BY <3>1, Nobody
    <3>. QED
      BY <3>2 DEF Due
  <2>3. CASE ~ (Pop(p) \/ GoIdle(p) \/ PopNothing(p))
    <3>1. Only(p) /\ state'[q] = state[q] /\ UNCHANGED <<now, next_interrupt, tpc>>
      <4>1. CASE Push(p) \/ SetState(p) \/ Release(p) \/ Look(p) \/ scheduleNext(p) \/ quit(p) \/ StartTimer(p)
        BY <1>3, <4>1, PushStep, SetStateStep, LookStep, quitStep, StartTimerStep DEF World
      <4>2. CASE ~ (Push(p) \/ SetState(p) \/ Release(p) \/ Look(p) \/ scheduleNext(p) \/ quit(p) \/ StartTimer(p))
        BY <1>3, <2>3, <4>2, LoopStep, ReadStateStep, PassWindowStep, InterruptedStep, EndBurstStep DEF Process, World
      <4>. QED
        BY <4>1, <4>2
    <3>. QED
      BY <1>0, <1>3, <3>1 DEF Only, Still, Due, Margin
  <2>. QED
    BY <2>1, <2>2, <2>3
<1>4. ASSUME Process(q) PROVE Due(q)'
  <2>1. CASE Push(q) \/ SetState(q) \/ Release(q) \/ scheduleNext(q) \/ quit(q) \/ StartTimer(q)
             \/ Interrupted(q) \/ EndBurst(q)
    <3>1. CASE Push(q) \/ SetState(q) \/ quit(q) \/ StartTimer(q) \/ Interrupted(q) \/ EndBurst(q)
      <4>1. pc'[q] \notin LoopPlaces
        BY <3>1, PushStep, SetStateStep, quitStep, StartTimerStep, InterruptedStep, EndBurstStep DEF LoopPlaces
      <4>. QED
        BY <4>1 DEF Due
    <3>2. CASE Release(q) \/ scheduleNext(q)
      <4>1. pc[q] \in {"release", "schedule"}
        BY <3>2 DEF Release, scheduleNext, Goto
      <4>2. pc'[q] \notin LoopPlaces
        BY <3>2, <4>1, LookStep DEF LoopPlaces
      <4>. QED
        BY <4>2 DEF Due
    <3>. QED
      BY <2>1, <3>1, <3>2
  <2>2. CASE Look(q)
    <3>1. pc[q] = "look" /\ state' = state
      BY <2>2, LookStep DEF Look, Goto
    <3>2. state[q] = "READY"
      BY <1>0, <3>1 DEF Place, Inside
    <3>. QED
      BY <3>1, <3>2 DEF Due
  <2>3. CASE GoIdle(q) \/ PopNothing(q)
    <3>1. pc[q] \in Choosing /\ state' = state
      BY <2>3, GoIdleStep, PopNothingStep DEF Choosing
    <3>2. state'[q] # "RUNNING"
      BY <3>1, Nobody
    <3>. QED
      BY <3>2 DEF Due
  <2>4. CASE Pop(q)
    <3>1. PICK h \in Processes : h = Head(queue)
      BY <2>4, PopStep
    <3>2. next_interrupt' = local_time[q] + getQuantum(h) /\ now' = now /\ pc[q] = "pop"
      BY <2>4, <3>1, PopStep
    <3>3. local_time[q] = now
      BY <1>0, <3>2 DEF Clock
    <3>4. next_interrupt' >= now' + 2 /\ next_interrupt' \in Int
      BY <1>0, <3>2, <3>3, QuantumTwo
    <3>5. Margin(q)' \in {0, 1, 2}
      BY DEF Margin
    <3>. QED
      BY <1>0, <3>2, <3>4, <3>5 DEF Due
  <2>5. CASE ReadState(q)
    <3>1. /\ pc[q] = "read" /\ pc'[q] = "nap" /\ seen'[q] = state[q]
          /\ UNCHANGED <<state, now, next_interrupt>>
      BY <2>5, ReadStateStep
    <3>. QED
      BY <1>0, <3>1 DEF Due, Margin, LoopPlaces
  <2>6. CASE PassWindow(q)
    <3>1. /\ pc[q] = "sync" /\ pc'[q] = "ticked" /\ sync = 0 /\ tpc' = tpc
          /\ UNCHANGED <<state, now, next_interrupt, seen, got_sigusr1>>
      BY <2>6, PassWindowStep DEF World
    <3>2. tpc \notin {"sleep", "timeout"}
      BY <3>1 DEF Lost
    <3>. QED
      BY <1>0, <3>1, <3>2 DEF Due, Margin, LoopPlaces
  <2>7. CASE EndNap(q) \/ Rest(q) \/ EndRest(q) \/ Continue(q)
    <3>1. /\ \/ pc[q] = "nap" /\ pc'[q] = "sync" /\ Between
             \/ pc[q] = "ticked" /\ pc'[q] = "rest" /\ seen[q] = "READY"
             \/ pc[q] = "rest" /\ pc'[q] = "read" /\ Between
             \/ pc[q] = "ticked" /\ pc'[q] = "read" /\ seen[q] # "READY" /\ ~ got_sigusr1[q]
          /\ UNCHANGED <<state, now, next_interrupt, seen, got_sigusr1, tpc>>
      BY <2>7, LoopStep DEF Memory, World
    <3>2. Between => tpc = "sleep"
      BY DEF Between, ClockStopped, Lost
    <3>. QED
      BY <1>0, <3>1, <3>2 DEF Due, Margin, LoopPlaces
  <2>. QED
    BY <1>4, <2>1, <2>2, <2>3, <2>4, <2>5, <2>6, <2>7 DEF Process
<1>5. CASE StartClock \/ Tick \/ OpenWindow \/ CloseWindow
  <2>1. /\ UNCHANGED <<got_sigusr1, pc, seen, state, next_interrupt>>
        /\ \/ tpc = "start" /\ tpc' = "sleep" /\ now' = now
           \/ tpc = "sleep" /\ tpc' = "timeout" /\ now' = now + 1 /\ pc[q] \in {"unborn", "sync", "gone"}
           \/ tpc = "open" /\ tpc' = "window" /\ now' = now
           \/ tpc = "window" /\ tpc' = "sleep" /\ now' = now /\ pc[q] \in {"unborn", "nap", "rest", "gone"}
    BY <1>5, TimerStep DEF Memory, OneUnit
  <2>2. CASE tpc = "sleep"
    <3>1. state[q] = "RUNNING" /\ pc[q] = "sync" => seen[q] \in {"READY", "RUNNING"}
      BY <1>0 DEF Place, InLoop
    <3>. QED
      BY <1>0, <2>1, <2>2, <3>1 DEF Due, Margin, LoopPlaces
  <2>3. CASE tpc # "sleep"
    BY <1>0, <2>1, <2>3 DEF Due, Margin, LoopPlaces, Clock
  <2>. QED
    BY <2>2, <2>3
<1>6. CASE handleTimeout
  <2>1. /\ tpc = "timeout" /\ tpc' = "open" /\ UNCHANGED <<now, next_interrupt, state, seen>>
    BY <1>6, handleTimeoutStep
  <2> SUFFICES ASSUME state[q] = "RUNNING", pc'[q] \in LoopPlaces PROVE next_interrupt >= now + Margin(q)'
    BY <2>1 DEF Due
  <2>2. running = q /\ q # -1
    BY <1>0, Constants DEF Whose
  <2>3. pc[q] = "sync"
    <3>1. pc[q] \in {"unborn", "sync", "gone"}
      BY <1>0, <2>1 DEF Clock
    <3>. QED
      BY <1>0, <3>1 DEF Whose, Waiting, Waits
  <2>4. next_interrupt >= now
    BY <1>0, <2>3 DEF Due, LoopPlaces
  <2>5. CASE now = next_interrupt
    <3>1. seen[q] = "RUNNING"
      BY <2>1, <2>2, <2>5, SeesItsSignal DEF Punctual
    <3>2. pc'[q] = "ticked" /\ got_sigusr1'[q]
      BY <1>0, <1>6, <2>2, <2>3, <2>4, <2>5, handleTimeoutStep
    <3>3. Margin(q)' = 0
      BY <2>1, <3>1, <3>2 DEF Margin
    <3>. QED
      BY <1>0, <2>5, <3>3
  <2>6. CASE now # next_interrupt
    <3>1. UNCHANGED <<pc, got_sigusr1>>
      BY <1>6, <2>6, handleTimeoutStep
    <3>2. Margin(q)' = 1
      BY <2>1, <2>3, <3>1 DEF Margin
    <3>. QED
      BY <1>0, <2>4, <2>6, <3>2
  <2>. QED
    BY <2>5, <2>6
<1>7. CASE forkProcess
  <2>1. PICK r \in Processes : r = forked
    BY <1>7, forkProcessStep
  <2>2. /\ Only(r) /\ pc'[r] \notin LoopPlaces
        /\ UNCHANGED <<got_sigusr1, seen, state, next_interrupt, now, tpc>>
    BY <1>7, <2>1, forkProcessStep DEF Memory, LoopPlaces
  <2>3. CASE q = r
    BY <2>2, <2>3 DEF Due
  <2>4. CASE q # r
    BY <1>0, <2>2, <2>4 DEF Only, Still, Due, Margin
  <2>. QED
    BY <2>3, <2>4
<1>8. CASE NextTick \/ LauncherEndNap \/ LauncherPassWindow \/ LauncherQuit
  <2>1. /\ UNCHANGED <<got_sigusr1, pc, seen, state, next_interrupt, now>>
        /\ tpc' = tpc \/ pc[q] = "gone"
    BY <1>8, LauncherStep DEF Memory
  <2>. QED
    BY <1>0, <2>1 DEF Due, Margin, LoopPlaces
<1>. QED
  BY <1>2, <1>3, <1>4, <1>5, <1>6, <1>7, <1>8 DEF Next, Timer, Launcher

(* In turn the unit is lost in the window's wake only: when process 0 ends *)
(* after the clock has been advanced, and the timer waits for sync.        *)
LEMMA LostNext ==
  ASSUME Typed, OneUnit, inturn, Turned, Punctual, [Next]_vars, Lost'
  PROVE  tpc' \in {"open", "end"}
<1>0. (Lost => tpc \in {"open", "end"}) /\ NoneLeft
  BY DEF Punctual
<1>1. ASSUME UNCHANGED <<sync, tpc>> PROVE tpc' \in {"open", "end"}
  BY <1>0, <1>1 DEF Lost
<1>2. CASE UNCHANGED vars
  BY <1>1, <1>2 DEF vars, shared, others
<1>3. ASSUME NEW p \in Processes, Process(p) PROVE tpc' \in {"open", "end"}
  <2>1. CASE StartTimer(p)
    BY <2>1, StartTimerStep DEF OneUnit, World, Lost
  <2>2. CASE quit(p)
    <3>1. pc[p] = "quit" /\ tpc' = tpc /\ (sync' = sync \/ (p = 0 /\ sync > 0 /\ sync' = sync - 1))
      BY <2>2, quitStep DEF World
    <3>2. CASE sync' = sync
      BY <1>1, <3>1, <3>2
    <3>3. CASE sync' # sync
      <4>1. Leaving(p)
        BY <3>1 DEF Typed, Bursts
      <4>2. tpc \notin {"start", "sleep", "timeout"}
        BY <1>0, <3>1, <4>1 DEF NoneLeft
      <4>. QED
        BY <3>1, <4>2 DEF Lost
    <3>. QED
      BY <3>2, <3>3
  <2>3. CASE PopNothing(p)
    <3>1. pc[p] = "pop" /\ queue = <<>>
      BY <2>3, PopNothingStep
    <3>. QED
      BY <3>1 DEF Turned, Place, Inside, Choosing
  <2>4. CASE Push(p) \/ SetState(p) \/ Release(p) \/ Look(p) \/ scheduleNext(p) \/ GoIdle(p) \/ Pop(p)
    <3>1. UNCHANGED <<tpc, sync>>
      BY <2>4, PushStep, SetStateStep, LookStep, GoIdleStep, PopStep DEF World
    <3>. QED
      BY <1>1, <3>1
  <2>5. CASE \/ EndNap(p) \/ Rest(p) \/ EndRest(p) \/ Continue(p) \/ ReadState(p) \/ PassWindow(p)
             \/ Interrupted(p) \/ EndBurst(p)
    <3>1. UNCHANGED <<tpc, sync>>
      BY <2>5, LoopStep, ReadStateStep, PassWindowStep, InterruptedStep, EndBurstStep DEF World
    <3>. QED
      BY <1>1, <3>1
  <2>. QED
    BY <1>3, <2>1, <2>2, <2>3, <2>4, <2>5 DEF Process
<1>4. CASE Timer
  <2>0. sync \in Nat
    BY DEF Typed, Types
  <2>1. CASE handleTimeout
    BY <2>1, handleTimeoutStep
  <2>2. CASE StartClock \/ Tick \/ OpenWindow \/ CloseWindow
    <3>1. \/ tpc = "start" /\ sync > 0 /\ sync' = sync
          \/ tpc = "sleep" /\ sync' = sync
          \/ tpc' = "window"
          \/ sync' = sync + 1
      BY <2>2, TimerStep
    <3>. QED
      BY <1>0, <2>0, <3>1 DEF Lost
  <2>. QED
    BY <1>4, <2>1, <2>2 DEF Timer
<1>5. CASE Launcher
  BY <1>0, <1>5, forkProcessStep, LauncherStep DEF Launcher, Lost
<1>. QED
  BY <1>2, <1>3, <1>4, <1>5 DEF Next

LEMMA WorkloadKept == Typed /\ [Next]_vars => UNCHANGED <<inturn, burst_times>>
<1>1. ASSUME UNCHANGED fixed PROVE UNCHANGED <<inturn, burst_times>>
  BY <1>1 DEF fixed
<1>2. UNCHANGED vars => UNCHANGED fixed
  BY DEF vars, own
<1>3. ASSUME Typed, NEW p \in Processes, Process(p) PROVE UNCHANGED <<inturn, burst_times>>
  BY <1>3, PushStep, SetStateStep, LookStep, GoIdleStep, PopStep, PopNothingStep, quitStep, StartTimerStep,
     LoopStep, ReadStateStep, PassWindowStep, InterruptedStep, EndBurstStep DEF Process, Only
<1>4. ASSUME Typed, Timer PROVE UNCHANGED <<inturn, burst_times>>
  BY <1>4, TimerStep, handleTimeoutStep DEF Timer, Memory
<1>5. ASSUME Typed, Launcher PROVE UNCHANGED <<inturn, burst_times>>
  BY <1>5, forkProcessStep, LauncherStep DEF Launcher, Memory
<1>. QED
  BY <1>1, <1>2, <1>3, <1>4, <1>5 DEF Next

LEMMA OrderlyNext == Typed /\ Waiting /\ OneUnit /\ Orderly /\ [Next]_vars => Orderly'
<1> SUFFICES ASSUME Typed, Waiting, OneUnit, Orderly, [Next]_vars, inturn' PROVE Turned' /\ Punctual'
  BY DEF Orderly
<1>1. inturn /\ Turned /\ Punctual
  BY WorkloadKept DEF Orderly
<1>2. Turned'
  BY <1>1, InTurnNext DEF Punctual
<1>3. \A p \in Processes : Fresh(p)'
  BY <1>1, FreshNext
<1>4. CASE Lost
  <2>1. Lost' /\ tpc' \in {"open", "end"}
    BY <1>1, <1>4, LostStays, LostNext
  <2>. QED
    BY <1>2, <1>3, <2>1 DEF Punctual, NoneLeft
<1>5. CASE ~ Lost
  <2>1. ~ Missing /\ Timing
    BY <1>1, <1>5 DEF Punctual, Lost, Missing
  <2>2. Timing' /\ NoneLeft' /\ \A p \in Processes : Due(p)'
    BY <1>1, <1>5, <2>1, TimingNext, NoneLeftNext, DueNext
  <2>3. Lost' => tpc' \in {"open", "end"}
    BY <1>1, LostNext
  <2>. QED
    BY <1>2, <1>3, <2>2, <2>3 DEF Punctual
<1>. QED
  BY <1>4, <1>5

(* When the work of each tick is done in turn, the word of the timer names *)
(* the one process in state RUNNING, as manager.c says, outside its work.  *)
THEOREM TheTimerNamesTheRunner == Spec => []OneRunner
<1>1. Typed /\ Waiting /\ Orderly => OneRunner
  <2> SUFFICES ASSUME Typed, Waiting, Orderly, inturn, Settled, NEW p \in Processes
               PROVE  state[p] = "RUNNING" <=> running = p
    BY DEF OneRunner, TimerNamesRunner
  <2>1. Whose(p)
    BY DEF Orderly, Turned
  <2>2. pc[p] \in {"unborn", "signal", "push", "nap", "rest", "read", "sync", "gone"}
    BY DEF Settled
  <2>. QED
    BY <2>1, <2>2 DEF Whose
<1>. QED
  BY <1>1, TypedInit, TypedNext, WaitingInit, WaitingNext, OneUnitInit, OneUnitNext, OrderlyInit, OrderlyNext,
     PTL DEF Spec

(* In turn, whoever is ready is in the queue, once, and the CPU is not     *)
(* idle beside a queue that is not empty.                                  *)
THEOREM WhoIsReadyIsQueued == Spec => []ReadyIsQueued
<1>1. Typed /\ Waiting /\ Orderly => ReadyIsQueued
  <2> SUFFICES ASSUME Typed, Waiting, Orderly, inturn, Settled PROVE ReadyIsQueued
    BY DEF ReadyIsQueued
  <2>1. Turned
    BY DEF Orderly
  <2>2. \A p \in Processes : pc[p] \in {"unborn", "signal", "push", "nap", "rest", "read", "sync", "gone"}
    BY DEF Settled
  <2>3. Queued = Who(queue)
    BY DEF Queued, Who
  <2>4. ASSUME NEW p \in Processes PROVE (p \in registered /\ state[p] = "READY") <=> p \in Who(queue)
    <3>1. Whose(p) /\ Waits(p) /\ Place(p)
      BY <2>1 DEF Turned, Waiting
    <3>2. pc[p] \in {"unborn", "signal", "push", "nap", "rest", "read", "sync", "gone"}
      BY <2>2
    <3>3. p \in Who(queue) => pc[p] \notin {"unborn", "signal", "push", "pcb"} /\ state[p] = "READY"
      BY <3>1, <3>2 DEF Waits, OutOfQueue
    <3>. QED
      BY <3>1, <3>2, <3>3 DEF Whose, Place
  <2>5. Cardinality(Who(queue)) = Len(queue)
    BY AsManyAsQueued
  <2>6. running = -1 => queue = <<>>
    BY <2>1, <2>2 DEF Turned, SomebodyLooks, Looking
  <2>. QED
    BY <2>3, <2>4, <2>5, <2>6 DEF ReadyIsQueued
<1>. QED
  BY <1>1, TypedInit, TypedNext, WaitingInit, WaitingNext, OneUnitInit, OneUnitNext, OrderlyInit, OrderlyNext,
     PTL DEF Spec

(* In turn, a signal not yet handled belongs to the process that has the   *)
(* CPU, and to the tick that ends its quantum.                             *)
THEOREM TheSignalIsFresh == Spec => []SignalIsFresh
<1>1. Typed /\ Orderly => SignalIsFresh
  <2> SUFFICES ASSUME Typed, Orderly, NEW p \in Processes, inturn, got_sigusr1[p]
               PROVE  running = p /\ now = next_interrupt /\ state[p] = "RUNNING"
    BY DEF SignalIsFresh
  <2>1. Whose(p) /\ Fresh(p)
    BY DEF Orderly, Turned, Punctual
  <2>. QED
    BY <2>1 DEF Whose, Fresh
<1>. QED
  BY <1>1, TypedInit, TypedNext, WaitingInit, WaitingNext, OneUnitInit, OneUnitNext, OrderlyInit, OrderlyNext,
     PTL DEF Spec
-----------------------------------------------------------------------------
(* The round robin.  Who is to go back into the queue, because of the      *)
(* signal, does so in the tick that ends its quantum.                      *)
Overdue(p) == pc[p] \in {"preempt", "requeue"} => next_interrupt = now
InTime     == inturn => \A p \in Processes : Overdue(p)

LEMMA OverdueNext ==
  ASSUME Typed, OneUnit, inturn, Turned, Punctual, [Next]_vars, NEW q \in Processes, Overdue(q)
  PROVE  Overdue(q)'
<1>1. ASSUME UNCHANGED <<next_interrupt, now>>, pc'[q] = pc[q] PROVE Overdue(q)'
  BY <1>1 DEF Overdue
<1>2. CASE UNCHANGED vars
  BY <1>1, <1>2 DEF vars, shared
<1>3. ASSUME NEW p \in Processes, Process(p), q # p PROVE Overdue(q)'
  <2>1. CASE Pop(p) \/ GoIdle(p) \/ PopNothing(p)
    <3>1. Only(p) /\ pc[p] \in WorkPlaces
      BY <2>1, PopStep, GoIdleStep, PopNothingStep DEF WorkPlaces
    <3>2. pc[q] \notin WorkPlaces
      BY <1>3, <3>1 DEF Turned, Alone
    <3>. QED
      BY <1>3, <3>1, <3>2 DEF Only, Still, Overdue, WorkPlaces
  <2>2. CASE Push(p) \/ SetState(p) \/ Release(p) \/ Look(p) \/ scheduleNext(p) \/ quit(p) \/ StartTimer(p)
    <3>1. Only(p) /\ UNCHANGED <<now, next_interrupt>>
      BY <2>2, PushStep, SetStateStep, LookStep, quitStep, StartTimerStep
    <3>. QED
      BY <1>1, <1>3, <3>1 DEF Only, Still
  <2>3. CASE ReadState(p) \/ EndNap(p) \/ PassWindow(p) \/ Rest(p) \/ EndRest(p) \/ EndBurst(p) \/ Interrupted(p) \/ Continue(p)
    <3>1. Only(p) /\ UNCHANGED <<now, next_interrupt>>
      BY <2>3, LoopStep, ReadStateStep, PassWindowStep, InterruptedStep, EndBurstStep
    <3>. QED
      BY <1>1, <1>3, <3>1 DEF Only, Still
  <2>. QED
    BY <1>3, <2>1, <2>2, <2>3 DEF Process
<1>4. ASSUME Process(q) PROVE Overdue(q)'
  <2>1. CASE Interrupted(q)
    <3>1. got_sigusr1[q] /\ UNCHANGED <<now, next_interrupt>>
      BY <2>1, InterruptedStep
    <3>. QED
      BY <3>1 DEF Punctual, Fresh, Overdue
  <2>2. CASE SetState(q)
    BY <2>2, SetStateStep DEF Overdue
  <2>3. CASE Push(q) \/ Release(q) \/ Look(q) \/ scheduleNext(q) \/ quit(q) \/ StartTimer(q)
    BY <2>3, PushStep, LookStep, quitStep, StartTimerStep DEF Overdue
  <2>4. CASE GoIdle(q) \/ Pop(q) \/ PopNothing(q)
    BY <2>4, GoIdleStep, PopStep, PopNothingStep DEF Overdue
  <2>5. CASE EndNap(q) \/ Rest(q) \/ EndRest(q) \/ Continue(q) \/ ReadState(q) \/ PassWindow(q) \/ EndBurst(q)
    BY <2>5, LoopStep, ReadStateStep, PassWindowStep, EndBurstStep DEF Overdue
  <2>. QED
    BY <1>4, <2>1, <2>2, <2>3, <2>4, <2>5 DEF Process
<1>5. CASE StartClock \/ Tick \/ OpenWindow \/ CloseWindow
  <2>1. UNCHANGED <<pc, next_interrupt>> /\ (now' = now \/ pc[q] \in {"unborn", "sync", "gone"})
    BY <1>5, TimerStep DEF OneUnit
  <2>. QED
    BY <1>1, <2>1 DEF Overdue
<1>6. CASE handleTimeout
  <2>1. /\ UNCHANGED <<now, next_interrupt>>
        /\ \/ UNCHANGED pc
           \/ running \in Processes /\ Only(running) /\ pc'[running] = "ticked"
    BY <1>6, handleTimeoutStep
  <2>. QED
    BY <1>1, <2>1 DEF Only, Still, Overdue
<1>7. CASE forkProcess
  <2>1. PICK r \in Processes : r = forked
    BY <1>7, forkProcessStep
  <2>2. Only(r) /\ pc'[r] \in {"signal", "push"} /\ UNCHANGED <<next_interrupt, now>>
    BY <1>7, <2>1, forkProcessStep
  <2>. QED
    BY <1>1, <2>2 DEF Only, Still, Overdue
<1>8. CASE NextTick \/ LauncherEndNap \/ LauncherPassWindow \/ LauncherQuit
  BY <1>1, <1>8, LauncherStep
<1>. QED
  BY <1>2, <1>3, <1>4, <1>5, <1>6, <1>7, <1>8 DEF Next, Timer, Launcher

LEMMA InTimeInit == Init => InTime
BY DEF Init, InTime, Overdue

LEMMA InTimeNext == Typed /\ OneUnit /\ Orderly /\ InTime /\ [Next]_vars => InTime'
<1> SUFFICES ASSUME Typed, OneUnit, Orderly, InTime, [Next]_vars, inturn', NEW q \in Processes PROVE Overdue(q)'
  BY DEF InTime
<1>1. inturn
  BY WorkloadKept
<1>. QED
  BY <1>1, OverdueNext DEF Orderly, InTime

(* The state of the round robin, as the step uses it. *)
Until   == IF Holder = -1 THEN 0 ELSE next_interrupt
InIo(p) == state[p] = "IO" /\ p # running /\ p \notin Queued
Io      == {p \in Processes : InIo(p)}
NotYet  == {"unborn", "signal", "push"}
Unborn  == {p \in Processes : pc[p] \in NotYet}

LEMMA RobinRests ==
  ASSUME UNCHANGED <<now, queue, Holder, Until, Io, Unborn>>
  PROVE  UNCHANGED Robin!vars
BY DEF Robin!vars, Until, Io, InIo, Unborn, NotYet

LEMMA RobinArrives ==
  ASSUME NEW p \in Processes, p \in Unborn, Unborn' = Unborn \ {p}, queue' = Append(queue, p),
         UNCHANGED <<now, Holder, Until, Io>>
  PROVE  Robin!Next
BY DEF Robin!Next, Robin!Arrive, Until, Io, InIo, Unborn, NotYet

LEMMA RobinReturns ==
  ASSUME NEW p \in Processes, p \in Io, Io' = Io \ {p}, queue' = Append(queue, p),
         UNCHANGED <<now, Holder, Until, Unborn>>
  PROVE  Robin!Next
BY DEF Robin!Next, Robin!IoDone, Until, Io, InIo, Unborn, NotYet

LEMMA RobinDispatches ==
  ASSUME Holder = -1, queue # <<>>, Holder' = Head(queue), queue' = Tail(queue), Holder' # -1,
         next_interrupt' = now + Quantum[Priority[Head(queue)]], Head(queue) \in Processes,
         UNCHANGED <<now, Io, Unborn>>
  PROVE  Robin!Next
<1>1. Until' = next_interrupt'
  BY DEF Until
<1>2. Until' = now + [p \in Processes |-> Quantum[Priority[p]]][Holder']
  BY <1>1
<1>. QED
  BY <1>2 DEF Robin!Next, Robin!Dispatch, Until, Io, InIo, Unborn, NotYet

LEMMA RobinFrees ==
  ASSUME Holder # -1, Holder' = -1, UNCHANGED <<now, Unborn>>,
         \/ Io' = Io \cup {Holder} /\ queue' = queue
         \/ UNCHANGED <<Io, queue>>
         \/ now = next_interrupt /\ queue' = Append(queue, Holder) /\ Io' = Io
  PROVE  Robin!Next
<1>1. Until' = 0 /\ Until = next_interrupt
  BY DEF Until
<1>. QED
  BY <1>1 DEF Robin!Next, Robin!FreeCpu, Robin!Block, Robin!Exit, Robin!Preempt, Until, Io, InIo, Unborn, NotYet

LEMMA RobinTicks ==
  ASSUME now' = now + 1, UNCHANGED <<queue, Holder, Until, Io, Unborn>>,
         Holder = -1 => queue = <<>>, Holder # -1 => now < next_interrupt
  PROVE  Robin!Next
<1>1. IF Holder = -1 THEN queue = <<>> ELSE now < Until
  BY DEF Until
<1>. QED
  BY <1>1 DEF Robin!Next, Robin!Tick, Until, Io, InIo, Unborn, NotYet

LEMMA UnbornKept ==
  ASSUME NEW p \in Processes, Only(p), pc[p] \in NotYet <=> pc'[p] \in NotYet
  PROVE  Unborn' = Unborn
<1>1. \A q \in Processes : pc[q] \in NotYet <=> pc'[q] \in NotYet
  BY DEF Only, Still
<1>. QED
  BY <1>1 DEF Unborn

(* A step that leaves the CPU and the queue alone. *)
LEMMA RobinSame ==
  ASSUME UNCHANGED <<now, queue, running, next_interrupt, Unborn>>,
         \A q \in Processes : InIo(q)' <=> InIo(q)
  PROVE  UNCHANGED Robin!vars
<1>1. Io' = Io
  BY DEF Io
<1>2. Holder' = Holder
  BY DEF Holder, Queued
<1>. QED
  BY <1>1, <1>2, RobinRests DEF Until

RobinStep == Robin!Next \/ UNCHANGED Robin!vars

(* The holder of the CPU has it in the table, or is about to give it up. *)
LEMMA HolderOf ==
  ASSUME Typed, Waiting, Turned
  PROVE  /\ Holder # -1 => /\ Holder \in Processes /\ running = Holder /\ Holder \notin Queued
                           /\ state[Holder] = "RUNNING" \/ pc[Holder] \in {"requeue", "release"}
         /\ Queued = Who(queue)
<1>1. Queued = Who(queue)
  BY DEF Queued, Who
<1>2. ASSUME Holder # -1
      PROVE  /\ Holder \in Processes /\ running = Holder /\ Holder \notin Queued
             /\ state[Holder] = "RUNNING" \/ pc[Holder] \in {"requeue", "release"}
  <2>1. running # -1 /\ running \notin Queued /\ Holder = running
    BY <1>2 DEF Holder
  <2>2. running \in Processes
    BY <2>1 DEF Typed, Types
  <2>. QED
    BY <1>1, <2>1, <2>2 DEF Turned, Whose
<1>. QED
  BY <1>1, <1>2

LEMMA PushRobin == ASSUME Typed, Waiting, Turned, NEW p \in Processes, Overdue(p), Push(p) PROVE Robin!Next
<1>1. /\ Only(p)
      /\ \/ pc[p] = "push" /\ pc'[p] = "pcb"
         \/ pc[p] = "enqueue" /\ pc'[p] = "ready"
         \/ pc[p] = "requeue" /\ pc'[p] = "schedule"
      /\ queue' = queuePush(queue, p) /\ UNCHANGED <<now, running, next_interrupt, state>>
  BY PushStep
<1>2. Waits(p) /\ Whose(p) /\ Place(p)
  BY DEF Waiting, Turned
<1>3. p \notin Who(queue)
  BY <1>1, <1>2 DEF Waits, OutOfQueue
<1>4. queue' = Append(queue, p)
  BY <1>1, <1>3, AsManyAsQueued DEF queuePush
<1>5. Queued' = Queued \cup {p} /\ Queued = Who(queue)
  <2>1. Who(Append(queue, p)) = Who(queue) \cup {p}
    BY <1>3, InQueue, Pushed DEF Waiting
  <2>2. Queued = Who(queue) /\ Queued' = Who(queue')
    BY DEF Queued, Who
  <2>. QED
    BY <1>4, <2>1, <2>2
<1>6. \A q \in Processes : q # p => (InIo(q)' <=> InIo(q))
  BY <1>1, <1>5 DEF InIo
<1>7. ~ InIo(p)' /\ p # -1
  BY <1>5, Constants DEF InIo
<1>8. CASE pc[p] = "push"
  <2>1. state[p] = "READY" /\ running # p
    BY <1>2, <1>8 DEF Waits, Whose, WorkPlaces
  <2>2. Holder' = Holder
    BY <1>1, <1>5, <2>1 DEF Holder
  <2>3. Io' = Io
    BY <1>6, <1>7, <2>1 DEF Io, InIo
  <2>4. p \in Unborn /\ Unborn' = Unborn \ {p}
    BY <1>1, <1>8 DEF Only, Still, Unborn, NotYet
  <2>. QED
    BY <1>1, <1>4, <2>2, <2>3, <2>4, RobinArrives DEF Until
<1>9. CASE pc[p] = "enqueue"
  <2>1. state[p] = "IO" /\ running # p
    BY <1>2, <1>9 DEF Place, Inside, Whose
  <2>2. Holder' = Holder
    BY <1>1, <1>5, <2>1 DEF Holder
  <2>3. p \in Io /\ Io' = Io \ {p}
    <3>1. InIo(p)
      BY <1>3, <1>5, <2>1 DEF InIo
    <3>. QED
      BY <1>6, <1>7, <3>1 DEF Io
  <2>4. Unborn' = Unborn
    BY <1>1, <1>9, UnbornKept DEF NotYet
  <2>. QED
    BY <1>1, <1>4, <2>2, <2>3, <2>4, RobinReturns DEF Until
<1>10. CASE pc[p] = "requeue"
  <2>1. state[p] = "READY" /\ running = p /\ now = next_interrupt
    BY <1>2, <1>10 DEF Waits, Place, Inside, Overdue
  <2>2. Holder = p /\ Holder' = -1
    BY <1>1, <1>3, <1>5, <1>7, <2>1 DEF Holder
  <2>3. Io' = Io
    BY <1>6, <1>7, <2>1 DEF Io, InIo
  <2>4. Unborn' = Unborn
    BY <1>1, <1>10, UnbornKept DEF NotYet
  <2>. QED
    BY <1>1, <1>4, <1>7, <2>1, <2>2, <2>3, <2>4, RobinFrees
<1>. QED
  BY <1>1, <1>8, <1>9, <1>10

LEMMA SetStateRobin ==
  ASSUME Typed, Waiting, Turned, NEW p \in Processes, SetState(p)
  PROVE  UNCHANGED Robin!vars
<1>1. /\ Only(p) /\ UNCHANGED <<now, queue, running, next_interrupt>>
      /\ \/ pc[p] = "pcb" /\ pc'[p] = "look" /\ state'[p] = "READY"
         \/ pc[p] = "ready" /\ pc'[p] = "look" /\ state'[p] = "READY"
         \/ pc[p] = "preempt" /\ pc'[p] = "requeue" /\ state'[p] = "READY"
         \/ pc[p] = "block" /\ pc'[p] = "release" /\ state'[p] = "IO"
         \/ pc[p] = "exit" /\ pc'[p] = "release" /\ state'[p] = "EXITED"
      /\ \A q \in Processes : q # p => state'[q] = state[q]
  BY SetStateStep
<1>2. Unborn' = Unborn
  BY <1>1, UnbornKept DEF NotYet
<1>3. Queued' = Queued /\ Queued = Who(queue)
  BY <1>1 DEF Queued, Who
<1>4. Place(p) /\ Whose(p)
  BY DEF Turned
<1>5. ~ InIo(p)
  BY <1>1, <1>3, <1>4 DEF InIo, Place, Inside
<1>6. ~ InIo(p)'
  <2>1. pc[p] = "block" => running = p
    BY <1>4 DEF Place, Inside, Whose
  <2>. QED
    BY <1>1, <2>1 DEF InIo
<1>7. \A q \in Processes : InIo(q)' <=> InIo(q)
  BY <1>1, <1>3, <1>5, <1>6 DEF InIo
<1>. QED
  BY <1>1, <1>2, <1>7, RobinSame

LEMMA LookRobin ==
  ASSUME Typed, Waiting, Turned, NEW p \in Processes, Release(p) \/ Look(p) \/ scheduleNext(p)
  PROVE  RobinStep
<1>1. /\ Only(p) /\ UNCHANGED <<now, next_interrupt, queue, state>>
      /\ \/ pc[p] = "release" /\ pc'[p] = "schedule" /\ running' = -1
         \/ pc[p] \in {"look", "schedule"} /\ pc'[p] \in {"schedule", "read", "idle", "pop"} /\ running' = running
  BY LookStep
<1>2. Unborn' = Unborn
  BY <1>1, UnbornKept DEF NotYet
<1>3. Queued' = Queued /\ Queued = Who(queue)
  BY <1>1 DEF Queued, Who
<1>4. CASE running' = running
  <2>1. \A q \in Processes : InIo(q)' <=> InIo(q)
    BY <1>1, <1>3, <1>4 DEF InIo
  <2>. QED
    BY <1>1, <1>2, <1>4, <2>1, RobinSame DEF RobinStep
<1>5. CASE running' # running
  <2>1. Place(p) /\ Waits(p) /\ p # -1 /\ pc[p] = "release" /\ running' = -1
    BY <1>1, <1>5, Constants DEF Turned, Waiting
  <2>2. running = p /\ p \notin Queued /\ state[p] \in {"IO", "EXITED"}
    BY <1>3, <2>1 DEF Place, Inside, Waits, OutOfQueue
  <2>3. Holder = p /\ Holder' = -1
    BY <2>1, <2>2 DEF Holder
  <2>4. \A q \in Processes : q # p => (InIo(q)' <=> InIo(q))
    BY <1>1, <1>3, <2>1, <2>2, Constants DEF InIo
  <2>5. ~ InIo(p) /\ (InIo(p)' <=> state[p] = "IO")
    BY <1>1, <1>3, <2>1, <2>2 DEF InIo
  <2>6. Io' = Io \/ Io' = Io \cup {p}
    BY <2>4, <2>5 DEF Io
  <2>. QED
    BY <1>1, <1>2, <2>1, <2>3, <2>6, RobinFrees DEF RobinStep
<1>. QED
  BY <1>4, <1>5

LEMMA PopRobin ==
  ASSUME Typed, Waiting, Turned, Timing, NEW p \in Processes, Pop(p)
  PROVE  Robin!Next
<1>1. PICK h \in Processes : h = Head(queue)
  BY PopStep
<1>2. /\ Only(p) /\ pc[p] = "pop" /\ pc'[p] \in {"quit", "read"}
      /\ queue # <<>> /\ queue' = Tail(queue) /\ running' = h /\ state'[h] = "RUNNING"
      /\ \A q \in Processes : q # h => state'[q] = state[q]
      /\ next_interrupt' = local_time[p] + getQuantum(h) /\ now' = now
  BY <1>1, PopStep
<1>3. /\ queue \in Seq(Processes) /\ h \in Who(queue) /\ Who(Tail(queue)) = Who(queue) \ {h}
  BY <1>1, <1>2, InQueue, Popped DEF Waiting
<1>4. Queued = Who(queue) /\ Queued' = Who(queue) \ {h}
  <2>1. Queued = Who(queue) /\ Queued' = Who(queue')
    BY DEF Queued, Who
  <2>. QED
    BY <1>2, <1>3, <2>1
<1>5. Place(p) /\ Whose(p) /\ Waits(h) /\ Place(h) /\ Clock(p)
  BY DEF Turned, Waiting, Timing
<1>6. running \in {-1, p} /\ (running = p => p \in Queued)
  <2>1. running \in {-1, p} /\ state[p] # "RUNNING"
    BY <1>2, <1>5 DEF Place, Inside, Choosing
  <2>. QED
    BY <1>2, <1>4, <1>5, <2>1 DEF Whose
<1>7. Holder = -1 /\ Holder' = h /\ h # -1
  <2>1. Holder = -1
    BY <1>6 DEF Holder
  <2>2. h # -1
    BY Constants
  <2>. QED
    BY <1>2, <1>4, <2>1, <2>2 DEF Holder
<1>8. h \in registered
  <2>1. pc[h] # "pcb"
    BY <1>2 DEF Turned, Alone, WorkPlaces
  <2>2. pc[h] \notin {"unborn", "signal", "push"}
    BY <1>3, <1>5 DEF Waits, OutOfQueue
  <2>. QED
    BY <1>5, <2>1, <2>2 DEF Place
<1>9. next_interrupt' = now + Quantum[Priority[h]]
  <2>1. local_time[p] = now
    BY <1>2, <1>5 DEF Clock
  <2>. QED
    BY <1>2, <1>8, <2>1 DEF getQuantum
<1>10. Io' = Io
  <2>1. ~ InIo(h) /\ ~ InIo(h)'
    BY <1>2, <1>3, <1>4 DEF InIo
  <2>2. ASSUME NEW q \in Processes, q # h PROVE InIo(q)' <=> InIo(q)
    <3>1. q # running'
      BY <1>2, <2>2
    <3>2. q = running => q \in Queued
      BY <1>6, <2>2, Constants
    <3>3. q \in Queued' <=> q \in Queued
      BY <1>4, <2>2
    <3>. QED
      BY <1>2, <2>2, <3>1, <3>2, <3>3 DEF InIo
  <2>3. \A q \in Processes : InIo(q)' <=> InIo(q)
    BY <2>1, <2>2
  <2>. QED
    BY <2>3 DEF Io
<1>11. Unborn' = Unborn
  BY <1>2, UnbornKept DEF NotYet
<1>. QED
  BY <1>1, <1>2, <1>7, <1>9, <1>10, <1>11, RobinDispatches

LEMMA GoIdleRobin ==
  ASSUME Typed, Turned, NEW p \in Processes, GoIdle(p)
  PROVE  UNCHANGED Robin!vars
<1>1. /\ Only(p) /\ pc[p] = "idle" /\ pc'[p] \in {"quit", "read"} /\ running' = -1
      /\ UNCHANGED <<now, queue, state>>
  BY GoIdleStep
<1>2. running = -1
  BY <1>1 DEF Turned, Place, Inside, Choosing
<1>3. Unborn' = Unborn
  BY <1>1, UnbornKept DEF NotYet
<1>4. Holder = -1 /\ Holder' = -1
  BY <1>1, <1>2 DEF Holder
<1>5. Io' = Io
  BY <1>1, <1>2 DEF Io, InIo, Queued
<1>. QED
  BY <1>1, <1>3, <1>4, <1>5, RobinRests DEF Until

(* A step of one process that leaves the shared memory alone. *)
LEMMA QuietRobin ==
  ASSUME NEW p \in Processes, Only(p), pc[p] \in NotYet <=> pc'[p] \in NotYet,
         UNCHANGED <<now, queue, running, next_interrupt, state>>
  PROVE  UNCHANGED Robin!vars
<1>1. Unborn' = Unborn
  BY UnbornKept
<1>2. \A q \in Processes : InIo(q)' <=> InIo(q)
  BY DEF InIo, Queued
<1>. QED
  BY <1>1, <1>2, RobinSame

LEMMA ProcessRobin ==
  ASSUME Typed, Waiting, Turned, Timing, NEW p \in Processes, Overdue(p), Process(p)
  PROVE  RobinStep
<1>1. CASE Push(p) \/ SetState(p) \/ Release(p) \/ Look(p) \/ scheduleNext(p) \/ GoIdle(p) \/ Pop(p)
  BY <1>1, PushRobin, SetStateRobin, LookRobin, GoIdleRobin, PopRobin DEF RobinStep
<1>2. CASE PopNothing(p)
  <2>1. pc[p] = "pop" /\ queue = <<>>
    BY <1>2, PopNothingStep
  <2>. QED
    BY <2>1 DEF Turned, Place, Inside, Choosing
<1>3. CASE quit(p) \/ StartTimer(p) \/ EndNap(p) \/ Rest(p) \/ EndRest(p) \/ Continue(p)
  <2>1. /\ Only(p) /\ UNCHANGED <<now, queue, running, next_interrupt, state>>
        /\ pc[p] \in NotYet <=> pc'[p] \in NotYet
    BY <1>3, quitStep, StartTimerStep, LoopStep DEF NotYet
  <2>. QED
    BY <2>1, QuietRobin DEF RobinStep
<1>4. CASE ReadState(p) \/ PassWindow(p) \/ Interrupted(p) \/ EndBurst(p)
  <2>1. /\ Only(p) /\ UNCHANGED <<now, queue, running, next_interrupt, state>>
        /\ pc[p] \in NotYet <=> pc'[p] \in NotYet
    BY <1>4, ReadStateStep, PassWindowStep, InterruptedStep, EndBurstStep DEF NotYet
  <2>. QED
    BY <2>1, QuietRobin DEF RobinStep
<1>. QED
  BY <1>1, <1>2, <1>3, <1>4 DEF Process

LEMMA TickRobin ==
  ASSUME Typed, Waiting, Turned, Punctual, ~ Missing, Tick
  PROVE  Robin!Next
<1>1. /\ UNCHANGED <<running, next_interrupt, queue, state, pc>> /\ tpc = "sleep" /\ now' = now + 1
      /\ \A p \in Processes : pc[p] \in {"unborn", "sync", "gone"}
  BY TimerStep DEF Tick
<1>2. UNCHANGED <<Holder, Until, Io, Unborn>>
  <2>1. Queued' = Queued
    BY <1>1 DEF Queued
  <2>. QED
    BY <1>1, <2>1 DEF Holder, Until, Io, InIo, Unborn
<1>3. ASSUME Holder = -1 PROVE queue = <<>>
  <2>1. \A p \in Processes : pc[p] \notin Looking
    BY <1>1 DEF Looking
  <2>2. running \notin Queued
    <3> SUFFICES ASSUME running \in Queued PROVE FALSE
      OBVIOUS
    <3>1. PICK r \in Processes : r = running
      BY HolderOf, InQueue
    <3>2. r \in Who(queue) /\ Whose(r) /\ Waits(r)
      BY <3>1, HolderOf DEF Turned, Waiting
    <3>. QED
      BY <1>1, <3>1, <3>2 DEF Whose, Waits
  <2>3. running = -1
    BY <1>3, <2>2 DEF Holder
  <2>. QED
    BY <2>1, <2>3 DEF Turned, SomebodyLooks
<1>4. ASSUME Holder # -1 PROVE now < next_interrupt
  <2>1. PICK r \in Processes : r = Holder
    BY <1>4, HolderOf
  <2>2. running = r /\ state[r] = "RUNNING"
    BY <1>1, <1>4, <2>1, HolderOf
  <2>3. pc[r] = "sync"
    <3>1. Whose(r) /\ Waits(r)
      BY DEF Turned, Waiting
    <3>. QED
      BY <1>1, <2>2, <3>1 DEF Whose, Waits
  <2>4. Due(r) /\ now \in Nat /\ next_interrupt \in Int
    BY <1>1 DEF Punctual, Lost, Missing, Typed, Types
  <2>5. Margin(r) \in {1, 2}
    BY <1>1, <2>3 DEF Margin
  <2>. QED
    BY <2>2, <2>3, <2>4, <2>5 DEF Due, LoopPlaces
<1>. QED
  BY <1>1, <1>2, <1>3, <1>4, RobinTicks

LEMMA TimerRobin ==
  ASSUME Typed, Waiting, OneUnit, Turned, Punctual, ~ Missing, Timer
  PROVE  RobinStep
<1>1. CASE Tick
  BY <1>1, TickRobin DEF RobinStep
<1>2. CASE StartClock \/ OpenWindow \/ CloseWindow
  <2>1. UNCHANGED <<running, next_interrupt, queue, state, pc>>
    BY <1>2, TimerStep
  <2>2. now' = now
    BY <1>2 DEF StartClock, OpenWindow, CloseWindow, OneUnit
  <2>3. Unborn' = Unborn /\ \A q \in Processes : InIo(q)' <=> InIo(q)
    BY <2>1 DEF Unborn, InIo, Queued
  <2>. QED
    BY <2>1, <2>2, <2>3, RobinSame DEF RobinStep
<1>3. CASE handleTimeout
  <2>1. UNCHANGED <<now, running, next_interrupt, queue, state>>
    BY <1>3, handleTimeoutStep
  <2>2. CASE pc' = pc
    <3>1. Unborn' = Unborn /\ \A q \in Processes : InIo(q)' <=> InIo(q)
      BY <2>1, <2>2 DEF Unborn, InIo, Queued
    <3>. QED
      BY <2>1, <3>1, RobinSame DEF RobinStep
  <2>3. CASE pc' # pc
    <3>1. PICK r \in Processes : r = running
      BY <1>3, <2>3, handleTimeoutStep
    <3>2. Only(r) /\ pc[r] = "sync" /\ pc'[r] = "ticked"
      BY <1>3, <2>3, <3>1, handleTimeoutStep
    <3>. QED
      BY <2>1, <3>2, QuietRobin DEF NotYet, RobinStep
  <2>. QED
    BY <2>2, <2>3
<1>. QED
  BY <1>1, <1>2, <1>3 DEF Timer

LEMMA LauncherRobin == ASSUME Typed, Launcher PROVE UNCHANGED Robin!vars
<1>1. CASE forkProcess
  <2>1. PICK r \in Processes : r = forked
    BY <1>1, forkProcessStep
  <2>2. /\ Only(r) /\ pc[r] = "unborn" /\ pc'[r] \in {"signal", "push"}
        /\ UNCHANGED <<now, running, next_interrupt, queue, state>>
    BY <1>1, <2>1, forkProcessStep
  <2>. QED
    BY <2>2, QuietRobin DEF NotYet
<1>2. CASE NextTick \/ LauncherEndNap \/ LauncherPassWindow \/ LauncherQuit
  <2>1. UNCHANGED <<now, running, next_interrupt, queue, state, pc>>
    BY <1>2, LauncherStep
  <2>2. Unborn' = Unborn /\ \A q \in Processes : InIo(q)' <=> InIo(q)
    BY <2>1 DEF Unborn, InIo, Queued
  <2>. QED
    BY <2>1, <2>2, RobinSame
<1>. QED
  BY <1>1, <1>2 DEF Launcher

LEMMA RobinInit == Init => Robin!Init
<1> SUFFICES ASSUME Init PROVE Robin!Init
  OBVIOUS
<1>1. now = 0 /\ queue = <<>> /\ running = -1
  BY DEF Init
<1>2. \A p \in Processes : state[p] = "READY" /\ pc[p] = "unborn"
  BY DEF Init
<1>3. Holder = -1
  BY <1>1 DEF Holder
<1>. QED
  BY <1>1, <1>2, <1>3 DEF Robin!Init

LEMMA RobinNext ==
  ASSUME Typed, Waiting, OneUnit, Orderly, InTime, Timing, ~ Missing, [Next]_vars, inturn
  PROVE  RobinStep
<1>1. Turned /\ Punctual /\ \A p \in Processes : Overdue(p)
  BY DEF Orderly, InTime
<1>2. CASE UNCHANGED vars
  <2>1. UNCHANGED <<now, running, next_interrupt, queue, state, pc>>
    BY <1>2 DEF vars, shared
  <2>2. Unborn' = Unborn /\ \A q \in Processes : InIo(q)' <=> InIo(q)
    BY <2>1 DEF Unborn, InIo, Queued
  <2>. QED
    BY <2>1, <2>2, RobinSame DEF RobinStep
<1>3. ASSUME NEW p \in Processes, Process(p) PROVE RobinStep
  BY <1>1, <1>3, ProcessRobin
<1>4. CASE Timer
  BY <1>1, <1>4, TimerRobin
<1>5. CASE Launcher
  BY <1>5, LauncherRobin DEF RobinStep
<1>. QED
  BY <1>2, <1>3, <1>4, <1>5 DEF Next

(* Until the unit of sync is lost, the processes that schedule one another *)
(* in turn are a round robin with one CPU: first come, first served, each  *)
(* for its quantum at most, and no idle tick while somebody is ready.      *)
THEOREM TheProcessesAreARoundRobin == Spec => Refines
<1>1. Init => (inturn => Robin!Init)
  BY RobinInit
<1>2. Typed /\ Waiting /\ OneUnit /\ Orderly /\ InTime /\ ClocksRight /\ GivenBack /\ [Next]_vars
      => [inturn /\ ~ UnitLost => Robin!Next]_(Robin!vars)
  <2> SUFFICES ASSUME Typed, Waiting, OneUnit, Orderly, InTime, ClocksRight, GivenBack, [Next]_vars,
                      inturn, ~ UnitLost
               PROVE  RobinStep
    BY DEF RobinStep
  <2>1. ~ Lost
    BY DEF GivenBack, Lost, UnitLost
  <2>2. Timing /\ ~ Missing
    BY <2>1 DEF ClocksRight, Lost, Missing
  <2>. QED
    BY <2>2, RobinNext
<1>3. Init => ClocksRight
  BY TimingInit DEF ClocksRight
<1>. QED
  BY <1>1, <1>2, <1>3, TypedInit, TypedNext, WaitingInit, WaitingNext, OneUnitInit, OneUnitNext, OrderlyInit, OrderlyNext,
     InTimeInit, InTimeNext, ClocksRightNext, GivenBackInit, GivenBackNext, PTL DEF Spec, Refines
=============================================================================
