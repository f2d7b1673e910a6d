------------------------------ MODULE Booking -------------------------------
(***************************************************************************)
(* Lab 2 ("2 Lab"): a booking agent and its customers, processes that talk *)
(* by SIGUSR1, SIGUSR2 and one file.  The agent calls the first of its     *)
(* queue with SIGUSR1; the customer writes a request and answers with      *)
(* SIGUSR1, or leaves with SIGUSR2; the agent grants it with SIGUSR1 or    *)
(* refuses it with SIGUSR2.  SIGUSR1 means two things to a customer, and   *)
(* its flag tells which.                                                   *)
(*                                                                         *)
(* A signal is a pending bit; a handler masks its own signal only.  A step *)
(* is a signal sent, with the reads and writes since the last one.  Prompt *)
(* is the assumption without which neither side can work: who has sent a   *)
(* signal gets to its pause, and sets its flag, before the answer comes,   *)
(* and the agent's sleep(1) outlasts the customer's handler.               *)
(***************************************************************************)
EXTENDS Integers, Sequences

CONSTANTS n,         \* the number of customers
          Tickets,   \* how many there are to sell
          Prompt

Customers == 1 .. n
NOBODY    == 0

ASSUME BookingAssumption == n \in Nat /\ Tickets \in Nat /\ Prompt \in BOOLEAN

VARIABLES t, q_id,                    \* the agent: tickets left, the queue, ...
          apc, customer_id,           \* ... its place, whom it answers ...
          agent1, agent2,             \* ... and its pending signals
          file,                       \* require.txt: a customer and a number
          cpc, flag, successful_req,  \* of each customer
          sigusr1, sigusr2,           \* customers with that signal pending
          granted                     \* history: how often each was granted

agent       == <<t, q_id, apc, customer_id, granted>>
customer    == <<file, cpc, flag, successful_req>>
bookingVars == <<agent, customer, agent1, agent2, sigusr1, sigusr2>>

Orders == {q \in [1 .. n -> Customers] : \A i, j \in 1 .. n : q[i] = q[j] => i = j}

(* The customers are started, and the queue is shuffled.                   *)
BookingInit ==
  /\ t = Tickets /\ q_id \in Orders
  /\ apc = "loop" /\ customer_id = NOBODY
  /\ agent1 = FALSE /\ agent2 = FALSE
  /\ file = <<NOBODY, 0>>
  /\ cpc = [c \in Customers |-> "pause"] /\ flag = [c \in Customers |-> 0]
  /\ successful_req = [c \in Customers |-> 0]
  /\ sigusr1 = {} /\ sigusr2 = {}
  /\ granted = [c \in Customers |-> 0]
-----------------------------------------------------------------------------
Call == /\ apc = "loop" /\ q_id # <<>> /\ t # 0
        /\ sigusr1' = sigusr1 \cup {Head(q_id)}
        /\ q_id' = Tail(q_id)
        /\ apc' = "called"
        /\ UNCHANGED <<t, customer_id, granted, customer, agent1, agent2, sigusr2>>

Pause == /\ apc = "called" /\ apc' = "pause"
         /\ UNCHANGED <<t, q_id, customer_id, granted, customer, agent1, agent2, sigusr1, sigusr2>>

(* A handler ends pause, but not a pause that is still to come.            *)
Woken(place) == apc = place /\ (place = "pause" \/ (place = "called" /\ ~ Prompt))

handleSigUsr1 ==
  /\ agent1 /\ agent1' = FALSE
  /\ \E place \in {"pause", "called"} :
       /\ Woken(place)
       /\ apc' = IF place = "pause" THEN "push" ELSE "pushcalled"
  /\ customer_id' = file[1]
  /\ IF file[2] <= t
     THEN /\ t' = t - file[2]
          /\ sigusr1' = sigusr1 \cup {file[1]} /\ UNCHANGED sigusr2
          /\ granted' = [granted EXCEPT ![file[1]] = @ + 1]
     ELSE sigusr2' = sigusr2 \cup {file[1]} /\ UNCHANGED <<t, sigusr1, granted>>
  /\ UNCHANGED <<q_id, customer, agent2>>

(* Mutants, here and below: a plausible bug in the definition that follows. *)
PushFront ==                                               \* not at the end
  /\ apc \in {"push", "pushcalled"}
  /\ Prompt => cpc[customer_id] = "pause" /\ customer_id \notin sigusr1 \cup sigusr2
  /\ q_id' = <<customer_id>> \o q_id
  /\ apc' = IF apc = "push" THEN "loop" ELSE "called"
  /\ UNCHANGED <<t, customer_id, granted, customer, agent1, agent2, sigusr1, sigusr2>>

(* After sleep(1).                                                         *)
PushBack ==
  /\ apc \in {"push", "pushcalled"}
  /\ Prompt => cpc[customer_id] = "pause" /\ customer_id \notin sigusr1 \cup sigusr2
  /\ q_id' = Append(q_id, customer_id)
  /\ apc' = IF apc = "push" THEN "loop" ELSE "called"
  /\ UNCHANGED <<t, customer_id, granted, customer, agent1, agent2, sigusr1, sigusr2>>

handleSigUsr2 ==
  /\ agent2 /\ agent2' = FALSE
  /\ \E place \in {"pause", "called"} :
       Woken(place) /\ apc' = IF place = "pause" THEN "loop" ELSE "called"
  /\ UNCHANGED <<t, q_id, customer_id, granted, customer, agent1, sigusr1, sigusr2>>

End == /\ apc = "loop" /\ (q_id = <<>> \/ t = 0) /\ apc' = "end"
       /\ UNCHANGED <<t, q_id, customer_id, granted, customer, agent1, agent2, sigusr1, sigusr2>>

Agent == Call \/ Pause \/ handleSigUsr1 \/ PushBack \/ handleSigUsr2 \/ End
-----------------------------------------------------------------------------
Take(c) == c \in sigusr1 /\ cpc[c] = "pause" /\ sigusr1' = sigusr1 \ {c}

(* First part: a request, and after the first booking, maybe, one for no   *)
(* tickets.  The flag is set when the agent has been signalled.            *)
Request(c) ==
  /\ Take(c) /\ flag[c] = 0 /\ successful_req[c] <= 1
  /\ \E r \in IF successful_req[c] = 0 THEN 1 .. 4 ELSE {0} : file' = <<c, r>>
  /\ agent1' = TRUE
  /\ cpc' = [cpc EXCEPT ![c] = "flag"]
  /\ UNCHANGED <<agent, agent2, flag, successful_req, sigusr2>>

SetFlag(c) ==
  /\ cpc[c] = "flag"
  /\ cpc' = [cpc EXCEPT ![c] = "pause"] /\ flag' = [flag EXCEPT ![c] = 1]
  /\ UNCHANGED <<agent, agent1, agent2, file, successful_req, sigusr1, sigusr2>>

Leave(c) ==
  /\ Take(c) /\ flag[c] = 0 /\ successful_req[c] >= 1
  /\ agent2' = TRUE
  /\ cpc' = [cpc EXCEPT ![c] = "gone"]
  /\ UNCHANGED <<agent, agent1, file, flag, successful_req, sigusr2>>

BookedKeepingFlag(c) ==                                    \* flag stays 1
  /\ Take(c) /\ flag[c] = 1
  /\ successful_req' = [successful_req EXCEPT ![c] = @ + 1]
  /\ UNCHANGED <<agent, agent1, agent2, file, cpc, flag, sigusr2>>

(* Second part: granted.                                                   *)
Booked(c) ==
  /\ Take(c) /\ flag[c] = 1
  /\ successful_req' = [successful_req EXCEPT ![c] = @ + 1]
  /\ flag' = [flag EXCEPT ![c] = 0]
  /\ UNCHANGED <<agent, agent1, agent2, file, cpc, sigusr2>>

(* Refused: this handler may also run inside the other, before its flag.   *)
Refused(c) ==
  /\ c \in sigusr2 /\ sigusr2' = sigusr2 \ {c}
  /\ cpc[c] = "pause" \/ (cpc[c] = "flag" /\ ~ Prompt)
  /\ flag' = [flag EXCEPT ![c] = 0]
  /\ UNCHANGED <<agent, agent1, agent2, file, cpc, successful_req, sigusr1>>

Customer(c) == Request(c) \/ SetFlag(c) \/ Leave(c) \/ Booked(c) \/ Refused(c)

BookingNext == Agent \/ \E c \in Customers : Customer(c)

BookingSpec == BookingInit /\ [][BookingNext]_bookingVars

BookingFairSpec == BookingSpec /\ WF_bookingVars(Agent) /\ \A c \in Customers : WF_bookingVars(Customer(c))
-----------------------------------------------------------------------------
BookingTypeOK ==
  /\ t \in 0 .. Tickets /\ q_id \in Seq(Customers)
  /\ apc \in {"loop", "called", "pause", "push", "pushcalled", "end"}
  /\ customer_id \in Customers \cup {NOBODY}
  /\ agent1 \in BOOLEAN /\ agent2 \in BOOLEAN
  /\ file \in (Customers \cup {NOBODY}) \X (0 .. 4)
  /\ cpc \in [Customers -> {"pause", "flag", "gone"}]
  /\ flag \in [Customers -> {0, 1}] /\ successful_req \in [Customers -> Nat]
  /\ sigusr1 \subseteq Customers /\ sigusr2 \subseteq Customers
  /\ granted \in [Customers -> Nat]

(* Both sides agree: when the agent is about to call the next, every       *)
(* customer counts the bookings that it was granted and waits for a call,  *)
(* not for an answer, and the queue holds once each that has not left.     *)
BothAgree ==
  apc = "loop" =>
    /\ \A c \in Customers : successful_req[c] = granted[c] /\ flag[c] = 0
    /\ \A i, j \in 1 .. Len(q_id) : q_id[i] = q_id[j] => i = j
    /\ {q_id[i] : i \in 1 .. Len(q_id)} = {c \in Customers : cpc[c] # "gone"}

(* agent.cpp:133 waits without a limit: still who is in the queue is       *)
(* called, unless the session is over before.                              *)
EverybodyIsCalled ==
  \A c \in Customers : (\E i \in 1 .. Len(q_id) : q_id[i] = c)
                         ~> (c \in sigusr1 \/ apc = "end")
=============================================================================
