------------------------------- MODULE RunDfa --------------------------------
(***************************************************************************)
(* Lab 3 ("3 Lab", rundfa.cpp): a finite automaton, each state a process.  *)
(* The coordinator has a pipe to every state, and they have one to it; the *)
(* states write to one another as well.  TRANSITION makes a state the      *)
(* current one: it tells the coordinator its number, gets the next symbol  *)
(* and passes TRANSITION on.                                               *)
(*                                                                         *)
(* A step is a read and the writes up to the next read.  The coordinator   *)
(* reads the terminal and its pipe through the same stdin buffer: what is  *)
(* left of a line is in typed, what is left of a read of the pipe in       *)
(* inbuf.  scanf("%d") takes the number at the head of it, also one that   *)
(* was typed ahead; it consumes nothing if there is none.                  *)
(***************************************************************************)
EXTENDS Integers, Sequences

CONSTANTS n, Symbols, delta, Final,
          Numerals, value,   \* numbers a user may type, and what they are
          Lines,       \* what a user may type: the words of a line
          MaxWords     \* bound: how many words the coordinator reads

States == 0 .. n - 1
TRANSITION == ">"
EOI        == "$"
QUIT       == "!"
INVALID    == -1                              \* '#', in pipe_c: not a number

(* What may be typed, and sent to a state; "?" is any character that       *)
(* rundfa.cpp has no name for.  The digits of a number are one letter: the *)
(* first of them ends the word.                                            *)
Letters == Symbols \cup Numerals \cup {TRANSITION, EOI, QUIT, "?"}

ASSUME RunDfaAssumption ==
  /\ n \in Nat \ {0} /\ MaxWords \in Nat
  /\ (Symbols \cup Numerals) \cap {TRANSITION, EOI, QUIT, "?"} = {}
  /\ Symbols \cap Numerals = {} /\ value \in [Numerals -> Int]
  /\ delta \in [States -> [Symbols -> States]] /\ Final \subseteq States
  /\ Lines \subseteq Seq(Seq(Letters) \ {<<>>}) \ {<<>>}

VARIABLES cpc, word, cur_idx, cur_state, typed, inbuf,   \* the coordinator
          k,                                             \* its handler
          pc,                                            \* of each state
          pipe_c, pipe_s,
          screen,      \* history: what a state has told the user last
          words,       \* history: how many words were read
          spoilt       \* history: '#' or '!' was sent, or words typed ahead

input == <<word, cur_idx, cur_state, typed, inbuf, words>>
vars  == <<cpc, input, k, pc, pipe_c, pipe_s, screen, spoilt>>

(* init and initCommunication: every state has its row of the table.       *)
Init == /\ cpc = "prompt" /\ word = <<>> /\ cur_idx = 0 /\ cur_state = 0
        /\ typed = <<>> /\ inbuf = <<>> /\ k = 0
        /\ pc = [i \in States |-> "loop"]
        /\ pipe_c = <<>> /\ pipe_s = [i \in States |-> <<>>]
        /\ screen = <<0, "START">> /\ words = 0 /\ spoilt = FALSE

Write(i, m) == pipe_s' = [pipe_s EXCEPT ![i] = Append(@, m)]
-----------------------------------------------------------------------------
(* scanf("%s"): the rest of a line; a '#' with whatever number follows it; *)
(* or what the user types, with each '#' that is left before it.           *)
TypedAhead == /\ typed # <<>>
              /\ word' = Head(typed) /\ typed' = Tail(typed)
              /\ UNCHANGED <<inbuf, spoilt>>

LeftInBuffer ==
  \E i \in 1 .. Len(inbuf) :
    /\ inbuf[i] # INVALID /\ \A j \in 1 .. i - 1 : inbuf[j] = INVALID
    /\ word' = <<"?">> /\ inbuf' = SubSeq(inbuf, i + 1, Len(inbuf))
    /\ UNCHANGED <<typed, spoilt>>

Line ==
  /\ typed = <<>> /\ \A i \in 1 .. Len(inbuf) : inbuf[i] = INVALID
  /\ \E line \in Lines :
       /\ word' = IF inbuf = <<>> THEN Head(line) ELSE <<"?">>
       /\ typed' = Tail(line)
       /\ spoilt' = (spoilt \/ typed' # <<>>)
  /\ inbuf' = <<>>

ReadWord ==
  /\ cpc = "prompt" /\ words < MaxWords
  /\ TypedAhead \/ LeftInBuffer \/ Line
  /\ words' = words + 1 /\ cur_idx' = 0 /\ cur_state' = 0
  /\ Write(0, TRANSITION)
  /\ cpc' = "read"
  /\ UNCHANGED <<k, pc, pipe_c, screen>>

(* scanf("%d"), from the rest of the line, which may begin with a number;  *)
(* from the buffer; or else from all that is in the pipe.                  *)
ScanState ==
  LET got == IF inbuf = <<>> THEN pipe_c ELSE inbuf
  IN  \/ /\ typed # <<>> /\ Head(Head(typed)) \in Numerals
         /\ LET rest == Tail(Head(typed))
            IN  typed' = (IF rest = <<>> THEN <<>> ELSE <<rest>>) \o Tail(typed)
         /\ cur_state' = value[Head(Head(typed))]
         /\ UNCHANGED <<inbuf, pipe_c>>
      \/ /\ typed # <<>> /\ Head(Head(typed)) \notin Numerals
         /\ UNCHANGED <<cur_state, typed, inbuf, pipe_c>>
      \/ /\ typed = <<>> /\ UNCHANGED typed /\ got # <<>>
         /\ pipe_c' = IF inbuf = <<>> THEN <<>> ELSE pipe_c
         /\ IF Head(got) = INVALID THEN inbuf' = got /\ UNCHANGED cur_state
            ELSE inbuf' = Tail(got) /\ cur_state' = Head(got)

symbol == IF cur_idx = Len(word) THEN EOI ELSE word[cur_idx + 1]

(* To state q's pipe; pipe_s[q] of a q that is no state is whatever lies   *)
(* there: nobody reads the symbol, or it gets to a state after all.        *)
SendTo(q) == \/ q \in States /\ Write(q, symbol)
             \/ q \notin States /\ (UNCHANGED pipe_s \/ \E i \in States : Write(i, symbol))

(* Mutants, here and below: a plausible bug in the definition that follows. *)
SendSymbolFirst ==                                         \* sends, then scans
  /\ cpc = "read"
  /\ ScanState
  /\ SendTo(cur_state)
  /\ IF symbol \in Symbols THEN cur_idx' = cur_idx + 1 /\ UNCHANGED cpc
                           ELSE cpc' = "prompt" /\ UNCHANGED cur_idx
  /\ spoilt' = (spoilt \/ symbol = QUIT)
  /\ UNCHANGED <<word, words, k, pc, screen>>

SendSymbol ==
  /\ cpc = "read"
  /\ ScanState
  /\ SendTo(cur_state')
  /\ IF symbol \in Symbols THEN cur_idx' = cur_idx + 1 /\ UNCHANGED cpc
                           ELSE cpc' = "prompt" /\ UNCHANGED cur_idx
  /\ spoilt' = (spoilt \/ symbol = QUIT)
  /\ UNCHANGED <<word, words, k, pc, screen>>

(* Or the coordinator does not survive the look at pipe_s[cur_state].      *)
Crash ==
  /\ cpc = "read"
  /\ ScanState /\ cur_state' \notin States
  /\ cpc' = "crash"
  /\ UNCHANGED <<word, cur_idx, words, k, pc, pipe_s, screen, spoilt>>

(* SIGINT, at any time; then the states are ended one after the other.     *)
handleInterrupt ==
  /\ cpc \in {"prompt", "read"} /\ cpc' = "interrupt"
  /\ UNCHANGED <<input, k, pc, pipe_c, pipe_s, screen, spoilt>>

SendQuit ==
  /\ cpc = "interrupt" /\ k < n /\ cpc' = "waitpid"
  /\ Write(k, QUIT)
  /\ UNCHANGED <<input, k, pc, pipe_c, screen, spoilt>>

Reap ==
  /\ cpc = "waitpid" /\ pc[k] = "dead"
  /\ k' = k + 1 /\ cpc' = IF k' = n THEN "end" ELSE "interrupt"
  /\ UNCHANGED <<input, pc, pipe_c, pipe_s, screen, spoilt>>
-----------------------------------------------------------------------------
Receive(i, m) == /\ pipe_s[i] # <<>> /\ m = Head(pipe_s[i])
                 /\ pipe_s' = [pipe_s EXCEPT ![i] = Tail(@)]

quitInLoop(i) == /\ \E m \in {QUIT} : Receive(i, m)        \* not for a symbol
                 /\ pc[i] = "loop"
                 /\ pc' = [j \in States |-> IF j <= i THEN "dead" ELSE pc[j]]
                 /\ UNCHANGED <<cpc, input, k, pipe_c, screen, spoilt>>

(* quit in a state: it kills those that were forked before it, also when   *)
(* the '!' was typed by the user and not sent by the handler.              *)
quit(i) == /\ \E m \in {QUIT} : Receive(i, m)
           /\ pc[i] # "dead"
           /\ pc' = [j \in States |-> IF j <= i THEN "dead" ELSE pc[j]]
           /\ UNCHANGED <<cpc, input, k, pipe_c, screen, spoilt>>

Announce(i) == /\ pc[i] = "loop" /\ Receive(i, TRANSITION)
               /\ pc' = [pc EXCEPT ![i] = "reply"]
               /\ pipe_c' = Append(pipe_c, i)
               /\ UNCHANGED <<cpc, input, k, screen, spoilt>>

Ignore(i) == /\ pc[i] = "loop"
             /\ \E m \in Letters \ {TRANSITION, QUIT} : Receive(i, m)
             /\ UNCHANGED <<cpc, input, k, pc, pipe_c, screen, spoilt>>

Verdict(i) == IF i \in Final THEN "ACCEPT" ELSE "REJECT"

Answer(i) == /\ pc[i] = "reply" /\ Receive(i, EOI)
             /\ pc' = [pc EXCEPT ![i] = "loop"]
             /\ screen' = <<i, Verdict(i)>>
             /\ UNCHANGED <<cpc, input, k, pipe_c, spoilt>>

(* TRANSITION is no symbol either, when it is typed or comes instead of    *)
(* one.                                                                    *)
Complain(i) == /\ pc[i] = "reply"
               /\ \E m \in Letters \ (Symbols \cup {EOI, QUIT}) : Receive(i, m)
               /\ pc' = [pc EXCEPT ![i] = "loop"]
               /\ screen' = <<i, "INVALID">>
               /\ pipe_c' = Append(pipe_c, INVALID) /\ spoilt' = TRUE
               /\ UNCHANGED <<cpc, input, k>>

PassToOthers(i) ==                                         \* nothing to itself
  /\ pc[i] = "reply" /\ pipe_s[i] # <<>>
  /\ LET m == Head(pipe_s[i])
     IN  /\ m \in Symbols
         /\ pipe_s' = [j \in States |-> IF j = i THEN Tail(pipe_s[i])
                                        ELSE IF j = delta[i][m] THEN Append(pipe_s[j], TRANSITION)
                                        ELSE pipe_s[j]]
  /\ pc' = [pc EXCEPT ![i] = "loop"]
  /\ UNCHANGED <<cpc, input, k, pipe_c, screen, spoilt>>

(* The read of this pipe and the write to another, perhaps to the same.    *)
Pass(i) == /\ pc[i] = "reply" /\ pipe_s[i] # <<>>
           /\ LET m == Head(pipe_s[i])
              IN  /\ m \in Symbols
                  /\ pipe_s' = [[pipe_s EXCEPT ![i] = Tail(@)]
                                  EXCEPT ![delta[i][m]] = Append(@, TRANSITION)]
           /\ pc' = [pc EXCEPT ![i] = "loop"]
           /\ UNCHANGED <<cpc, input, k, pipe_c, screen, spoilt>>

Coordinator == SendSymbol \/ Crash \/ SendQuit \/ Reap

State(i) == quit(i) \/ Announce(i) \/ Ignore(i) \/ Answer(i) \/ Complain(i) \/ Pass(i)

Next == Coordinator \/ ReadWord \/ handleInterrupt \/ \E i \in States : State(i)

Spec == Init /\ [][Next]_vars

(* Every process that can go on does; the user need not type anything.     *)
Fairness == WF_vars(Coordinator) /\ \A i \in States : WF_vars(State(i))

FairSpec == Spec /\ Fairness
-----------------------------------------------------------------------------
TypeOK ==
  /\ cpc \in {"prompt", "read", "crash", "interrupt", "waitpid", "end"}
  /\ word \in Seq(Letters) /\ cur_idx \in 0 .. Len(word)
  /\ cur_state \in Int /\ typed \in Seq(Seq(Letters) \ {<<>>})
  /\ spoilt \/ (cur_state \in States /\ typed = <<>> /\ cpc # "crash")
  /\ inbuf \in Seq(States \cup {INVALID}) /\ k \in 0 .. n
  /\ pc \in [States -> {"loop", "reply", "dead"}]
  /\ pipe_c \in Seq(States \cup {INVALID})
  /\ pipe_s \in [States -> Seq(Letters)]
  /\ screen \in States \X {"START", "ACCEPT", "REJECT", "INVALID"}
  /\ words \in 0 .. MaxWords /\ spoilt \in BOOLEAN

Interrupted == cpc \in {"interrupt", "waitpid", "end"}

(* rundfa.cpp:304 and :311, "Due to invalid input, starting again": what   *)
(* the coordinator sends a state is what that state waits for, also after  *)
(* an invalid symbol.                                                      *)
StartsAgain == \A i \in States : pc[i] = "loop" /\ pipe_s[i] # <<>> =>
                                    Head(pipe_s[i]) \in {TRANSITION, QUIT}

(* The state that is to get the next symbol, and the states that have not  *)
(* read the end of a word yet.                                             *)
Reading == cpc = "read"
At      == IF cpc # "read" \/ cur_idx = 0 \/ cur_state \notin States THEN 0
           ELSE delta[cur_state][word[cur_idx]]
Owed    == [e \in States \X Letters |->
              IF /\ e[2] \notin Symbols /\ pc[e[1]] = "reply" /\ pipe_s[e[1]] # <<>>
                 /\ Head(pipe_s[e[1]]) = e[2] THEN 1 ELSE 0]

(* Until '#' is in the pipe, '!' was sent, or words were typed ahead, the  *)
(* processes are the automaton: the symbols go to the state that the table *)
(* says, and each word has one verdict, however slow the state that gives  *)
(* it; a '$' that is typed is the end of its word.                         *)
A == INSTANCE Automaton WITH
       Words <- UNION {{line[j] : j \in 1 .. Len(line)} : line \in Lines},
       reading <- Reading, at <- At, owed <- Owed
Refines == A!Init /\ [][spoilt \/ Interrupted' \/ A!Next]_(A!vars)

(* No TRANSITION is lost and nobody waits for somebody who waits: until    *)
(* then each word ends and all its messages are read.  (A typed '!' ends   *)
(* the state that reads it, and the coordinator may wait for it for ever.) *)
WordsAnswered ==
  ~ spoilt /\ ~ Interrupted ~>
     spoilt \/ Interrupted \/ (cpc = "prompt" /\ \A i \in States : pipe_s[i] = <<>>)

(* SIGINT ends all states and then the coordinator, if it is there to take *)
(* it: in the middle of a word, after a typed '!' has ended some of them,  *)
(* and when words typed ahead have confused them.  (A coordinator that an  *)
(* out-of-range number has crashed takes none: cpc = "crash".)             *)
QuitEnds == cpc = "interrupt" ~> cpc = "end" /\ \A i \in States : pc[i] = "dead"
=============================================================================
