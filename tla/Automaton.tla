------------------------------ MODULE Automaton ------------------------------
(***************************************************************************)
(* What lab 3 promises: a finite automaton that reads words, symbol by     *)
(* symbol, and tells of each word how it ended, perhaps later.  No         *)
(* processes and no pipes: RunDfa implements this specification.           *)
(***************************************************************************)
EXTENDS Integers, Sequences

CONSTANTS States, Symbols,
          delta,       \* the transition table
          Final,       \* the accepting states
          Words,       \* what may be typed
          Letters,     \* the symbols and the other letters of the words,
          EOI          \* one of which ends a word as its end does

VARIABLES word, cur_idx,   \* the word, and how much of it has been read
          reading,         \* is it still being read?
          at,              \* the state reached
          owed,            \* how often a state must still tell of an end
          screen           \* what was told last

vars == <<word, cur_idx, reading, at, owed, screen>>

Init == /\ word = <<>> /\ cur_idx = 0 /\ reading = FALSE /\ at = 0
        /\ owed = [e \in States \X Letters |-> 0]
        /\ screen = <<0, "START">>

(* A word ends with its last symbol, or with one that is not in Symbols.   *)
symbol == IF cur_idx = Len(word) THEN EOI ELSE word[cur_idx + 1]

Told(q, m) == IF m # EOI THEN "INVALID" ELSE IF q \in Final THEN "ACCEPT" ELSE "REJECT"

Begin(w) == /\ ~ reading /\ reading' = TRUE
            /\ word' = w /\ cur_idx' = 0 /\ at' = 0
            /\ UNCHANGED <<owed, screen>>

Step == /\ reading /\ symbol \in Symbols
        /\ at' = delta[at][symbol] /\ cur_idx' = cur_idx + 1
        /\ UNCHANGED <<word, reading, owed, screen>>

End == /\ reading /\ symbol \notin Symbols
       /\ reading' = FALSE /\ at' = 0
       /\ owed' = [owed EXCEPT ![<<at, symbol>>] = @ + 1]
       /\ UNCHANGED <<word, cur_idx, screen>>

Tell(q, m) == /\ owed[<<q, m>>] > 0
              /\ owed' = [owed EXCEPT ![<<q, m>>] = @ - 1]
              /\ screen' = <<q, Told(q, m)>>
              /\ UNCHANGED <<word, cur_idx, reading, at>>

Next == \/ \E w \in Words : Begin(w)
        \/ Step \/ End
        \/ \E q \in States, m \in Letters : Tell(q, m)

Safety == Init /\ [][Next]_vars
=============================================================================
