------------------------------ MODULE LudoRules ------------------------------
(***************************************************************************)
(* What the ludo program of lab 4 promises to those who watch the board:   *)
(* the players that have not finished move in turn, each by one throw, as  *)
(* the rules of the game say, and what is drawn is the game after a whole  *)
(* move.  No processes and no signals: Ludo implements this specification. *)
(***************************************************************************)
EXTENDS Integers

CONSTANTS n,          \* the number of players
          LastCell,   \* the cell on which a player finishes (code: 100)
          Boards      \* the boards the file may describe

Players == 0 .. n - 1
Cells   == 0 .. LastCell

VARIABLES board,   \* what a snake or a ladder adds on each cell, or 0
          cell,    \* where each player is
          turn     \* whose turn it is

vars == <<board, cell, turn>>

(* A turn throws until it is not a six, and three sixes count nothing.     *)
Throws == {6 * sixes + die : sixes \in 0 .. 2, die \in 1 .. 5}

After(p) == (p + 1) % n

(* The first of p, p+1, ... that has not finished, or p if all have.       *)
FirstPlaying(where, p) ==
  LET playing == {k \in Players : where[(p + k) % n] # LastCell}
  IN  IF playing = {} THEN p
      ELSE (p + CHOOSE k \in playing : \A l \in playing : k <= l) % n

Taken(where, c) == \E q \in Players : where[q] = c

(* Where a move to c ends: along snakes and ladders while their ends are   *)
(* free.                                                                   *)
End(b, where, c) ==
  LET slide[d \in Cells] ==
        IF d \notin DOMAIN b \/ b[d] = 0 \/ Taken(where, d + b[d]) THEN d
        ELSE slide[d + b[d]]
  IN  slide[c]

Init == /\ board \in Boards
        /\ cell = [p \in Players |-> 0]
        /\ turn = 0

(* A move that leads beyond the last cell or onto a player is not made.    *)
Move(p) ==
  /\ turn = p /\ cell[p] # LastCell
  /\ \E d \in Throws :
       LET c == cell[p] + d
       IN  cell' = IF c > LastCell \/ (c < LastCell /\ Taken(cell, c)) THEN cell
                   ELSE [cell EXCEPT ![p] = End(board, [cell EXCEPT ![p] = -1], c)]
  /\ turn' = FirstPlaying(cell', After(p))
  /\ UNCHANGED board

Next == \E p \in Players : Move(p)

Safety == Init /\ [][Next]_vars
=============================================================================
