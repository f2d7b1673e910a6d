------------------------------- MODULE MCLudo -------------------------------
(***************************************************************************)
(* Ludo for TLC: two short boards, on which a ladder ends on a ladder and  *)
(* a snake on a ladder, so that moves are blocked at every place.          *)
(***************************************************************************)
EXTENDS Ludo

Jumps(b) == [c \in 1 .. LastCell - 1 |-> IF c \in DOMAIN b THEN b[c] - c ELSE 0]

SomeBoards == {Jumps([c \in {} |-> 0]),
               Jumps([c \in {1, 3, 5} |-> IF c = 1 THEN 3 ELSE IF c = 3 THEN 5 ELSE 2])}

SomeLines == {<<"next">>, <<"autoplay">>, <<"quit">>, <<"next", "next">>}
=============================================================================
