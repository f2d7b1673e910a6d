------------------------------ MODULE MCRunDfa ------------------------------
(***************************************************************************)
(* RunDfa for TLC: three states, two symbols, with a loop, a way back to   *)
(* state 0 and a state that no word leaves.                                *)
(***************************************************************************)
EXTENDS RunDfa

Table == [i \in 0 .. 2 |-> [c \in {"a", "b"} |->
            IF i = 0 THEN (IF c = "a" THEN 0 ELSE 1)
            ELSE IF i = 1 THEN (IF c = "a" THEN 0 ELSE 2) ELSE 2]]

Values == [c \in {"1", "7"} |-> IF c = "1" THEN 1 ELSE 7]

ValidLines   == {<< <<"a">> >>, << <<"b", "a">> >>, << <<"b", "b">> >>}
OneWordLines == ValidLines \cup {<< <<"b", "?", "a">> >>}
AllLines     == ValidLines \cup
                {<< <<"b", w, "a">> >> : w \in {"?", ">", "$", "!"}} \cup
                {<< <<"b">>, <<w, "a">> >> : w \in {"a", "1", "7"}}
=============================================================================
