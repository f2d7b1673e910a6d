---------------------------- MODULE SharedHouse ----------------------------
(***************************************************************************)
(* What the house of lab 6 promises to its visitors: nomads share it with  *)
(* nomads, demons with demons, never the two kinds together, and whoever   *)
(* is inside gets out again.  No counter, no lock and no waiting: those    *)
(* belong to House, which implements this specification.                   *)
(***************************************************************************)
CONSTANTS Nomads,   \* the processes forked by nomad.c
          Demons    \* the processes forked by demon.c

VARIABLE inside     \* the visitors in the house

Kin(p) == IF p \in Nomads THEN Nomads ELSE Demons

Init == inside = {}

Enter(p) == /\ p \notin inside
            /\ inside \subseteq Kin(p)
            /\ inside' = inside \cup {p}

Leave(p) == /\ p \in inside
            /\ inside' = inside \ {p}

Next == \E p \in Nomads \cup Demons : Enter(p) \/ Leave(p)

Safety == Init /\ [][Next]_inside

Spec == Safety /\ \A p \in Nomads \cup Demons : WF_inside(Leave(p))
=============================================================================
