--------------------------- MODULE MCVirtualDisk ----------------------------
(* Instances of VirtualDisk for TLC. *)
EXTENDS VirtualDisk, TLC

Symmetry == Permutations(Blocks)

SomePaths == {[absolute |-> FALSE, names |-> <<>>], [absolute |-> TRUE, names |-> <<>>],
              [absolute |-> FALSE, names |-> <<"..">>], [absolute |-> TRUE, names |-> <<"a">>]}

SomeFiles == {<<>>, <<"x", "y">>}
=============================================================================
