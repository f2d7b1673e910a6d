------------------------------ MODULE FileTree ------------------------------
(***************************************************************************)
(* What the disk of lab 10 promises to its shell: a tree of directories,   *)
(* in which a command has its whole effect at once or none at all, and     *)
(* touches nothing else.  No blocks, no links, no free list.               *)
(***************************************************************************)
EXTENDS Sequences

CONSTANTS Root, NONE

VARIABLES dirs,       \* the entries of each directory, in order
          request     \* the command under way, or NONE

vars == <<dirs, request>>

Init == dirs = [d \in {Root} |-> <<>>] /\ request = NONE

(* A directory may only be asked for under a new name; cp does not look.   *)
Ask == /\ request = NONE /\ request' # NONE
       /\ request'.parent \in DOMAIN dirs
       /\ request'.kind = "d" =>
            \A i \in DOMAIN dirs[request'.parent] :
               dirs[request'.parent][i].name # request'.name
       /\ UNCHANGED dirs

NewFile == /\ request # NONE /\ request.kind = "f"
           /\ dirs' = [dirs EXCEPT ![request.parent] =
                         Append(@, [name |-> request.name, is |-> request.content])]
           /\ request' = NONE

NewDirectory ==
  /\ request # NONE /\ request.kind = "d"
  /\ \E d \in DOMAIN dirs' \ DOMAIN dirs :
       dirs' = [e \in DOMAIN dirs \cup {d} |->
                  IF e = d THEN <<>>
                  ELSE IF e = request.parent
                       THEN Append(dirs[e], [name |-> request.name, is |-> d])
                       ELSE dirs[e]]
  /\ request' = NONE

GiveUp == request # NONE /\ request' = NONE /\ UNCHANGED dirs

Next == Ask \/ NewFile \/ NewDirectory \/ GiveUp

Safety == Init /\ [][Next]_vars
=============================================================================
