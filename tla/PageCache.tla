------------------------------ MODULE PageCache ------------------------------
(***************************************************************************)
(* What lab 9 promises of its list of pages: of the pages that were        *)
(* accessed, the last f different ones are in memory, and a fault is an    *)
(* access to another one.  No pointers: LRU implements this specification. *)
(***************************************************************************)
EXTENDS Integers, Sequences

VARIABLES f,                              \* the number of frames
          todo,                           \* the pages to access next
          recent,                         \* the pages in memory, the last first
          page_faults, total_accesses

vars == <<f, todo, recent, page_faults, total_accesses>>

Init == recent = <<>> /\ page_faults = 0 /\ total_accesses = 0

(* A page that is in memory becomes the last one accessed.                 *)
Hit(p) ==
  /\ \E x \in 1 .. Len(recent) :
       /\ recent[x] = p
       /\ recent' = [y \in 1 .. Len(recent) |->
                       IF y = 1 THEN p ELSE IF y <= x THEN recent[y-1] ELSE recent[y]]
  /\ UNCHANGED page_faults

(* Another page comes in, for the one not accessed for longest if need be. *)
Fault(p) ==
  /\ \A x \in 1 .. Len(recent) : recent[x] # p
  /\ recent' = [y \in 1 .. IF Len(recent) < f THEN Len(recent) + 1 ELSE f |->
                  IF y = 1 THEN p ELSE recent[y-1]]
  /\ page_faults' = page_faults + 1

Access ==
  /\ todo # <<>> /\ todo' = Tail(todo)
  /\ Hit(Head(todo)) \/ Fault(Head(todo))
  /\ total_accesses' = total_accesses + 1
  /\ UNCHANGED f

(* Other pages to access: no constraint on todo'.                          *)
More == todo = <<>> /\ UNCHANGED <<f, recent, page_faults, total_accesses>>

(* Everything anew, for another layout of the same image.                  *)
Reset == /\ todo = <<>>
         /\ recent' = <<>> /\ page_faults' = 0 /\ total_accesses' = 0
         /\ UNCHANGED f

Next == Access \/ More \/ Reset

Safety == Init /\ [][Next]_vars
=============================================================================
