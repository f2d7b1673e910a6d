--------------------------------- MODULE LRU ---------------------------------
(***************************************************************************)
(* Lab 9 ("9 Lab", LRU.c): the pages that a blur of an image accesses, in  *)
(* six layouts of the image in memory, under LRU with f frames.  The       *)
(* frames are a doubly linked list, with a table from pages to its nodes.  *)
(* The program is sequential; a step is one access to a page, or the       *)
(* choice of the next pixel.                                               *)
(***************************************************************************)
EXTENDS Integers, Sequences

CONSTANTS WIDTH, HEIGHT, PAGE_SIZE, OUTPUT_OFFSET,
          PT_SIZE,       \* pages the table has room for (code: 5000)
          PTR,           \* bytes of a pointer (code: 8)
          Radii, Frames  \* the arguments k and f the program is started with

ASSUME LRUAssumption ==
  /\ WIDTH \in Nat \ {0} /\ HEIGHT \in Nat \ {0} /\ PAGE_SIZE \in Nat \ {0}
  /\ OUTPUT_OFFSET \in Nat /\ PT_SIZE \in Nat \ {0} /\ PTR \in Nat
  /\ Radii \subseteq Nat /\ Frames \subseteq Nat \ {0}

NULL  == 0
Pages == 0 .. PT_SIZE - 1

VARIABLES k, f,
          scheme, i, j,                    \* the loops of main and of blur
          todo,                            \* pages still to be accessed for it
          front, back, length,             \* the list
          prev, next, page_no,             \* of each node; nodes are 1, 2, ...
          PT,
          page_faults, total_accesses

args  == <<k, f>>
loops == <<scheme, i, j>>
list  == <<front, back, length, prev, next, page_no, PT>>
count == <<page_faults, total_accesses>>
vars  == <<args, loops, todo, list, count>>

NoNodes == [n \in 1 .. f |-> NULL]
NoPages == [p \in Pages |-> NULL]

(* accessPixel: the addresses of a pixel in the six layouts.               *)
Grid     == HEIGHT * WIDTH
PtrArray == WIDTH * PTR

Addresses(s, r, c, offset) ==
  LET at == r * WIDTH + c
      ptr(b) == offset + b * PtrArray + r * PTR
  IN  CASE s = 1 -> <<offset + at, offset + Grid + at, offset + 2 * Grid + at>>
        [] s = 2 -> <<offset + 3 * at, offset + 3 * at + 1, offset + 3 * at + 2>>
        [] s = 3 -> <<offset + 4 * at>>
        [] s = 4 -> LET data == offset + 3 * PtrArray + at
                    IN  <<ptr(0), data, ptr(1), data + Grid, ptr(2), data + 2 * Grid>>
        [] s = 5 -> LET data == offset + PtrArray + 3 * at
                    IN  <<ptr(0), data, data + 1, data + 2>>
        [] s = 6 -> <<ptr(0), offset + PtrArray + 4 * at>>

(* Mutants, here and below: a plausible bug in the definition that follows. *)
accessInput(s, r, c, offset) ==                            \* offset forgotten
  LET a == Addresses(s, r, c, 0) IN [x \in DOMAIN a |-> a[x] \div PAGE_SIZE]

accessPixel(s, r, c, offset) ==
  LET a == Addresses(s, r, c, offset) IN [x \in DOMAIN a |-> a[x] \div PAGE_SIZE]

(* The window of blur around (r, c).  The tests of lines 141 and 143 look  *)
(* at where rows and columns start: their ends are as good as never cut.   *)
rowstart(r) == IF r - k < 0 THEN 0 ELSE r - k
rowend(r)   == IF rowstart(r) >= HEIGHT THEN HEIGHT - 1 ELSE r + k
colstart(c) == IF c - k < 0 THEN 0 ELSE c - k
colend(c)   == IF colstart(c) >= WIDTH THEN WIDTH - 1 ELSE c + k

(* parts[0] \o ... \o parts[n-1]. *)
Joined(parts, n) ==
  LET upto[x \in 0 .. n] == IF x = 0 THEN <<>> ELSE upto[x-1] \o parts[x-1]
  IN  upto[n]

(* What blur accesses for one pixel: the pixels within the radius, row by  *)
(* row, and the pixel of the output.                                       *)
Near(r, c, row, col) == (row - r) * (row - r) + (col - c) * (col - c) <= k * k

Row(s, r, c, row) ==
  Joined([x \in 0 .. colend(c) - colstart(c) |->
            IF Near(r, c, row, colstart(c) + x)
            THEN accessPixel(s, row, colstart(c) + x, 0) ELSE <<>>],
         colend(c) - colstart(c) + 1)

Accesses(s, r, c) ==
  Joined([y \in 0 .. rowend(r) - rowstart(r) |-> Row(s, r, c, rowstart(r) + y)],
         rowend(r) - rowstart(r) + 1)
  \o accessPixel(s, r, c, OUTPUT_OFFSET)
-----------------------------------------------------------------------------
Init == /\ k \in Radii /\ f \in Frames
        /\ scheme = 1 /\ i = 0 /\ j = 0 /\ todo = Accesses(1, 0, 0)
        /\ front = NULL /\ back = NULL /\ length = 0
        /\ prev = NoNodes /\ next = NoNodes /\ page_no = NoNodes /\ PT = NoPages
        /\ page_faults = 0 /\ total_accesses = 0

FaultKeepingEntry(p) ==                                    \* PT not cleared
  LET full == length >= f
      n    == IF full THEN back ELSE length + 1
      last == IF full THEN prev[n] ELSE back
      cut  == IF full /\ last # NULL THEN [next EXCEPT ![last] = NULL] ELSE next
      put  == [prev EXCEPT ![n] = NULL]
  IN  /\ length' = IF full THEN length ELSE length + 1
      /\ page_no' = [page_no EXCEPT ![n] = p]
      /\ PT' = [PT EXCEPT ![p] = n]
      /\ next' = [cut EXCEPT ![n] = front]
      /\ prev' = IF front # NULL THEN [put EXCEPT ![front] = n] ELSE put
      /\ front' = n
      /\ back' = IF last # NULL THEN last ELSE n

(* handlePageFault: a new node, or the one at the back; then to the front. *)
handlePageFault(p) ==
  LET full == length >= f
      n    == IF full THEN back ELSE length + 1
      last == IF full THEN prev[n] ELSE back
      cut  == IF full /\ last # NULL THEN [next EXCEPT ![last] = NULL] ELSE next
      gone == IF full THEN [PT EXCEPT ![page_no[n]] = NULL] ELSE PT
      put  == [prev EXCEPT ![n] = NULL]
  IN  /\ length' = IF full THEN length ELSE length + 1
      /\ page_no' = [page_no EXCEPT ![n] = p]
      /\ PT' = [gone EXCEPT ![p] = n]
      /\ next' = [cut EXCEPT ![n] = front]
      /\ prev' = IF front # NULL THEN [put EXCEPT ![front] = n] ELSE put
      /\ front' = n
      /\ back' = IF last # NULL THEN last ELSE n

pushNodeFront(n) ==
  IF n = front THEN UNCHANGED list
  ELSE LET over  == IF prev[n] # NULL THEN [next EXCEPT ![prev[n]] = next[n]] ELSE next
           under == IF next[n] # NULL THEN [prev EXCEPT ![next[n]] = prev[n]] ELSE prev
       IN  /\ next' = [over EXCEPT ![n] = front]
           /\ prev' = [[under EXCEPT ![n] = NULL] EXCEPT ![front] = n]
           /\ front' = n
           /\ back' = IF n = back THEN prev[n] ELSE back
           /\ UNCHANGED <<length, page_no, PT>>

Fault(p) == /\ PT[p] = NULL
            /\ page_faults' = page_faults + 1
            /\ handlePageFault(p)

Hit(p) == /\ PT[p] # NULL
          /\ pushNodeFront(PT[p])
          /\ UNCHANGED page_faults

accessPage == /\ todo # <<>>
              /\ Fault(Head(todo)) \/ Hit(Head(todo))
              /\ total_accesses' = total_accesses + 1
              /\ todo' = Tail(todo)
              /\ UNCHANGED <<args, loops>>

NextPixel == /\ todo = <<>> /\ ~ (i = HEIGHT - 1 /\ j = WIDTH - 1)
             /\ j' = IF j = WIDTH - 1 THEN 0 ELSE j + 1
             /\ i' = IF j = WIDTH - 1 THEN i + 1 ELSE i
             /\ todo' = Accesses(scheme, i', j')
             /\ UNCHANGED <<args, scheme, list, count>>

NextScheme == /\ todo = <<>> /\ i = HEIGHT - 1 /\ j = WIDTH - 1 /\ scheme < 6
              /\ scheme' = scheme + 1 /\ i' = 0 /\ j' = 0
              /\ todo' = Accesses(scheme', 0, 0)
              /\ front' = NULL /\ back' = NULL /\ length' = 0
              /\ prev' = NoNodes /\ next' = NoNodes /\ page_no' = NoNodes /\ PT' = NoPages
              /\ UNCHANGED args
              /\ page_faults' = 0 /\ total_accesses' = 0

Next == accessPage \/ NextPixel \/ NextScheme

Spec == Init /\ [][Next]_vars
-----------------------------------------------------------------------------
TypeOK ==
  /\ k \in Radii /\ f \in Frames
  /\ scheme \in 1 .. 6 /\ i \in 0 .. HEIGHT - 1 /\ j \in 0 .. WIDTH - 1
  /\ todo \in Seq(Nat)
  /\ front \in 0 .. length /\ back \in 0 .. length /\ length \in 0 .. f
  /\ prev \in [1 .. f -> 0 .. length] /\ next \in [1 .. f -> 0 .. length]
  /\ page_no \in [1 .. f -> Pages] /\ PT \in [Pages -> 0 .. length]
  /\ page_faults \in 0 .. total_accesses

(* The accesses to a pixel. *)
PerPixel(s) == Len(Addresses(s, 0, 0, 0))

(* The page tables of the two images are apart, although the window goes   *)
(* beyond the last row: no page of the input is one of the output, and no  *)
(* page is beyond PT (LRU.c:21, :149, :155).                               *)
ImagesApart ==
  \A x \in 1 .. Len(todo) :
    IF x <= Len(todo) - PerPixel(scheme)
    THEN todo[x] < OUTPUT_OFFSET \div PAGE_SIZE
    ELSE todo[x] \in OUTPUT_OFFSET \div PAGE_SIZE .. PT_SIZE - 1

(* The nodes from the front on, as many as there are: with one frame the   *)
(* only node is its own neighbour (LRU.c:58).                              *)
Nodes == LET node[x \in 1 .. length] == IF x = 1 THEN front ELSE next[node[x - 1]]
         IN  node

Recent == [x \in 1 .. length |-> page_no[Nodes[x]]]

(* The pointers and the table are a cache of the f pages used last: each   *)
(* access goes to the page it names, and the faults are those of LRU.      *)
Cache   == INSTANCE PageCache WITH recent <- Recent
Refines == Cache!Safety
=============================================================================
