----------------------------- MODULE LRU_proofs -----------------------------
(***************************************************************************)
(* The runs blur a very small image.  Here the constants are those of the  *)
(* program, whose image is too large for a run, and what is proved is how  *)
(* large the radius may be.                                                *)
(***************************************************************************)
EXTENDS LRU, SequenceTheorems, NaturalsInduction, WellFoundedInduction, TLAPS

(* LRU.c:4-7, :21 and :93. *)
TheProgram ==
  /\ WIDTH = 1920 /\ HEIGHT = 1080 /\ PAGE_SIZE = 4096 /\ OUTPUT_OFFSET = 10000000
  /\ PT_SIZE = 5000 /\ PTR = 8

(* With a radius of 220, row 1299 of the window has a page with the output *)
(* image in common, in the sixth layout.                                   *)
MaxRadius == 219

InputPages  == 0 .. OUTPUT_OFFSET \div PAGE_SIZE - 1
OutputPages == OUTPUT_OFFSET \div PAGE_SIZE .. PT_SIZE - 1
-----------------------------------------------------------------------------
(* The window of blur begins in the image, and ends beyond it at most by   *)
(* the radius, however wrong the tests of lines 141 and 143 are.           *)
LEMMA Window ==
  ASSUME TheProgram, k \in 0 .. MaxRadius, NEW r \in 0 .. HEIGHT - 1, NEW c \in 0 .. WIDTH - 1
  PROVE  /\ rowstart(r) \in 0 .. r /\ rowend(r) = r + k
         /\ colstart(c) \in 0 .. c /\ colend(c) = c + k
<1>1. rowstart(r) \in 0 .. r
  BY DEF rowstart, TheProgram, MaxRadius
<1>2. colstart(c) \in 0 .. c
  BY DEF colstart, TheProgram, MaxRadius
<1>3. rowend(r) = r + k
  BY <1>1 DEF rowend, TheProgram
<1>4. colend(c) = c + k
  BY <1>2 DEF colend, TheProgram
<1>. QED
  BY <1>1, <1>2, <1>3, <1>4

LEMMA Boundary == TheProgram => InputPages = 0 .. 2440 /\ OutputPages = 2441 .. 4999
<1>1. 10000000 \div 4096 = 2441
  OBVIOUS
<1>. QED
  BY <1>1 DEF TheProgram, InputPages, OutputPages

Within(a, offset, at) ==
  a \in Nat /\ a >= offset /\ (a <= offset + 15360 + 4 * at \/ a <= offset + 4193280 + at)

(* Every address of a pixel whose place is at: at most four bytes a pixel  *)
(* behind an array of pointers, or one byte in the third of three grids.   *)
LEMMA AddressBounds ==
  ASSUME TheProgram, NEW s \in 1 .. 6, NEW r \in Nat, r <= 1298, NEW c \in Nat, NEW offset \in Nat,
         NEW at \in Nat, at = r * WIDTH + c
  PROVE  \A x \in DOMAIN Addresses(s, r, c, offset) :
           Within(Addresses(s, r, c, offset)[x], offset, at)
<1>. DEFINE Good(a) == Within(a, offset, at)
            A == Addresses(s, r, c, offset)
<1>1. Grid = 2073600 /\ PtrArray = 15360 /\ PTR = 8
  BY SMT DEF TheProgram, Grid, PtrArray
<1>2. CASE s = 1
  <2>1. A = <<offset + at, offset + 2073600 + at, offset + 2 * 2073600 + at>>
    BY SMT, <1>1, <1>2 DEF Addresses
  <2>2. DOMAIN A = 1 .. 3 /\ Good(A[1]) /\ Good(A[2]) /\ Good(A[3])
    BY SMT, <2>1 DEF Within
  <2>. QED
    BY SMT, <2>2
<1>3. CASE s = 2
  <2>1. A = <<offset + 3 * at, offset + 3 * at + 1, offset + 3 * at + 2>>
    BY SMT, <1>1, <1>3 DEF Addresses
  <2>2. DOMAIN A = 1 .. 3 /\ Good(A[1]) /\ Good(A[2]) /\ Good(A[3])
    BY SMT, <2>1 DEF Within
  <2>. QED
    BY SMT, <2>2
<1>4. CASE s = 3
  <2>1. A = <<offset + 4 * at>>
    BY SMT, <1>1, <1>4 DEF Addresses
  <2>2. DOMAIN A = 1 .. 1 /\ Good(A[1])
    BY SMT, <2>1 DEF Within
  <2>. QED
    BY SMT, <2>2
<1>5. CASE s = 4
  <2>1. A = <<offset + 0 * 15360 + r * 8, offset + 3 * 15360 + at,
              offset + 1 * 15360 + r * 8, offset + 3 * 15360 + at + 2073600,
              offset + 2 * 15360 + r * 8, offset + 3 * 15360 + at + 2 * 2073600>>
    BY SMT, <1>1, <1>5 DEF Addresses
  <2>2. /\ DOMAIN A = 1 .. 6 /\ Good(A[1]) /\ Good(A[2]) /\ Good(A[3])
        /\ Good(A[4]) /\ Good(A[5]) /\ Good(A[6])
    BY SMT, <2>1 DEF Within
  <2>. QED
    BY SMT, <2>2
<1>6. CASE s = 5
  <2>1. A = <<offset + 0 * 15360 + r * 8, offset + 15360 + 3 * at,
              offset + 15360 + 3 * at + 1, offset + 15360 + 3 * at + 2>>
    BY SMT, <1>1, <1>6 DEF Addresses
  <2>2. DOMAIN A = 1 .. 4 /\ Good(A[1]) /\ Good(A[2]) /\ Good(A[3]) /\ Good(A[4])
    BY SMT, <2>1 DEF Within
  <2>. QED
    BY SMT, <2>2
<1>7. CASE s = 6
  <2>1. A = <<offset + 0 * 15360 + r * 8, offset + 15360 + 4 * at>>
    BY SMT, <1>1, <1>7 DEF Addresses
  <2>2. DOMAIN A = 1 .. 2 /\ Good(A[1]) /\ Good(A[2])
    BY SMT, <2>1 DEF Within
  <2>. QED
    BY SMT, <2>2
<1>. QED
  BY SMT, <1>2, <1>3, <1>4, <1>5, <1>6, <1>7

(* The last row of the window, 1079 + 219, is 1298. *)
LEMMA InputPagesOf ==
  ASSUME TheProgram, NEW s \in 1 .. 6, NEW row \in Nat, row <= 1298, NEW col \in Nat, col <= 2138,
         NEW x \in DOMAIN accessPixel(s, row, col, 0)
  PROVE  accessPixel(s, row, col, 0)[x] \in InputPages
<1>1. row * WIDTH + col \in Nat /\ row * WIDTH + col <= 1298 * 1920 + 2138
  BY SMT DEF TheProgram
<1>2. PICK at \in Nat : at = row * WIDTH + col /\ at <= 1298 * 1920 + 2138
  BY SMT, <1>1
<1>3. x \in DOMAIN Addresses(s, row, col, 0)
  BY SMT DEF accessPixel
<1>. DEFINE a == Addresses(s, row, col, 0)[x]
<1>4. Within(a, 0, at)
  BY SMT, <1>2, <1>3, AddressBounds
<1>5. accessPixel(s, row, col, 0)[x] = a \div 4096
  BY SMT, <1>3 DEF accessPixel, TheProgram
<1>. HIDE DEF a
<1>6. a \in Nat /\ a < 9998336
  BY SMT, <1>2, <1>4 DEF Within
<1>7. a \div 4096 \in 0 .. 2440
  BY SMT, <1>6
<1>. QED
  BY <1>5, <1>7, Boundary

LEMMA OutputPagesOf ==
  ASSUME TheProgram, NEW s \in 1 .. 6, NEW r \in Nat, r <= 1079, NEW c \in Nat, c <= 1919,
         NEW x \in DOMAIN accessPixel(s, r, c, OUTPUT_OFFSET)
  PROVE  accessPixel(s, r, c, OUTPUT_OFFSET)[x] \in OutputPages
<1>1. r * WIDTH + c \in Nat /\ r * WIDTH + c <= 1079 * 1920 + 1919
  BY SMT DEF TheProgram
<1>2. PICK at \in Nat : at = r * WIDTH + c /\ at <= 1079 * 1920 + 1919
  BY SMT, <1>1
<1>3. x \in DOMAIN Addresses(s, r, c, 10000000) /\ OUTPUT_OFFSET = 10000000
  BY SMT DEF accessPixel, TheProgram
<1>. DEFINE a == Addresses(s, r, c, 10000000)[x]
<1>4. Within(a, 10000000, at)
  BY SMT, <1>2, <1>3, AddressBounds
<1>5. accessPixel(s, r, c, OUTPUT_OFFSET)[x] = a \div 4096
  BY SMT, <1>3 DEF accessPixel, TheProgram
<1>. HIDE DEF a
<1>6. a \in Nat /\ a >= 10000000 /\ a < 20480000
  BY SMT, <1>2, <1>4 DEF Within
<1>7. a \div 4096 \in 2441 .. 4999
  BY SMT, <1>6
<1>. QED
  BY <1>5, <1>7, Boundary

(* With the program's own constants and a radius of up to 219, the pixels  *)
(* that blur reads, though the window goes beyond the image, are in pages  *)
(* below the output image's, and what it writes is in pages that PT has    *)
(* room for (LRU.c:141, :149 and :155, in each of the six layouts).        *)
THEOREM RealImagesApart ==
  ASSUME TheProgram, k \in 0 .. MaxRadius, NEW s \in 1 .. 6,
         NEW r \in 0 .. HEIGHT - 1, NEW c \in 0 .. WIDTH - 1
  PROVE  /\ \A row \in rowstart(r) .. rowend(r), col \in colstart(c) .. colend(c) :
              \A x \in DOMAIN accessPixel(s, row, col, 0) :
                accessPixel(s, row, col, 0)[x] \in InputPages
         /\ \A x \in DOMAIN accessPixel(s, r, c, OUTPUT_OFFSET) :
              accessPixel(s, r, c, OUTPUT_OFFSET)[x] \in OutputPages
<1>1. r \in Nat /\ r <= 1079 /\ c \in Nat /\ c <= 1919
  BY SMT DEF TheProgram
<1>2. ASSUME NEW row \in rowstart(r) .. rowend(r), NEW col \in colstart(c) .. colend(c),
             NEW x \in DOMAIN accessPixel(s, row, col, 0)
      PROVE  accessPixel(s, row, col, 0)[x] \in InputPages
  <2>1. rowstart(r) \in 0 .. r /\ rowend(r) = r + k /\ colstart(c) \in 0 .. c /\ colend(c) = c + k
    BY SMT, Window
  <2>2. k \in Nat /\ k <= 219
    BY DEF MaxRadius
  <2>3. row \in Nat /\ row <= 1298
    BY SMT, <2>1, <2>2, <1>1
  <2>4. col \in Nat /\ col <= 2138
    BY SMT, <2>1, <2>2, <1>1
  <2>. QED
    BY SMT, <2>3, <2>4, InputPagesOf
<1>3. \A x \in DOMAIN accessPixel(s, r, c, OUTPUT_OFFSET) :
        accessPixel(s, r, c, OUTPUT_OFFSET)[x] \in OutputPages
  BY SMT, <1>1, OutputPagesOf
<1>. QED
  BY SMT, <1>2, <1>3
-----------------------------------------------------------------------------
(* Recursive functions.  Induction up to n, over sets of numbers:          *)
LEMMA UpTo ==
  ASSUME NEW n \in Nat, NEW P, 0 \in P,
         \A x \in 1 .. n : x - 1 \in P => x \in P
  PROVE  \A x \in 0 .. n : x \in P
<1> DEFINE B == {x \in 0 .. n : x \notin P}
<1> SUFFICES ASSUME B # {} PROVE FALSE
  OBVIOUS
<1>1. B \subseteq Nat
  OBVIOUS
<1>2. PICK p \in B : \A x \in B : ~ (<<x, p>> \in OpToRel(<, Nat))
  BY <1>1, NatLessThanWellFounded, WFMin
<1>3. \A x \in B : ~ (x < p)
  <2>1. \A x \in B : x \in Nat /\ p \in Nat
    BY <1>1
  <2>. QED
    BY <1>2, <2>1, Zenon DEF OpToRel
<1>4. p \in 1 .. n /\ p - 1 \in 0 .. n /\ p - 1 < p
  OBVIOUS
<1>5. p - 1 \notin B
  BY <1>3, <1>4
<1>. QED
  BY <1>4, <1>5

(* A function whose value at x follows from its value at x-1.              *)
Unrolls(h, T, a, n, g) == /\ h \in [0 .. n -> T]
                          /\ h[0] = a
                          /\ \A x \in 1 .. n : h[x] = g[<<h[x-1], x>>]

LEMMA Recursion ==
  ASSUME NEW T, NEW a \in T, NEW n \in Nat, NEW g \in [T \X (1 .. n) -> T]
  PROVE  \E h : Unrolls(h, T, a, n, g)
<1> DEFINE Upto(m) == \E h \in [0 .. m -> T] :
                         h[0] = a /\ \A x \in 1 .. m : h[x] = g[<<h[x-1], x>>]
           P == {m \in 0 .. n : Upto(m)}
<1>1. 0 \in P
  <2> DEFINE h == [x \in 0 .. 0 |-> a]
  <2>1. h \in [0 .. 0 -> T] /\ h[0] = a /\ \A x \in 1 .. 0 : h[x] = g[<<h[x-1], x>>]
    OBVIOUS
  <2>2. Upto(0)
    BY <2>1
  <2>. QED
    BY <2>2
<1>2. ASSUME NEW m \in 1 .. n, m - 1 \in P PROVE m \in P
  <2>1. PICK e \in [0 .. m - 1 -> T] :
           e[0] = a /\ \A x \in 1 .. m - 1 : e[x] = g[<<e[x-1], x>>]
    BY <1>2
  <2> DEFINE h == [x \in 0 .. m |-> IF x = m THEN g[<<e[m-1], m>>] ELSE e[x]]
  <2>2. g[<<e[m-1], m>>] \in T
    BY <1>2, <2>1
  <2>3. h \in [0 .. m -> T]
    BY <1>2, <2>1, <2>2
  <2>4. h[0] = a
    BY <1>2, <2>1
  <2>5. ASSUME NEW x \in 1 .. m PROVE h[x] = g[<<h[x-1], x>>]
    <3>1. x - 1 \in 0 .. m - 1 /\ h[x-1] = e[x-1]
      OBVIOUS
    <3>2. CASE x = m
      <4>1. h[m] = g[<<e[m-1], m>>] /\ h[m-1] = e[m-1]
        BY <3>1, <3>2
      <4> HIDE DEF h
      <4>. QED
        BY <3>2, <4>1
    <3>3. CASE x # m
      <4>1. x \in 1 .. m - 1 /\ h[x] = e[x]
        BY <3>3
      <4>. QED
        BY <2>1, <3>1, <4>1
    <3>. QED
      BY <3>2, <3>3
  <2>6. Upto(m)
    BY <2>3, <2>4, <2>5
  <2>. QED
    BY <2>6
<1> HIDE DEF P
<1>3. \A m \in 0 .. n : m \in P
  BY <1>1, <1>2, UpTo
<1>4. n \in P
  BY <1>3
<1>5. PICK h \in [0 .. n -> T] : h[0] = a /\ \A x \in 1 .. n : h[x] = g[<<h[x-1], x>>]
  BY <1>4 DEF P
<1>. QED
  BY <1>5 DEF Unrolls

(* Sequences put together are a sequence.                                  *)
LEMMA JoinedIsSeq ==
  ASSUME NEW T, NEW n \in Nat, NEW parts \in [0 .. n - 1 -> Seq(T)]
  PROVE  Joined(parts, n) \in Seq(T)
<1> DEFINE g == [p \in Seq(T) \X (1 .. n) |-> p[1] \o parts[p[2] - 1]]
           Eq(u) == u = [x \in 0 .. n |-> IF x = 0 THEN <<>> ELSE u[x-1] \o parts[x-1]]
<1>1. g \in [Seq(T) \X (1 .. n) -> Seq(T)]
  OBVIOUS
<1>2. \A c \in Seq(T), x \in 1 .. n : g[<<c, x>>] = c \o parts[x-1]
  OBVIOUS
<1>3. <<>> \in Seq(T)
  OBVIOUS
<1> HIDE DEF g
<1>4. PICK h : Unrolls(h, Seq(T), <<>>, n, g)
  BY <1>1, <1>3, Recursion
<1>5. h \in [0 .. n -> Seq(T)] /\ h[0] = <<>> /\ \A x \in 1 .. n : h[x] = h[x-1] \o parts[x-1]
  <2>1. h \in [0 .. n -> Seq(T)] /\ h[0] = <<>> /\ \A x \in 1 .. n : h[x] = g[<<h[x-1], x>>]
    BY <1>4 DEF Unrolls
  <2>2. ASSUME NEW x \in 1 .. n PROVE h[x] = h[x-1] \o parts[x-1]
    <3>1. h[x-1] \in Seq(T)
      BY <2>1
    <3>. QED
      BY <1>2, <2>1, <3>1
  <2>. QED
    BY <2>1, <2>2
<1>6. Eq(h)
  <2>1. ASSUME NEW x \in 0 .. n
        PROVE  h[x] = IF x = 0 THEN <<>> ELSE h[x-1] \o parts[x-1]
    <3>1. CASE x = 0
      BY <1>5, <3>1
    <3>2. CASE x # 0
      <4>1. x \in 1 .. n
        BY <3>2
      <4>. QED
        BY <1>5, <3>2, <4>1, Zenon
    <3>. QED
      BY <3>1, <3>2
  <2>2. h = [x \in 0 .. n |-> h[x]]
    BY <1>5
  <2>. QED
    BY <2>1, <2>2, Zenon
<1>7. Joined(parts, n) = (CHOOSE u : Eq(u))[n]
  BY DEF Joined
<1> DEFINE u == CHOOSE u : Eq(u)
<1>8. Eq(u)
  BY <1>6
<1> HIDE DEF u
<1> DEFINE P == {x \in 0 .. n : u[x] = h[x]}
<1>9. 0 \in P
  <2>1. 0 \in 0 .. n
    OBVIOUS
  <2>2. u[0] = <<>>
    BY <1>8, <2>1, Zenon
  <2>. QED
    BY <1>5, <2>1, <2>2
<1>10. ASSUME NEW x \in 1 .. n, x - 1 \in P PROVE x \in P
  <2>1. x \in 0 .. n /\ x # 0
    OBVIOUS
  <2>2. u[x] = u[x-1] \o parts[x-1]
    BY <1>8, <2>1, Zenon
  <2>3. u[x-1] = h[x-1]
    BY <1>10
  <2>. QED
    BY <1>5, <2>1, <2>2, <2>3, Zenon
<1> HIDE DEF P
<1>11. \A x \in 0 .. n : x \in P
  BY <1>9, <1>10, UpTo
<1>12. u[n] = h[n]
  BY <1>11 DEF P
<1>. QED
  BY <1>5, <1>7, <1>12 DEF u
-----------------------------------------------------------------------------
(* A pixel is as many accesses wherever it is.                             *)
LEMMA AddressLength ==
  ASSUME NEW s \in 1 .. 6, NEW r, NEW c, NEW offset
  PROVE  PerPixel(s) \in 1 .. 6 /\ DOMAIN Addresses(s, r, c, offset) = 1 .. PerPixel(s)
<1>. DEFINE A == Addresses(s, r, c, offset)
            Z == Addresses(s, 0, 0, 0)
<1>0. PerPixel(s) = Len(Z)
  BY Zenon DEF PerPixel
<1>1. CASE s = 1
  <2>1. \E a1, a2, a3 : A = <<a1, a2, a3>>
    BY <1>1 DEF Addresses
  <2>2. \E a1, a2, a3 : Z = <<a1, a2, a3>>
    BY <1>1 DEF Addresses
  <2>. HIDE DEF A, Z
  <2>3. DOMAIN A = 1 .. 3 /\ Len(Z) = 3
    BY SMT, <2>1, <2>2
  <2>4. PerPixel(s) \in 1 .. 6 /\ DOMAIN A = 1 .. PerPixel(s)
    BY <1>0, <2>3
  <2>. QED
    BY <2>4, Zenon DEF A
<1>2. CASE s = 2
  <2>1. \E a1, a2, a3 : A = <<a1, a2, a3>>
    BY <1>2 DEF Addresses
  <2>2. \E a1, a2, a3 : Z = <<a1, a2, a3>>
    BY <1>2 DEF Addresses
  <2>. HIDE DEF A, Z
  <2>3. DOMAIN A = 1 .. 3 /\ Len(Z) = 3
    BY SMT, <2>1, <2>2
  <2>4. PerPixel(s) \in 1 .. 6 /\ DOMAIN A = 1 .. PerPixel(s)
    BY <1>0, <2>3
  <2>. QED
    BY <2>4, Zenon DEF A
<1>3. CASE s = 3
  <2>1. \E a1 : A = <<a1>>
    BY <1>3 DEF Addresses
  <2>2. \E a1 : Z = <<a1>>
    BY <1>3 DEF Addresses
  <2>. HIDE DEF A, Z
  <2>3. DOMAIN A = 1 .. 1 /\ Len(Z) = 1
    BY SMT, <2>1, <2>2
  <2>4. PerPixel(s) \in 1 .. 6 /\ DOMAIN A = 1 .. PerPixel(s)
    BY <1>0, <2>3
  <2>. QED
    BY <2>4, Zenon DEF A
<1>4. CASE s = 4
  <2>1. \E a1, a2, a3, a4, a5, a6 : A = <<a1, a2, a3, a4, a5, a6>>
    BY <1>4 DEF Addresses
  <2>2. \E a1, a2, a3, a4, a5, a6 : Z = <<a1, a2, a3, a4, a5, a6>>
    BY <1>4 DEF Addresses
  <2>. HIDE DEF A, Z
  <2>3. DOMAIN A = 1 .. 6 /\ Len(Z) = 6
    BY SMT, <2>1, <2>2
  <2>4. PerPixel(s) \in 1 .. 6 /\ DOMAIN A = 1 .. PerPixel(s)
    BY <1>0, <2>3
  <2>. QED
    BY <2>4, Zenon DEF A
<1>5. CASE s = 5
  <2>1. \E a1, a2, a3, a4 : A = <<a1, a2, a3, a4>>
    BY <1>5 DEF Addresses
  <2>2. \E a1, a2, a3, a4 : Z = <<a1, a2, a3, a4>>
    BY <1>5 DEF Addresses
  <2>. HIDE DEF A, Z
  <2>3. DOMAIN A = 1 .. 4 /\ Len(Z) = 4
    BY SMT, <2>1, <2>2
  <2>4. PerPixel(s) \in 1 .. 6 /\ DOMAIN A = 1 .. PerPixel(s)
    BY <1>0, <2>3
  <2>. QED
    BY <2>4, Zenon DEF A
<1>6. CASE s = 6
  <2>1. \E a1, a2 : A = <<a1, a2>>
    BY <1>6 DEF Addresses
  <2>2. \E a1, a2 : Z = <<a1, a2>>
    BY <1>6 DEF Addresses
  <2>. HIDE DEF A, Z
  <2>3. DOMAIN A = 1 .. 2 /\ Len(Z) = 2
    BY SMT, <2>1, <2>2
  <2>4. PerPixel(s) \in 1 .. 6 /\ DOMAIN A = 1 .. PerPixel(s)
    BY <1>0, <2>3
  <2>. QED
    BY <2>4, Zenon DEF A
<1>. QED
  BY SMT, <1>1, <1>2, <1>3, <1>4, <1>5, <1>6

(* The accesses to a pixel of the window are a sequence of pages of the    *)
(* input, and those to the pixel that is written one of pages of the       *)
(* output.                                                                 *)
LEMMA PixelPages ==
  ASSUME TheProgram, k \in 0 .. MaxRadius, NEW s \in 1 .. 6,
         NEW r \in 0 .. HEIGHT - 1, NEW c \in 0 .. WIDTH - 1
  PROVE  /\ \A row \in rowstart(r) .. rowend(r), col \in colstart(c) .. colend(c) :
              accessPixel(s, row, col, 0) \in Seq(InputPages)
         /\ accessPixel(s, r, c, OUTPUT_OFFSET) \in Seq(OutputPages)
         /\ Len(accessPixel(s, r, c, OUTPUT_OFFSET)) = PerPixel(s)
<1>1. ASSUME NEW row, NEW col, NEW offset, NEW P,
             \A x \in DOMAIN accessPixel(s, row, col, offset) :
               accessPixel(s, row, col, offset)[x] \in P
      PROVE  /\ accessPixel(s, row, col, offset) \in Seq(P)
             /\ Len(accessPixel(s, row, col, offset)) = PerPixel(s)
  <2>. DEFINE a == accessPixel(s, row, col, offset)
  <2>1. PerPixel(s) \in Nat /\ DOMAIN Addresses(s, row, col, offset) = 1 .. PerPixel(s)
    BY AddressLength
  <2>2. a = [x \in DOMAIN Addresses(s, row, col, offset) |->
                Addresses(s, row, col, offset)[x] \div PAGE_SIZE]
    BY DEF accessPixel
  <2>3. DOMAIN a = 1 .. PerPixel(s) /\ a = [x \in 1 .. PerPixel(s) |-> a[x]]
    BY <2>1, <2>2, Zenon
  <2>4. \A x \in 1 .. PerPixel(s) : a[x] \in P
    BY <1>1, <2>3
  <2>. HIDE DEF a
  <2>5. a \in [1 .. PerPixel(s) -> P]
    BY <2>3, <2>4
  <2>6. a \in Seq(P) /\ Len(a) = PerPixel(s)
    BY <2>1, <2>5
  <2>. QED
    BY <2>6 DEF a
<1>. QED
  BY <1>1, RealImagesApart, Zenon

(* The pages of a pixel that are still to be accessed: those of the input, *)
(* then those of the output, of which there are at most PerPixel.          *)
Apart(s, t) == /\ t \in Seq(Pages)
               /\ \A x \in 1 .. Len(t) : IF x <= Len(t) - PerPixel(s)
                                         THEN t[x] \in InputPages ELSE t[x] \in OutputPages

LEMMA AccessesApart ==
  ASSUME TheProgram, k \in 0 .. MaxRadius, NEW s \in 1 .. 6,
         NEW r \in 0 .. HEIGHT - 1, NEW c \in 0 .. WIDTH - 1
  PROVE  Apart(s, Accesses(s, r, c))
<1>. DEFINE rows == rowend(r) - rowstart(r)
            cols == colend(c) - colstart(c)
            Read == Joined([y \in 0 .. rows |-> Row(s, r, c, rowstart(r) + y)], rows + 1)
            Written == accessPixel(s, r, c, OUTPUT_OFFSET)
<1>1. /\ rows \in Nat /\ cols \in Nat
      /\ rowstart(r) \in Nat /\ rowend(r) = rowstart(r) + rows
      /\ colstart(c) \in Nat /\ colend(c) = colstart(c) + cols
  <2>1. r \in Nat /\ c \in Nat /\ k \in Nat
    BY DEF TheProgram, MaxRadius
  <2>. QED
    BY <2>1, Window
<1>. HIDE DEF rows, cols
<1>2. ASSUME NEW row \in rowstart(r) .. rowend(r) PROVE Row(s, r, c, row) \in Seq(InputPages)
  <2>. DEFINE parts == [x \in 0 .. cols |->
                          IF Near(r, c, row, colstart(c) + x)
                          THEN accessPixel(s, row, colstart(c) + x, 0) ELSE <<>>]
  <2>1. ASSUME NEW x \in 0 .. cols PROVE parts[x] \in Seq(InputPages)
    <3>1. colstart(c) + x \in colstart(c) .. colend(c)
      BY <1>1
    <3>2. accessPixel(s, row, colstart(c) + x, 0) \in Seq(InputPages)
      BY <3>1, PixelPages
    <3>3. <<>> \in Seq(InputPages)
      OBVIOUS
    <3>4. parts[x] = accessPixel(s, row, colstart(c) + x, 0) \/ parts[x] = <<>>
      BY Zenon
    <3>. QED
      BY <3>2, <3>3, <3>4, Zenon
  <2>2. parts = [x \in 0 .. cols |-> parts[x]]
    BY Zenon
  <2>3. Row(s, r, c, row) = Joined(parts, cols + 1)
    BY Zenon DEF Row, cols
  <2>. HIDE DEF parts
  <2>4. cols + 1 \in Nat
    BY <1>1
  <2>5. parts \in [0 .. cols -> Seq(InputPages)]
    BY <2>1, <2>2, Zenon
  <2>7. Joined(parts, cols + 1) \in Seq(InputPages)
    <3>1. PICK m \in Nat : m = cols + 1
      BY <2>4
    <3>2. parts \in [0 .. m - 1 -> Seq(InputPages)]
      <4>1. m - 1 = cols
        BY <1>1, <3>1
      <4>. QED
        BY <2>5, <4>1, Zenon
    <3>3. Joined(parts, m) \in Seq(InputPages)
      BY <3>2, JoinedIsSeq, Zenon
    <3>. QED
      BY <3>1, <3>3, Zenon
  <2>. QED
    BY <2>3, <2>7, Zenon
<1>3. Read \in Seq(InputPages)
  <2>. DEFINE parts == [y \in 0 .. rows |-> Row(s, r, c, rowstart(r) + y)]
  <2>1. ASSUME NEW y \in 0 .. rows PROVE parts[y] \in Seq(InputPages)
    <3>1. rowstart(r) + y \in rowstart(r) .. rowend(r)
      BY <1>1
    <3>. QED
      BY <1>2, <3>1, Zenon
  <2>2. parts \in [0 .. rows -> Seq(InputPages)]
    BY <2>1, Zenon
  <2>3. rows + 1 \in Nat
    BY <1>1
  <2>. HIDE DEF parts
  <2>5. Joined(parts, rows + 1) \in Seq(InputPages)
    <3>1. PICK m \in Nat : m = rows + 1
      BY <2>3
    <3>2. parts \in [0 .. m - 1 -> Seq(InputPages)]
      <4>1. m - 1 = rows
        BY <1>1, <3>1
      <4>. QED
        BY <2>2, <4>1, Zenon
    <3>3. Joined(parts, m) \in Seq(InputPages)
      BY <3>2, JoinedIsSeq, Zenon
    <3>. QED
      BY <3>1, <3>3, Zenon
  <2>. QED
    BY <2>5 DEF parts
<1>4. Written \in Seq(OutputPages) /\ Len(Written) = PerPixel(s)
  BY PixelPages, Zenon
<1>5. Accesses(s, r, c) = Read \o Written
  BY Zenon DEF Accesses, rows
<1>6. PerPixel(s) \in 1 .. 6
  BY AddressLength
<1>7. InputPages \subseteq Pages /\ OutputPages \subseteq Pages
  <2>1. PICK q \in Nat : OUTPUT_OFFSET \div PAGE_SIZE = q /\ q <= PT_SIZE /\ PT_SIZE \in Nat
    <3>1. 10000000 \div 4096 = 2441
      OBVIOUS
    <3>. QED
      BY <3>1 DEF TheProgram
  <2>2. InputPages = 0 .. q - 1 /\ OutputPages = q .. PT_SIZE - 1
    BY <2>1 DEF InputPages, OutputPages
  <2>. QED
    BY <2>1, <2>2 DEF Pages
<1>. HIDE DEF Read, Written
<1>8. PICK t : t = Read \o Written
  OBVIOUS
<1>9. /\ t \in Seq(Pages) /\ Len(t) = Len(Read) + PerPixel(s) /\ Len(Read) \in Nat
      /\ \A x \in 1 .. Len(t) : t[x] = IF x <= Len(Read) THEN Read[x] ELSE Written[x - Len(Read)]
  BY <1>3, <1>4, <1>6, <1>7, <1>8
<1>10. ASSUME NEW x \in 1 .. Len(t)
       PROVE  IF x <= Len(t) - PerPixel(s) THEN t[x] \in InputPages ELSE t[x] \in OutputPages
  <2>1. x <= Len(t) - PerPixel(s) <=> x <= Len(Read)
    <3>1. \A a, b \in Nat : a + b - b = a
      OBVIOUS
    <3>. QED
      BY <1>6, <1>9, <3>1
  <2>2. CASE x <= Len(Read)
    BY <1>3, <1>9, <2>1, <2>2
  <2>3. CASE ~ (x <= Len(Read))
    <3>1. x - Len(Read) \in 1 .. Len(Written)
      BY <1>4, <1>6, <1>9, <2>3
    <3>2. Written[x - Len(Read)] \in OutputPages
      BY <1>4, <3>1
    <3>. QED
      BY <1>9, <2>1, <2>3, <3>2
  <2>. QED
    BY <2>2, <2>3
<1>11. Apart(s, t)
  BY <1>9, <1>10, Zenon DEF Apart
<1>. QED
  BY <1>5, <1>8, <1>11, Zenon
-----------------------------------------------------------------------------
(* The places of the loops, and what is left to access for one pixel.      *)
Blurring == /\ k \in Radii /\ f \in Frames
            /\ scheme \in 1 .. 6 /\ i \in 0 .. HEIGHT - 1 /\ j \in 0 .. WIDTH - 1
            /\ Apart(scheme, todo)

LEMMA BlurringInit ==
  ASSUME TheProgram, Radii \subseteq 0 .. MaxRadius, Init PROVE Blurring
<1>1. /\ k \in Radii /\ f \in Frames /\ scheme = 1 /\ i = 0 /\ j = 0
      /\ todo = Accesses(1, 0, 0)
  BY DEF Init
<1>2. k \in 0 .. MaxRadius /\ 1 \in 1 .. 6 /\ 0 \in 0 .. HEIGHT - 1 /\ 0 \in 0 .. WIDTH - 1
  BY <1>1 DEF TheProgram
<1>3. Apart(1, Accesses(1, 0, 0))
  BY <1>2, AccessesApart, Zenon
<1>. QED
  BY <1>1, <1>2, <1>3, Zenon DEF Blurring

(* Of the pages to access the first one goes.                              *)
LEMMA TailApart ==
  ASSUME NEW s \in 1 .. 6, NEW t, Apart(s, t), t # <<>>
  PROVE  Apart(s, Tail(t)) /\ Head(t) \in Pages
<1>1. t \in Seq(Pages) /\ PerPixel(s) \in Nat
  BY AddressLength DEF Apart
<1>2. PICK h : h = Tail(t)
  OBVIOUS
<1>3. /\ h \in Seq(Pages) /\ Len(t) \in Nat /\ Len(h) = Len(t) - 1
      /\ \A x \in 1 .. Len(h) : h[x] = t[x+1]
      /\ Head(t) \in Pages
  BY <1>1, <1>2
<1>4. ASSUME NEW x \in 1 .. Len(h)
      PROVE  IF x <= Len(h) - PerPixel(s) THEN h[x] \in InputPages ELSE h[x] \in OutputPages
  <2>1. /\ x + 1 \in 1 .. Len(t) /\ h[x] = t[x+1]
        /\ x <= Len(h) - PerPixel(s) <=> x + 1 <= Len(t) - PerPixel(s)
    BY <1>1, <1>3
  <2>2. IF x + 1 <= Len(t) - PerPixel(s) THEN t[x+1] \in InputPages ELSE t[x+1] \in OutputPages
    BY <2>1, Zenon DEF Apart
  <2>. QED
    BY <2>1, <2>2, Zenon
<1>5. Apart(s, h)
  BY <1>3, <1>4, Zenon DEF Apart
<1>. QED
  BY <1>2, <1>3, <1>5, Zenon

LEMMA BlurringNext ==
  ASSUME TheProgram, Radii \subseteq 0 .. MaxRadius, Blurring, [Next]_vars PROVE Blurring'
<1>1. CASE accessPage
  <2>1. /\ todo # <<>> /\ todo' = Tail(todo)
        /\ UNCHANGED <<k, f, scheme, i, j>>
    BY <1>1 DEF accessPage, args, loops
  <2>2. Apart(scheme, Tail(todo))
    BY <2>1, TailApart DEF Blurring
  <2>. QED
    BY <2>1, <2>2, Zenon DEF Blurring
<1>2. CASE NextPixel
  <2>1. /\ i' \in 0 .. HEIGHT - 1 /\ j' \in 0 .. WIDTH - 1
        /\ todo' = Accesses(scheme, i', j')
        /\ UNCHANGED <<k, f, scheme>>
    BY <1>2 DEF NextPixel, Blurring, args, TheProgram
  <2>2. k \in 0 .. MaxRadius
    BY DEF Blurring
  <2>3. Apart(scheme, todo')
    BY <2>1, <2>2, AccessesApart, Zenon DEF Blurring
  <2>. QED
    BY <2>1, <2>3, Zenon DEF Blurring
<1>3. CASE NextScheme
  <2>1. /\ scheme' \in 1 .. 6 /\ i' = 0 /\ j' = 0 /\ todo' = Accesses(scheme', 0, 0)
        /\ UNCHANGED <<k, f>>
    BY <1>3 DEF NextScheme, Blurring, args
  <2>2. k \in 0 .. MaxRadius /\ 0 \in 0 .. HEIGHT - 1 /\ 0 \in 0 .. WIDTH - 1
    BY DEF Blurring, TheProgram
  <2>3. Apart(scheme', todo')
    BY <2>1, <2>2, AccessesApart, Zenon
  <2>. QED
    BY <2>1, <2>2, <2>3, Zenon DEF Blurring
<1>4. CASE UNCHANGED vars
  BY <1>4, Zenon DEF vars, args, loops, Blurring
<1>. QED
  BY <1>1, <1>2, <1>3, <1>4, Zenon DEF Next

(* The program never mixes up the pages of its two images, and never goes  *)
(* beyond its table, in any of the six layouts: with the constants of      *)
(* LRU.c, every radius of at most 219 and any number of frames.            *)
THEOREM ApartInTheProgram ==
  TheProgram /\ Radii \subseteq 0 .. MaxRadius /\ Spec => []ImagesApart
<1>. SUFFICES ASSUME TheProgram, Radii \subseteq 0 .. MaxRadius
     PROVE  Spec => []ImagesApart
  OBVIOUS
<1>1. Init => Blurring
  BY BlurringInit
<1>2. Blurring /\ [Next]_vars => Blurring'
  BY BlurringNext
<1>3. Blurring => ImagesApart
  <2>. SUFFICES ASSUME Blurring, NEW x \in 1 .. Len(todo)
       PROVE  IF x <= Len(todo) - PerPixel(scheme)
              THEN todo[x] < OUTPUT_OFFSET \div PAGE_SIZE
              ELSE todo[x] \in OUTPUT_OFFSET \div PAGE_SIZE .. PT_SIZE - 1
    BY DEF ImagesApart
  <2>1. IF x <= Len(todo) - PerPixel(scheme) THEN todo[x] \in InputPages
                                             ELSE todo[x] \in OutputPages
    BY Zenon DEF Blurring, Apart
  <2>2. PICK q \in Nat : OUTPUT_OFFSET \div PAGE_SIZE = q
    <3>1. 10000000 \div 4096 = 2441
      OBVIOUS
    <3>. QED
      BY <3>1 DEF TheProgram
  <2>3. \A p \in InputPages : p < q
    BY <2>2 DEF InputPages
  <2>4. OutputPages = q .. PT_SIZE - 1
    BY <2>2, Zenon DEF OutputPages
  <2>. QED
    BY <2>1, <2>2, <2>3, <2>4, Zenon
<1>. QED
  BY <1>1, <1>2, <1>3, PTL DEF Spec
-----------------------------------------------------------------------------
(* The list.  nd is the sequence of its nodes from the front on: the       *)
(* pointers lead along it in both directions, and the table leads to it.   *)
(* With one frame the only node may be its own neighbour.                  *)
ListTypes == /\ f \in Nat \ {0} /\ length \in 0 .. f
             /\ prev \in [1 .. f -> 0 .. f] /\ next \in [1 .. f -> 0 .. f]
             /\ page_no \in [1 .. f -> Nat] /\ PT \in [Pages -> 0 .. f]

Chain(nd) == /\ nd \in [1 .. length -> 1 .. length]
             /\ \A x, y \in 1 .. length : nd[x] = nd[y] => x = y

Ends(nd) == /\ length = 0 => front = NULL /\ back = NULL
            /\ length > 0 => front = nd[1] /\ back = nd[length]
            /\ length > 0 /\ f > 1 => prev[front] = NULL /\ next[back] = NULL

Links(nd) == \A x \in 1 .. length - 1 : next[nd[x]] = nd[x+1] /\ prev[nd[x+1]] = nd[x]

Table(nd) == /\ \A x \in 1 .. length : page_no[nd[x]] \in Pages /\ PT[page_no[nd[x]]] = nd[x]
             /\ \A p \in Pages : PT[p] # NULL =>
                  \E x \in 1 .. length : nd[x] = PT[p] /\ page_no[nd[x]] = p

Listed(nd) == ListTypes /\ Chain(nd) /\ Ends(nd) /\ Links(nd) /\ Table(nd)

LEMMA ListFacts ==
  ASSUME NEW nd, Listed(nd)
  PROVE  /\ f \in Nat /\ f > 0 /\ length \in Nat /\ length <= f
         /\ \A x \in 1 .. length : nd[x] \in 1 .. length /\ nd[x] \in 1 .. f /\ nd[x] # NULL
         /\ length = 0 => front = NULL /\ back = NULL
         /\ length > 0 => /\ front = nd[1] /\ front \in 1 .. length /\ front \in 1 .. f
                          /\ back = nd[length] /\ back \in 1 .. length /\ back \in 1 .. f
         /\ front \in 0 .. length /\ back \in 0 .. length
         /\ Pages \subseteq Nat
<1>0. nd \in [1 .. length -> 1 .. length]
  BY Zenon DEF Listed, Chain
<1>1. f \in Nat /\ f > 0 /\ length \in Nat /\ length <= f
  BY DEF Listed, ListTypes
<1>2. \A x \in 1 .. length : nd[x] \in 1 .. length /\ nd[x] \in 1 .. f /\ nd[x] # NULL
  BY <1>0, <1>1 DEF NULL
<1>3. length = 0 => front = NULL /\ back = NULL
  BY Zenon DEF Listed, Ends
<1>4. length > 0 => front = nd[1] /\ back = nd[length]
  BY Zenon DEF Listed, Ends
<1>5. length > 0 => 1 \in 1 .. length /\ length \in 1 .. length
  BY <1>1
<1>6. length > 0 => /\ front \in 1 .. length /\ front \in 1 .. f
                    /\ back \in 1 .. length /\ back \in 1 .. f
  BY <1>2, <1>4, <1>5, Zenon
<1>7. front \in 0 .. length /\ back \in 0 .. length
  BY <1>1, <1>3, <1>6 DEF NULL
<1>8. Pages \subseteq Nat
  BY LRUAssumption DEF Pages
<1>. QED
  BY <1>1, <1>2, <1>3, <1>4, <1>6, <1>7, <1>8, Zenon

(* A node comes to the front that was not in the list yet.                 *)
LEMMA NewNode ==
  ASSUME NEW nd, Listed(nd), NEW p \in Pages, Fault(p), f' = f, length < f
  PROVE  \E e : /\ Listed(e)' /\ length' = length + 1 /\ e[1] = length + 1
                /\ \A x \in 1 .. length : e[x+1] = nd[x]
                /\ page_no' = [page_no EXCEPT ![length + 1] = p]
<1>. USE DEF NULL
<1>0. PICK n, e : n = length + 1 /\ e = [x \in 1 .. n |-> IF x = 1 THEN n ELSE nd[x-1]]
  OBVIOUS
<1>1. Chain(nd) /\ Ends(nd) /\ Links(nd) /\ Table(nd)
  BY Zenon DEF Listed
<1>2. /\ f \in Nat /\ length \in Nat /\ Pages \subseteq Nat
      /\ \A x \in 1 .. length : nd[x] \in 1 .. length /\ nd[x] \in 1 .. f /\ nd[x] # 0
      /\ front \in 0 .. length /\ back \in 0 .. length
      /\ length = 0 => front = 0 /\ back = 0
      /\ length > 0 => front = nd[1] /\ back = nd[length] /\ front # 0 /\ back # 0
  BY ListFacts
<1>3. n \in 1 .. f /\ ~ (length >= f) /\ n # 0 /\ n = length + 1
  BY <1>0, <1>2
<1>4. /\ prev \in [1 .. f -> 0 .. f] /\ next \in [1 .. f -> 0 .. f]
      /\ page_no \in [1 .. f -> Nat] /\ PT \in [Pages -> 0 .. f]
  BY Zenon DEF Listed, ListTypes
<1>5. /\ length' = n /\ page_no' = [page_no EXCEPT ![n] = p]
      /\ PT' = [PT EXCEPT ![p] = n] /\ next' = [next EXCEPT ![n] = front]
      /\ prev' = IF front # 0 THEN [[prev EXCEPT ![n] = 0] EXCEPT ![front] = n]
                 ELSE [prev EXCEPT ![n] = 0]
      /\ front' = n /\ back' = (IF back # 0 THEN back ELSE n)
  BY <1>3 DEF Fault, handlePageFault
<1>6. /\ n \in Nat /\ n = length + 1
      /\ \A x \in 1 .. length : x + 1 \in 1 .. n /\ x + 1 # 1 /\ x + 1 - 1 = x
      /\ \A x \in 1 .. n : x # 1 => x - 1 \in 1 .. length
      /\ 1 \in 1 .. n
  BY <1>0, <1>2
<1>21. \A x \in 1 .. n : e[x] = IF x = 1 THEN n ELSE nd[x-1]
  BY <1>0, Zenon
<1>7. /\ e[1] = n
      /\ \A x \in 1 .. length : e[x+1] = nd[x]
      /\ \A x \in 1 .. n : x # 1 => e[x] = nd[x-1]
  BY <1>6, <1>21
<1>8. \A x \in 1 .. n : e[x] \in 1 .. n
  BY <1>2, <1>6, <1>7
<1>9. e \in [1 .. n -> 1 .. n]
  BY <1>0, <1>8, Zenon
<1>10. \A m \in 1 .. f : next'[m] = IF m = n THEN front ELSE next[m]
  BY <1>4, <1>5
<1>11. \A m \in 1 .. f : m # front => prev'[m] = IF m = n THEN 0 ELSE prev[m]
  BY <1>4, <1>5
<1>12. front # 0 => prev'[front] = n
  <2>. SUFFICES ASSUME front # 0 PROVE prev'[front] = n
    OBVIOUS
  <2>1. front \in 1 .. f
    BY <1>2
  <2>. QED
    BY <1>4, <1>5, <2>1
<1>13. \A m \in 1 .. f : page_no'[m] = IF m = n THEN p ELSE page_no[m]
  BY <1>4, <1>5
<1>14. \A r \in Pages : PT'[r] = IF r = p THEN n ELSE PT[r]
  BY <1>4, <1>5
<1>15. ListTypes'
  <2>1. /\ front \in 0 .. f /\ f' \in Nat \ {0} /\ length' \in 0 .. f' /\ n \in 0 .. f
        /\ p \in Nat /\ 0 \in 0 .. f
    BY <1>2, <1>3, <1>5
  <2>2. next' \in [1 .. f -> 0 .. f]
    BY <1>4, <1>5, <2>1
  <2>3. prev' \in [1 .. f -> 0 .. f]
    BY <1>4, <1>5, <2>1
  <2>4. page_no' \in [1 .. f -> Nat]
    BY <1>4, <1>5, <2>1
  <2>5. PT' \in [Pages -> 0 .. f]
    BY <1>4, <1>5, <2>1
  <2>. QED
    BY <2>1, <2>2, <2>3, <2>4, <2>5, Zenon DEF ListTypes
<1>16. Chain(e)'
  <2>1. ASSUME NEW x \in 1 .. n, NEW y \in 1 .. n, e[x] = e[y] PROVE x = y
    <3>1. CASE x = 1 /\ y = 1
      BY <3>1
    <3>2. CASE x = 1 /\ y # 1
      <4>1. nd[y-1] \in 1 .. length /\ nd[y-1] = n
        BY <1>2, <1>6, <1>7, <2>1, <3>2
      <4>. QED
        BY <1>2, <1>3, <4>1
    <3>3. CASE x # 1 /\ y = 1
      <4>1. nd[x-1] \in 1 .. length /\ nd[x-1] = n
        BY <1>2, <1>6, <1>7, <2>1, <3>3
      <4>. QED
        BY <1>2, <1>3, <4>1
    <3>4. CASE x # 1 /\ y # 1
      <4>1. x - 1 \in 1 .. length /\ y - 1 \in 1 .. length /\ nd[x-1] = nd[y-1]
        BY <1>6, <1>7, <2>1, <3>4
      <4>2. x - 1 = y - 1
        BY <1>1, <4>1, Zenon DEF Chain
      <4>. QED
        BY <4>2
    <3>. QED
      BY <3>1, <3>2, <3>3, <3>4
  <2>. QED
    BY <1>5, <1>9, <2>1, Zenon DEF Chain
<1>17. Ends(e)'
  <2>1. front' = e[1] /\ prev'[front'] = 0
    <3>1. n # front
      BY <1>2, <1>3
    <3>2. prev'[n] = 0
      BY <1>3, <1>11, <3>1
    <3>. QED
      BY <1>5, <1>7, <3>2, Zenon
  <2>2. back' = e[n] /\ (f > 1 => next'[back'] = 0)
    <3>1. CASE length = 0
      BY <1>2, <1>3, <1>5, <1>6, <1>7, <1>10, <3>1
    <3>2. CASE length > 0
      <4>1. back' = back /\ back = nd[length] /\ back # n /\ back \in 1 .. f
        BY <1>2, <1>3, <1>5, <3>2
      <4>2. f > 1 => next[back] = 0
        BY <1>1, <3>2, Zenon DEF Ends
      <4>3. length \in 1 .. length
        BY <1>2, <3>2
      <4>4. e[n] = nd[length]
        BY <1>6, <1>7, <4>3
      <4>5. next'[back] = next[back]
        BY <1>10, <4>1
      <4>. QED
        BY <4>1, <4>2, <4>4, <4>5, Zenon
    <3>. QED
      BY <1>2, <3>1, <3>2
  <2>. QED
    BY <1>3, <1>5, <2>1, <2>2, Zenon DEF Ends
<1>18. Links(e)'
  <2>1. ASSUME NEW x \in 1 .. length PROVE next'[e[x]] = e[x+1] /\ prev'[e[x+1]] = e[x]
    <3>1. CASE x = 1
      <4>1. front = nd[1] /\ front # 0 /\ e[2] = nd[1]
        BY <1>2, <1>7, <3>1
      <4>. QED
        BY <1>3, <1>6, <1>7, <1>10, <1>12, <3>1, <4>1
    <3>2. CASE x # 1
      <4>1. x - 1 \in 1 .. length - 1 /\ x - 1 \in 1 .. length /\ x - 1 + 1 = x
            /\ x \in 1 .. n /\ 1 \in 1 .. length /\ length > 0
        BY <1>2, <1>3, <3>2
      <4>2. e[x] = nd[x-1] /\ e[x+1] = nd[x]
        BY <1>7, <3>2, <4>1, Zenon
      <4>3. next[nd[x-1]] = nd[x] /\ prev[nd[x]] = nd[x-1]
        BY <1>1, <4>1, Zenon DEF Links
      <4>4. nd[x] # nd[1]
        BY <1>1, <3>2, <4>1, Zenon DEF Chain
      <4>5. nd[x] # front
        BY <1>2, <4>1, <4>4, Zenon
      <4>6. nd[x-1] \in 1 .. f /\ nd[x-1] # n /\ nd[x] \in 1 .. f /\ nd[x] # n
        <5>1. nd[x-1] \in 1 .. length /\ nd[x-1] \in 1 .. f /\ nd[x] \in 1 .. length /\ nd[x] \in 1 .. f
          BY <1>2, <4>1, Zenon
        <5>. QED
          BY <1>2, <1>3, <5>1
      <4>7. next'[nd[x-1]] = next[nd[x-1]] /\ prev'[nd[x]] = prev[nd[x]]
        BY <1>10, <1>11, <4>5, <4>6, Zenon
      <4>. QED
        BY <4>2, <4>3, <4>7, Zenon
    <3>. QED
      BY <3>1, <3>2
  <2>2. length' - 1 = length
    BY <1>2, <1>3, <1>5
  <2>. QED
    BY <2>1, <2>2, Zenon DEF Links
<1>19. Table(e)'
  <2>1. ASSUME NEW x \in 1 .. n
        PROVE  page_no'[e[x]] \in Pages /\ PT'[page_no'[e[x]]] = e[x]
    <3>1. CASE x = 1
      BY <1>3, <1>6, <1>7, <1>13, <1>14, <3>1
    <3>2. CASE x # 1
      <4>1. x - 1 \in 1 .. length /\ e[x] = nd[x-1]
        BY <1>6, <1>7, <3>2, Zenon
      <4>2. PICK m : m = nd[x-1] /\ m \in 1 .. length /\ m \in 1 .. f
        BY <1>2, <4>1, Zenon
      <4>3. page_no[m] \in Pages /\ PT[page_no[m]] = m /\ m # 0
        BY <1>1, <4>1, <4>2 DEF Table
      <4>4. m # n /\ page_no[m] # p
        BY <1>2, <1>3, <4>2, <4>3 DEF Fault
      <4>5. page_no'[m] = page_no[m] /\ PT'[page_no[m]] = PT[page_no[m]]
        BY <1>13, <1>14, <4>2, <4>3, <4>4, Zenon
      <4>. QED
        BY <4>1, <4>2, <4>3, <4>5, Zenon
    <3>. QED
      BY <3>1, <3>2
  <2>2. ASSUME NEW r \in Pages, PT'[r] # 0
        PROVE  \E x \in 1 .. n : e[x] = PT'[r] /\ page_no'[e[x]] = r
    <3>1. CASE r = p
      <4>1. 1 \in 1 .. n
        BY <1>6
      <4>. QED
        BY <1>3, <1>7, <1>13, <1>14, <3>1, <4>1
    <3>2. CASE r # p
      <4>1. PT'[r] = PT[r]
        BY <1>14, <3>2
      <4>2. PICK x \in 1 .. length : nd[x] = PT[r] /\ page_no[nd[x]] = r
        BY <1>1, <2>2, <4>1, Zenon DEF Table
      <4>3. x + 1 \in 1 .. n /\ e[x+1] = nd[x]
        BY <1>6, <1>7, Zenon
      <4>4. nd[x] \in 1 .. f /\ nd[x] # n
        <5>1. nd[x] \in 1 .. length /\ nd[x] \in 1 .. f
          BY <1>2, Zenon
        <5>. QED
          BY <1>2, <1>3, <5>1
      <4>5. page_no'[nd[x]] = page_no[nd[x]]
        BY <1>13, <4>4, Zenon
      <4>. QED
        BY <4>1, <4>2, <4>3, <4>5, Zenon
    <3>. QED
      BY <3>1, <3>2
  <2>. QED
    BY <1>5, <2>1, <2>2, Zenon DEF Table
<1>20. Listed(e)'
  BY <1>15, <1>16, <1>17, <1>18, <1>19, Zenon DEF Listed
<1>. QED
  BY <1>5, <1>6, <1>7, <1>20, Zenon

(* The node at h comes to the front: at x is the node that was at From.    *)
From(h, x) == IF x = 1 THEN h ELSE IF x <= h THEN x - 1 ELSE x

(* What both ways to bring a node to the front do to the pointers.         *)
Relink(nd, h) ==
  /\ length' = length /\ f' = f /\ front' = nd[h]
  /\ back' = IF h = length THEN nd[h-1] ELSE back
  /\ next'[nd[h]] = front /\ prev'[nd[h]] = NULL /\ prev'[front] = nd[h]
  /\ next'[nd[h-1]] = IF h = length THEN NULL ELSE nd[h+1]
  /\ h < length => prev'[nd[h+1]] = nd[h-1]
  /\ \A y \in 1 .. length : y # h /\ y # h - 1 => next'[nd[y]] = next[nd[y]]
  /\ \A y \in 1 .. length : y # h /\ y # 1 /\ y # h + 1 => prev'[nd[y]] = prev[nd[y]]

LEMMA FromIsABijection ==
  ASSUME NEW m \in Nat, NEW h \in 2 .. m
  PROVE  /\ \A x \in 1 .. m : From(h, x) \in 1 .. m
         /\ \A x, y \in 1 .. m : From(h, x) = From(h, y) => x = y
         /\ \A y \in 1 .. m : \E x \in 1 .. m : From(h, x) = y
<1>1. \A x \in 1 .. m : From(h, x) \in 1 .. m
  BY DEF From
<1>2. \A x, y \in 1 .. m : From(h, x) = From(h, y) => x = y
  BY DEF From
<1>3. ASSUME NEW y \in 1 .. m PROVE \E x \in 1 .. m : From(h, x) = y
  <2>1. CASE y = h
    BY <2>1 DEF From
  <2>2. CASE y < h
    <3>1. y + 1 \in 1 .. m /\ From(h, y + 1) = y
      BY <2>2 DEF From
    <3>. QED
      BY <3>1
  <2>3. CASE y > h
    <3>1. From(h, y) = y
      BY <2>3 DEF From
    <3>. QED
      BY <3>1
  <2>. QED
    BY <2>1, <2>2, <2>3
<1>. QED
  BY <1>1, <1>2, <1>3

LEMMA Relinked ==
  ASSUME NEW nd, Listed(nd), NEW h \in 2 .. length, Relink(nd, h),
         NEW e, e = [x \in 1 .. length |-> nd[From(h, x)]]
  PROVE  Chain(e)' /\ Ends(e)' /\ Links(e)'
<1>. USE DEF NULL
<1>1. Chain(nd) /\ Ends(nd) /\ Links(nd)
  BY Zenon DEF Listed
<1>2. /\ f \in Nat /\ length \in Nat /\ length <= f
      /\ \A x \in 1 .. length : nd[x] \in 1 .. length
      /\ length > 0 => front = nd[1] /\ back = nd[length]
  BY ListFacts
<1>3. /\ length \in Nat /\ h \in Nat /\ h > 1 /\ h <= length /\ length > 0 /\ f > 1
      /\ h - 1 \in 1 .. length /\ h \in 1 .. length /\ 1 \in 1 .. length
      /\ length \in 1 .. length
  BY <1>2
<1>4. /\ \A x \in 1 .. length : From(h, x) \in 1 .. length
      /\ \A x, y \in 1 .. length : From(h, x) = From(h, y) => x = y
  BY <1>3, FromIsABijection
<1>5. \A x \in 1 .. length : e[x] = nd[From(h, x)]
  OBVIOUS
<1>6. /\ e[1] = nd[h]
      /\ \A x \in 2 .. h : x \in 1 .. length /\ e[x] = nd[x-1]
      /\ \A x \in h + 1 .. length : x \in 1 .. length /\ e[x] = nd[x]
  <2>1. From(h, 1) = h
    BY DEF From
  <2>2. \A x \in 2 .. h : x \in 1 .. length /\ From(h, x) = x - 1
    BY <1>3 DEF From
  <2>3. \A x \in h + 1 .. length : x \in 1 .. length /\ From(h, x) = x
    BY <1>3 DEF From
  <2>. QED
    BY <1>3, <1>5, <2>1, <2>2, <2>3, Zenon
<1>7. length' = length /\ f' = f
  BY Zenon DEF Relink
<1>8. Chain(e)'
  <2>1. \A x \in 1 .. length : e[x] \in 1 .. length
    BY <1>2, <1>4, <1>5, Zenon
  <2>2. e \in [1 .. length -> 1 .. length]
    BY <2>1, Zenon
  <2>3. ASSUME NEW x \in 1 .. length, NEW y \in 1 .. length, e[x] = e[y] PROVE x = y
    <3>1. nd[From(h, x)] = nd[From(h, y)]
      BY <1>5, <2>3, Zenon
    <3>2. From(h, x) = From(h, y)
      BY <1>1, <1>4, <3>1, Zenon DEF Chain
    <3>. QED
      BY <1>4, <3>2, Zenon
  <2>. QED
    BY <1>7, <2>2, <2>3, Zenon DEF Chain
<1>9. Ends(e)'
  <2>1. front' = e[1] /\ prev'[front'] = NULL
    BY <1>6, Zenon DEF Relink
  <2>2. CASE h = length
    <3>1. back' = nd[h-1] /\ next'[nd[h-1]] = NULL
      BY <2>2, Zenon DEF Relink
    <3>2. e[length] = nd[h-1]
      BY <1>3, <1>6, <2>2
    <3>. QED
      BY <1>3, <1>7, <2>1, <3>1, <3>2 DEF Ends
  <2>3. CASE h # length
    <3>1. /\ length \in h + 1 .. length /\ length # h /\ length # h - 1
      BY <1>3, <2>3
    <3>2. back' = nd[length] /\ next'[nd[length]] = next[nd[length]]
      BY <1>2, <1>3, <3>1, Zenon DEF Relink
    <3>3. next[nd[length]] = NULL
      BY <1>1, <1>2, <1>3, Zenon DEF Ends
    <3>4. e[length] = nd[length]
      BY <1>6, <3>1, Zenon
    <3>. QED
      BY <1>3, <1>7, <2>1, <3>2, <3>3, <3>4 DEF Ends
  <2>. QED
    BY <2>2, <2>3
<1>10. Links(e)'
  <2>0. \A x \in 1 .. length - 1 : next[nd[x]] = nd[x+1] /\ prev[nd[x+1]] = nd[x]
    BY <1>1, Zenon DEF Links
  <2>1. ASSUME NEW x \in 1 .. length - 1 PROVE next'[e[x]] = e[x+1] /\ prev'[e[x+1]] = e[x]
    <3>1. CASE x = 1
      <4>1. e[2] = nd[1]
        BY <1>3, <1>6
      <4>2. next'[nd[h]] = front /\ prev'[front] = nd[h] /\ front = nd[1]
        BY <1>2, <1>3, Zenon DEF Relink
      <4>. QED
        BY <1>6, <3>1, <4>1, <4>2
    <3>2. CASE x > 1 /\ x < h
      <4>1. /\ x \in 2 .. h /\ x + 1 \in 2 .. h /\ x + 1 - 1 = x
            /\ x - 1 \in 1 .. length - 1 /\ x - 1 + 1 = x
            /\ x - 1 \in 1 .. length /\ x \in 1 .. length
            /\ x - 1 # h /\ x - 1 # h - 1 /\ x # h /\ x # 1 /\ x # h + 1
        BY <1>3, <3>2
      <4>2. e[x] = nd[x-1] /\ e[x+1] = nd[x]
        <5>1. PICK y \in 2 .. h : y = x + 1 /\ y - 1 = x
          BY <4>1
        <5>2. e[y] = nd[y-1] /\ e[x] = nd[x-1]
          BY <1>6, <4>1, Zenon
        <5>. QED
          BY <5>1, <5>2, Zenon
      <4>3. next'[nd[x-1]] = next[nd[x-1]] /\ prev'[nd[x]] = prev[nd[x]]
        BY <4>1, Zenon DEF Relink
      <4>4. next[nd[x-1]] = nd[x] /\ prev[nd[x]] = nd[x-1]
        <5>1. next[nd[x-1]] = nd[x-1+1] /\ prev[nd[x-1+1]] = nd[x-1]
          BY <2>0, <4>1, Zenon
        <5>. QED
          BY <4>1, <5>1, Zenon
      <4>. QED
        BY <4>2, <4>3, <4>4, Zenon
    <3>3. CASE x = h
      <4>1. x \in 2 .. h /\ x + 1 \in h + 1 .. length /\ h # length /\ h < length
        BY <1>3, <3>3
      <4>2. e[x] = nd[h-1] /\ e[x+1] = nd[h+1]
        BY <1>6, <3>3, <4>1, Zenon
      <4>. QED
        BY <4>1, <4>2, Zenon DEF Relink
    <3>4. CASE x > h
      <4>1. /\ x \in h + 1 .. length /\ x + 1 \in h + 1 .. length
            /\ x \in 1 .. length /\ x + 1 \in 1 .. length
            /\ x # h /\ x # h - 1 /\ x + 1 # h /\ x + 1 # 1 /\ x + 1 # h + 1
        BY <1>3, <3>4
      <4>2. e[x] = nd[x] /\ e[x+1] = nd[x+1]
        BY <1>6, <4>1, Zenon
      <4>3. next'[nd[x]] = next[nd[x]] /\ prev'[nd[x+1]] = prev[nd[x+1]]
        BY <4>1, Zenon DEF Relink
      <4>. QED
        BY <2>0, <4>2, <4>3, Zenon
    <3>. QED
      BY <1>3, <3>1, <3>2, <3>3, <3>4
  <2>. QED
    BY <1>7, <2>1, Zenon DEF Links
<1>. QED
  BY <1>8, <1>9, <1>10, Zenon

(* A page that is in memory: its node comes to the front.                  *)
LEMMA NodeHit ==
  ASSUME NEW nd, Listed(nd), NEW p \in Pages, Hit(p), f' = f
  PROVE  \E h \in 1 .. length : \E e :
           /\ Listed(e)' /\ length' = length /\ page_no' = page_no
           /\ nd[h] = PT[p] /\ page_no[nd[h]] = p
           /\ \A x \in 1 .. length : e[x] = nd[From(h, x)]
<1>. USE DEF NULL
<1>1. ListTypes /\ Chain(nd) /\ Ends(nd) /\ Links(nd) /\ Table(nd)
  BY Zenon DEF Listed
<1>2. /\ f \in Nat /\ length \in Nat /\ length <= f
      /\ \A x \in 1 .. length : nd[x] \in 1 .. length /\ nd[x] \in 1 .. f /\ nd[x] # 0
      /\ length > 0 => front = nd[1] /\ back = nd[length]
  BY ListFacts
<1>3. PICK h \in 1 .. length : nd[h] = PT[p] /\ page_no[nd[h]] = p
  BY <1>1, Zenon DEF Table, Hit
<1>4. PICK n : n = nd[h]
  OBVIOUS
<1>5. pushNodeFront(n)
  BY <1>3, <1>4, Zenon DEF Hit
<1>6. /\ length > 0 /\ 1 \in 1 .. length /\ length \in 1 .. length
      /\ n \in 1 .. f /\ n # 0 /\ front = nd[1] /\ back = nd[length]
  BY <1>2, <1>4
<1>7. CASE n = front
  <2>1. UNCHANGED list
    BY <1>5, <1>7, Zenon DEF pushNodeFront
  <2>2. /\ length' = length /\ page_no' = page_no /\ prev' = prev /\ next' = next
        /\ front' = front /\ back' = back /\ PT' = PT /\ f' = f
    BY <2>1 DEF list
  <2>3. Listed(nd)'
    <3>1. ListTypes'
      BY <1>1, <2>2, Zenon DEF ListTypes
    <3>2. Chain(nd)' /\ Ends(nd)' /\ Links(nd)'
      BY <1>1, <2>2, Zenon DEF Chain, Ends, Links
    <3>3. Table(nd)'
      BY <1>1, <2>2, Zenon DEF Table
    <3>. QED
      BY <3>1, <3>2, <3>3, Zenon DEF Listed
  <2>4. h = 1
    BY <1>1, <1>4, <1>6, <1>7, Zenon DEF Chain
  <2>5. \A x \in 1 .. length : From(h, x) = x
    BY <1>2, <2>4 DEF From
  <2>6. \A x \in 1 .. length : nd[x] = nd[From(h, x)]
    BY <2>5, Zenon
  <2>. QED
    BY <1>3, <2>2, <2>3, <2>6, Zenon
<1>8. CASE n # front
  <2>1. h \in 2 .. length /\ h - 1 \in 1 .. length /\ h - 1 + 1 = h /\ h - 1 \in 1 .. length - 1
    BY <1>2, <1>4, <1>6, <1>8
  <2>2. PICK b : b = nd[h-1]
    OBVIOUS
  <2>3. b \in 1 .. f /\ b # 0 /\ next[b] = n /\ prev[n] = b
    <3>1. b \in 1 .. f /\ b # 0
      BY <1>2, <2>1, <2>2
    <3>2. next[nd[h-1]] = nd[h-1+1] /\ prev[nd[h-1+1]] = nd[h-1]
      BY <1>1, <2>1, Zenon DEF Links
    <3>. QED
      BY <1>4, <2>1, <2>2, <3>1, <3>2, Zenon
  <2>4. PICK a : a = IF h = length THEN 0 ELSE nd[h+1]
    OBVIOUS
  <2>5. next[n] = a /\ a \in 0 .. f /\ (a # 0 <=> h < length) /\ (h < length => a = nd[h+1])
    <3>1. CASE h = length
      <4>1. f > 1 /\ length > 0
        BY <1>2, <2>1
      <4>2. next[n] = 0
        BY <1>1, <1>4, <1>6, <3>1, <4>1, Zenon DEF Ends
      <4>. QED
        BY <1>2, <2>4, <3>1, <4>2
    <3>2. CASE h # length
      <4>1. h \in 1 .. length - 1 /\ h + 1 \in 1 .. length /\ h < length
        BY <1>2, <3>2
      <4>2. next[n] = nd[h+1]
        BY <1>1, <1>4, <4>1, Zenon DEF Links
      <4>3. nd[h+1] \in 1 .. f /\ nd[h+1] # 0
        BY <1>2, <4>1, Zenon
      <4>. QED
        BY <1>2, <2>4, <3>2, <4>1, <4>2, <4>3
    <3>. QED
      BY <3>1, <3>2
  <2>6. PICK over, under :
          /\ over = [next EXCEPT ![b] = a]
          /\ under = IF a # 0 THEN [prev EXCEPT ![a] = b] ELSE prev
    BY Zenon
  <2>7. /\ next' = [over EXCEPT ![n] = front]
        /\ prev' = [[under EXCEPT ![n] = 0] EXCEPT ![front] = n]
        /\ front' = n /\ back' = (IF n = back THEN b ELSE back)
        /\ length' = length /\ page_no' = page_no /\ PT' = PT
    BY <1>5, <1>8, <2>3, <2>5, <2>6 DEF pushNodeFront
  <2>8. /\ prev \in [1 .. f -> 0 .. f] /\ next \in [1 .. f -> 0 .. f]
        /\ page_no \in [1 .. f -> Nat] /\ PT \in [Pages -> 0 .. f]
    BY <1>1, Zenon DEF ListTypes
  <2>9. front \in 1 .. f /\ front \in 0 .. f /\ n \in 0 .. f /\ b \in 0 .. f /\ 0 \in 0 .. f
    BY <1>2, <1>6, <2>3
  <2>10. over \in [1 .. f -> 0 .. f] /\ under \in [1 .. f -> 0 .. f]
    BY <2>5, <2>6, <2>8, <2>9
  <2>11. next' \in [1 .. f -> 0 .. f] /\ prev' \in [1 .. f -> 0 .. f]
    BY <2>7, <2>9, <2>10
  <2>12. ListTypes'
    BY <1>1, <2>7, <2>8, <2>11, Zenon DEF ListTypes
  <2>13. \A m \in 1 .. f : next'[m] = IF m = n THEN front ELSE IF m = b THEN a ELSE next[m]
    BY <2>6, <2>7, <2>8, <2>10
  <2>14. \A m \in 1 .. f : m # n /\ m # front /\ m # a => prev'[m] = prev[m]
    BY <2>6, <2>7, <2>8, <2>10
  <2>15. prev'[front] = n /\ prev'[n] = 0
    BY <1>6, <1>8, <2>7, <2>9, <2>10
  <2>16. a # 0 /\ a # n /\ a # front => prev'[a] = b
    BY <2>5, <2>6, <2>7, <2>8, <2>10
  <2>17. \A y, z \in 1 .. length : nd[y] = nd[z] => y = z
    BY <1>1, Zenon DEF Chain
  <2>18. b # n
    <3>1. h - 1 # h
      BY <1>2
    <3>. QED
      BY <1>4, <2>1, <2>2, <2>17, <3>1, Zenon
  <2>19. Relink(nd, h)
    <3>1. back' = IF h = length THEN nd[h-1] ELSE back
      <4>1. n = back <=> h = length
        BY <1>4, <1>6, <2>17, Zenon
      <4>. QED
        BY <2>2, <2>7, <4>1, Zenon
    <3>2. next'[nd[h]] = front /\ prev'[nd[h]] = NULL /\ prev'[front] = nd[h]
      BY <1>4, <1>6, <2>13, <2>15
    <3>3. next'[nd[h-1]] = IF h = length THEN NULL ELSE nd[h+1]
      <4>1. next'[b] = a
        BY <2>3, <2>13, <2>18, Zenon
      <4>. QED
        BY <2>2, <2>4, <4>1, Zenon
    <3>4. ASSUME h < length PROVE prev'[nd[h+1]] = nd[h-1]
      <4>1. h + 1 \in 1 .. length /\ h + 1 # h /\ h + 1 # 1
        BY <1>2, <2>1, <3>4
      <4>2. nd[h+1] # n /\ nd[h+1] # front
        BY <1>4, <1>6, <2>17, <4>1, Zenon
      <4>. QED
        BY <2>2, <2>5, <2>16, <3>4, <4>2, Zenon
    <3>5. ASSUME NEW y \in 1 .. length, y # h, y # h - 1 PROVE next'[nd[y]] = next[nd[y]]
      <4>1. nd[y] # n /\ nd[y] # b /\ nd[y] \in 1 .. f
        BY <1>2, <1>4, <2>1, <2>2, <2>17, <3>5, Zenon
      <4>. QED
        BY <2>13, <4>1, Zenon
    <3>6. ASSUME NEW y \in 1 .. length, y # h, y # 1, y # h + 1 PROVE prev'[nd[y]] = prev[nd[y]]
      <4>1. nd[y] # n /\ nd[y] # front /\ nd[y] \in 1 .. f /\ nd[y] # 0
        BY <1>2, <1>4, <1>6, <2>17, <3>6, Zenon
      <4>2. nd[y] # a
        <5>1. CASE h = length
          BY <2>5, <4>1, <5>1
        <5>2. CASE h # length
          <6>1. h + 1 \in 1 .. length /\ h < length
            BY <1>2, <5>2
          <6>. QED
            BY <2>5, <2>17, <3>6, <6>1, Zenon
        <5>. QED
          BY <5>1, <5>2
      <4>. QED
        BY <2>14, <4>1, <4>2, Zenon
    <3>. QED
      BY <1>4, <2>7, <3>1, <3>2, <3>3, <3>4, <3>5, <3>6, Zenon DEF Relink
  <2>20. PICK e : e = [x \in 1 .. length |-> nd[From(h, x)]]
    OBVIOUS
  <2>21. Chain(e)' /\ Ends(e)' /\ Links(e)'
    BY <2>1, <2>19, <2>20, Relinked, Zenon
  <2>22. /\ \A x \in 1 .. length : From(h, x) \in 1 .. length
         /\ \A y \in 1 .. length : \E x \in 1 .. length : From(h, x) = y
    BY <1>2, <2>1, FromIsABijection, Zenon
  <2>23. \A x \in 1 .. length : e[x] = nd[From(h, x)]
    BY <2>20, Zenon
  <2>24. Table(e)'
    <3>1. ASSUME NEW x \in 1 .. length PROVE page_no[e[x]] \in Pages /\ PT[page_no[e[x]]] = e[x]
      <4>1. PICK y \in 1 .. length : e[x] = nd[y]
        BY <2>22, <2>23, Zenon
      <4>2. page_no[nd[y]] \in Pages /\ PT[page_no[nd[y]]] = nd[y]
        BY <1>1, Zenon DEF Table
      <4>. QED
        BY <4>1, <4>2, Zenon
    <3>2. ASSUME NEW r \in Pages, PT[r] # 0
          PROVE  \E x \in 1 .. length : e[x] = PT[r] /\ page_no[e[x]] = r
      <4>1. PICK y \in 1 .. length : nd[y] = PT[r] /\ page_no[nd[y]] = r
        BY <1>1, <3>2, Zenon DEF Table
      <4>2. PICK x \in 1 .. length : e[x] = nd[y]
        BY <2>22, <2>23, Zenon
      <4>. QED
        BY <4>1, <4>2, Zenon
    <3>. QED
      BY <2>7, <3>1, <3>2, Zenon DEF Table
  <2>25. Listed(e)'
    BY <2>12, <2>21, <2>24, Zenon DEF Listed
  <2>. QED
    BY <1>3, <2>7, <2>23, <2>25, Zenon
<1>. QED
  BY <1>7, <1>8

(* The list is full: the node at the back gets the page and comes to the   *)
(* front; with one frame it is there already.                              *)
LEMMA NodeReused ==
  ASSUME NEW nd, Listed(nd), NEW p \in Pages, Fault(p), f' = f, ~ (length < f)
  PROVE  \E e : /\ Listed(e)' /\ length' = length /\ length > 0
                /\ page_no' = [page_no EXCEPT ![nd[length]] = p]
                /\ \A x \in 1 .. length : e[x] = nd[From(length, x)]
<1>. USE DEF NULL
<1>1. ListTypes /\ Chain(nd) /\ Ends(nd) /\ Links(nd) /\ Table(nd)
  BY Zenon DEF Listed
<1>2. /\ f \in Nat /\ f > 0 /\ length \in Nat /\ length = f
      /\ \A x \in 1 .. length : nd[x] \in 1 .. length /\ nd[x] \in 1 .. f /\ nd[x] # 0
      /\ front = nd[1] /\ back = nd[length] /\ Pages \subseteq Nat
  BY ListFacts
<1>3. PICK n : n = nd[length]
  OBVIOUS
<1>4. PICK b : b = prev[n]
  OBVIOUS
<1>5. /\ prev \in [1 .. f -> 0 .. f] /\ next \in [1 .. f -> 0 .. f]
      /\ page_no \in [1 .. f -> Nat] /\ PT \in [Pages -> 0 .. f]
  BY <1>1, Zenon DEF ListTypes
<1>6. /\ n \in 1 .. f /\ n \in 0 .. f /\ n # 0 /\ front \in 1 .. f /\ front \in 0 .. f /\ front # 0
      /\ 1 \in 1 .. length /\ length \in 1 .. length /\ length > 0 /\ length >= f /\ 0 \in 0 .. f
  BY <1>2, <1>3
<1>7. b \in 0 .. f
  BY <1>4, <1>5, <1>6
<1>8. PICK cut, gone, old :
        /\ cut = IF b # 0 THEN [next EXCEPT ![b] = 0] ELSE next
        /\ old = page_no[n] /\ gone = [PT EXCEPT ![old] = 0]
  BY Zenon
<1>9. /\ length' = length /\ page_no' = [page_no EXCEPT ![n] = p]
      /\ PT' = [gone EXCEPT ![p] = n] /\ next' = [cut EXCEPT ![n] = front]
      /\ prev' = [[prev EXCEPT ![n] = 0] EXCEPT ![front] = n]
      /\ front' = n /\ back' = (IF b # 0 THEN b ELSE n)
  BY <1>2, <1>3, <1>4, <1>6, <1>8 DEF Fault, handlePageFault
<1>10. cut \in [1 .. f -> 0 .. f] /\ gone \in [Pages -> 0 .. f]
  BY <1>5, <1>6, <1>7, <1>8
<1>11. ListTypes'
  <2>1. next' \in [1 .. f -> 0 .. f]
    BY <1>6, <1>9, <1>10
  <2>2. prev' \in [1 .. f -> 0 .. f]
    BY <1>5, <1>6, <1>9
  <2>3. page_no' \in [1 .. f -> Nat]
    <3>1. p \in Nat
      BY <1>2
    <3>. QED
      BY <1>5, <1>9, <3>1
  <2>4. PT' \in [Pages -> 0 .. f]
    BY <1>6, <1>9, <1>10
  <2>. QED
    BY <1>1, <1>9, <2>1, <2>2, <2>3, <2>4, Zenon DEF ListTypes
<1>12. \A y, z \in 1 .. length : nd[y] = nd[z] => y = z
  BY <1>1, Zenon DEF Chain
<1>13. \A y \in 1 .. length : page_no[nd[y]] \in Pages /\ PT[page_no[nd[y]]] = nd[y]
  BY <1>1, Zenon DEF Table
<1>14. PT[p] = 0
  BY Zenon DEF Fault
<1>15. \A m \in 1 .. f : page_no'[m] = IF m = n THEN p ELSE page_no[m]
  BY <1>5, <1>9
<1>16. \A r \in Pages : PT'[r] = IF r = p THEN n ELSE IF r = old THEN 0 ELSE PT[r]
  BY <1>5, <1>8, <1>9, <1>10
<1>17. ASSUME NEW y \in 1 .. length
       PROVE  page_no'[nd[y]] \in Pages /\ PT'[page_no'[nd[y]]] = nd[y]
  <2>1. CASE y = length
    BY <1>3, <1>6, <1>15, <1>16, <2>1
  <2>2. CASE y # length
    <3>1. nd[y] # n /\ nd[y] \in 1 .. f
      BY <1>2, <1>3, <1>6, <1>12, <2>2, Zenon
    <3>2. page_no'[nd[y]] = page_no[nd[y]]
      BY <1>15, <3>1, Zenon
    <3>3. page_no[nd[y]] # p /\ page_no[nd[y]] # old /\ page_no[nd[y]] \in Pages
      BY <1>2, <1>3, <1>6, <1>8, <1>13, <1>14, <3>1, Zenon
    <3>4. PT'[page_no[nd[y]]] = PT[page_no[nd[y]]]
      BY <1>16, <3>3, Zenon
    <3>. QED
      BY <1>13, <3>2, <3>3, <3>4, Zenon
  <2>. QED
    BY <2>1, <2>2
<1>18. ASSUME NEW r \in Pages, PT'[r] # 0
       PROVE  \E y \in 1 .. length : nd[y] = PT'[r] /\ page_no'[nd[y]] = r
  <2>1. CASE r = p
    <3>1. PT'[r] = n /\ page_no'[n] = r
      BY <1>6, <1>15, <1>16, <2>1, Zenon
    <3>. QED
      BY <1>3, <1>6, <3>1, Zenon
  <2>2. CASE r # p
    <3>1. r # old /\ PT'[r] = PT[r]
      BY <1>16, <1>18, <2>2, Zenon
    <3>2. PICK y \in 1 .. length : nd[y] = PT[r] /\ page_no[nd[y]] = r
      BY <1>1, <1>18, <3>1, Zenon DEF Table
    <3>3. nd[y] # n /\ nd[y] \in 1 .. f
      BY <1>2, <1>8, <3>1, <3>2, Zenon
    <3>4. page_no'[nd[y]] = page_no[nd[y]]
      BY <1>15, <3>3, Zenon
    <3>. QED
      BY <3>1, <3>2, <3>4, Zenon
  <2>. QED
    BY <2>1, <2>2
<1>19. CASE f = 1
  <2>1. \A x \in 1 .. length : x = 1 /\ From(length, x) = x
    BY <1>2, <1>19 DEF From
  <2>2. \A x \in 1 .. length : nd[x] = nd[From(length, x)]
    BY <2>1, Zenon
  <2>3. back' = nd[length] /\ front' = nd[1]
    <3>1. n = 1 /\ (b = 0 \/ b = 1) /\ length = 1
      BY <1>2, <1>6, <1>7, <1>19
    <3>. QED
      BY <1>3, <1>9, <3>1
  <2>4. Chain(nd)' /\ Links(nd)'
    <3>1. Chain(nd)'
      BY <1>1, <1>9, Zenon DEF Chain
    <3>2. Links(nd)'
      BY <1>2, <1>9, <1>19 DEF Links
    <3>. QED
      BY <3>1, <3>2
  <2>5. Ends(nd)'
    BY <1>2, <1>9, <1>19, <2>3 DEF Ends
  <2>6. Table(nd)'
    BY <1>9, <1>17, <1>18, Zenon DEF Table
  <2>7. Listed(nd)'
    BY <1>11, <2>4, <2>5, <2>6, Zenon DEF Listed
  <2>. QED
    BY <1>3, <1>6, <1>9, <2>2, <2>7, Zenon
<1>20. CASE f # 1
  <2>1. PICK h : h = length
    OBVIOUS
  <2>2. /\ h \in 2 .. length /\ h - 1 \in 1 .. length /\ h - 1 + 1 = h
        /\ h - 1 \in 1 .. length - 1 /\ h \in 1 .. length
        /\ h # 1 /\ h # h - 1 /\ f > 1
    BY <1>2, <1>20, <2>1
  <2>3. b = nd[h-1] /\ b \in 1 .. f /\ b # 0
    <3>1. prev[nd[h-1+1]] = nd[h-1]
      BY <1>1, <2>2, Zenon DEF Links
    <3>2. b = nd[h-1]
      BY <1>3, <1>4, <2>1, <2>2, <3>1, Zenon
    <3>. QED
      BY <1>2, <2>2, <3>2, Zenon
  <2>4. \A m \in 1 .. f : next'[m] = IF m = n THEN front ELSE IF m = b THEN 0 ELSE next[m]
    BY <1>5, <1>8, <1>9, <1>10, <2>3
  <2>5. b # n /\ front # n
    BY <1>2, <1>3, <1>6, <1>12, <2>1, <2>2, <2>3, Zenon
  <2>6. \A m \in 1 .. f : prev'[m] = IF m = front THEN n ELSE IF m = n THEN 0 ELSE prev[m]
    BY <1>5, <1>6, <1>9
  <2>7. Relink(nd, h)
    <3>1. next'[nd[h]] = front /\ prev'[nd[h]] = NULL /\ prev'[front] = nd[h]
      BY <1>3, <1>6, <2>1, <2>4, <2>5, <2>6, Zenon
    <3>2. next'[nd[h-1]] = NULL
      BY <2>3, <2>4, <2>5, Zenon
    <3>3. ASSUME NEW y \in 1 .. length, y # h, y # h - 1 PROVE next'[nd[y]] = next[nd[y]]
      <4>1. nd[y] # n /\ nd[y] # b /\ nd[y] \in 1 .. f
        BY <1>2, <1>3, <1>12, <2>1, <2>2, <2>3, <3>3, Zenon
      <4>. QED
        BY <2>4, <4>1, Zenon
    <3>4. ASSUME NEW y \in 1 .. length, y # h, y # 1, y # h + 1 PROVE prev'[nd[y]] = prev[nd[y]]
      <4>1. nd[y] # n /\ nd[y] # front /\ nd[y] \in 1 .. f
        BY <1>2, <1>3, <1>6, <1>12, <2>1, <2>2, <3>4, Zenon
      <4>. QED
        BY <2>6, <4>1, Zenon
    <3>5. back' = nd[h-1] /\ front' = nd[h]
      BY <1>3, <1>9, <2>1, <2>3, Zenon
    <3>6. ~ (h < length)
      BY <1>2, <2>1
    <3>. QED
      BY <1>9, <2>1, <3>1, <3>2, <3>3, <3>4, <3>5, <3>6, Zenon DEF Relink
  <2>8. PICK e : e = [x \in 1 .. length |-> nd[From(h, x)]]
    OBVIOUS
  <2>9. Chain(e)' /\ Ends(e)' /\ Links(e)'
    BY <2>2, <2>7, <2>8, Relinked, Zenon
  <2>10. /\ \A x \in 1 .. length : From(h, x) \in 1 .. length
         /\ \A y \in 1 .. length : \E x \in 1 .. length : From(h, x) = y
    <3>1. PICK m \in Nat : m = length
      BY <1>2
    <3>2. h \in 2 .. m
      BY <2>2, <3>1
    <3>. QED
      BY <3>1, <3>2, FromIsABijection, Zenon
  <2>11. \A x \in 1 .. length : e[x] = nd[From(h, x)]
    BY <2>8, Zenon
  <2>12. Table(e)'
    <3>1. ASSUME NEW x \in 1 .. length
          PROVE  page_no'[e[x]] \in Pages /\ PT'[page_no'[e[x]]] = e[x]
      <4>1. PICK y \in 1 .. length : e[x] = nd[y]
        BY <2>10, <2>11, Zenon
      <4>. QED
        BY <1>17, <4>1, Zenon
    <3>2. ASSUME NEW r \in Pages, PT'[r] # 0
          PROVE  \E x \in 1 .. length : e[x] = PT'[r] /\ page_no'[e[x]] = r
      <4>1. PICK y \in 1 .. length : nd[y] = PT'[r] /\ page_no'[nd[y]] = r
        BY <1>18, <3>2, Zenon
      <4>2. PICK x \in 1 .. length : e[x] = nd[y]
        BY <2>10, <2>11, Zenon
      <4>. QED
        BY <4>1, <4>2, Zenon
    <3>. QED
      BY <1>9, <3>1, <3>2, Zenon DEF Table
  <2>13. Listed(e)'
    BY <1>11, <2>9, <2>12, Zenon DEF Listed
  <2>. QED
    BY <1>3, <1>6, <1>9, <2>1, <2>11, <2>13, Zenon
<1>. QED
  BY <1>19, <1>20
-----------------------------------------------------------------------------
Leads(m, nd, first, nx) == /\ nd = [x \in 1 .. m |-> nd[x]]
                           /\ m > 0 => first = nd[1]
                           /\ \A x \in 1 .. m - 1 : nx[nd[x]] = nd[x+1]

Along(m, first, nx) ==
  CHOOSE v : v = [x \in 1 .. m |-> IF x = 1 THEN first ELSE nx[v[x-1]]]

(* What Nodes reads from the front on, first, is the sequence along which  *)
(* the pointers lead.                                                      *)
LEMMA Follows ==
  ASSUME NEW m \in Nat, NEW nd, NEW first, NEW nx, Leads(m, nd, first, nx)
  PROVE  Along(m, first, nx) = nd
<1>1. /\ nd = [x \in 1 .. m |-> nd[x]] /\ (m > 0 => first = nd[1])
      /\ \A x \in 1 .. m - 1 : nx[nd[x]] = nd[x+1]
  BY Zenon DEF Leads
<1>. DEFINE Eq(v) == v = [x \in 1 .. m |-> IF x = 1 THEN first ELSE nx[v[x-1]]]
<1>2. ASSUME NEW x \in 1 .. m PROVE nd[x] = IF x = 1 THEN first ELSE nx[nd[x-1]]
  <2>1. CASE x = 1
    <3>1. m > 0
      OBVIOUS
    <3>. QED
      BY <1>1, <2>1, <3>1, Zenon
  <2>2. CASE x # 1
    <3>1. PICK y \in 1 .. m - 1 : y = x - 1 /\ y + 1 = x
      BY <2>2
    <3>2. nx[nd[y]] = nd[y+1]
      BY <1>1, Zenon
    <3>. QED
      BY <2>2, <3>1, <3>2, Zenon
  <2>. QED
    BY <2>1, <2>2
<1>3. Eq(nd)
  <2>1. nd = [x \in 1 .. m |-> nd[x]]
    BY <1>1, Zenon
  <2>. QED
    BY <1>2, <2>1, Zenon
<1>4. PICK u : u = CHOOSE v : Eq(v)
  OBVIOUS
<1>5. Eq(u)
  BY <1>3, <1>4, Zenon
<1>7. \A x \in 1 .. m : u[x] = IF x = 1 THEN first ELSE nx[u[x-1]]
  BY <1>5, Zenon
<1>8. u = [x \in 1 .. m |-> u[x]]
  <2>1. DOMAIN u = 1 .. m
    BY <1>5, Zenon
  <2>. QED
    BY <1>5, <2>1, Zenon
<1>. DEFINE P == {x \in 0 .. m : x = 0 \/ u[x] = nd[x]}
<1>9. 0 \in P
  OBVIOUS
<1>10. ASSUME NEW x \in 1 .. m, x - 1 \in P PROVE x \in P
  <2>1. x - 1 = 0 \/ u[x-1] = nd[x-1]
    BY <1>10
  <2>2. u[x] = nd[x]
    <3>1. CASE x = 1
      BY <1>2, <1>7, <3>1, Zenon
    <3>2. CASE x # 1
      <4>1. x - 1 # 0
        BY <3>2
      <4>2. u[x] = nx[u[x-1]]
        BY <1>7, <3>2, Zenon
      <4>3. nd[x] = nx[nd[x-1]]
        BY <1>2, <3>2, Zenon
      <4>4. u[x-1] = nd[x-1]
        BY <2>1, <4>1, Zenon
      <4>. QED
        BY <4>2, <4>3, <4>4, Zenon
    <3>. QED
      BY <3>1, <3>2
  <2>3. x \in 0 .. m
    OBVIOUS
  <2>. QED
    BY <2>2, <2>3
<1>. HIDE DEF P
<1>11. \A x \in 0 .. m : x \in P
  BY <1>9, <1>10, UpTo
<1>12. \A x \in 1 .. m : u[x] = nd[x]
  <2>1. \A x \in 1 .. m : x \in 0 .. m /\ x # 0
    OBVIOUS
  <2>. QED
    BY <1>11, <2>1, Zenon DEF P
<1>13. u = nd
  <2>1. nd = [x \in 1 .. m |-> nd[x]]
    BY <1>1, Zenon
  <2>. QED
    BY <1>8, <1>12, <2>1, Zenon
<1>. QED
  BY <1>4, <1>13, Zenon DEF Along

(* The pages in memory, in the order of the list, before and after a step. *)
LEMMA NodesAre ==
  ASSUME NEW nd
  PROVE  /\ Listed(nd) => Recent = [x \in 1 .. length |-> page_no[nd[x]]]
         /\ Listed(nd)' => Recent' = [x \in 1 .. length' |-> page_no'[nd[x]]]
<1>1. ASSUME Listed(nd) PROVE Recent = [x \in 1 .. length |-> page_no[nd[x]]]
  <2>1. PICK m \in Nat : m = length
    BY <1>1 DEF Listed, ListTypes
  <2>2. nd \in [1 .. m -> 1 .. m] /\ (m > 0 => front = nd[1])
    BY <1>1, <2>1, Zenon DEF Listed, Chain, Ends
  <2>3. \A x \in 1 .. m - 1 : next[nd[x]] = nd[x+1]
    BY <1>1, <2>1, Zenon DEF Listed, Links
  <2>4. Along(m, front, next) = nd
    <3>1. Leads(m, nd, front, next)
      <4>1. nd = [x \in 1 .. m |-> nd[x]]
        BY <2>2, Zenon
      <4>. QED
        BY <2>2, <2>3, <4>1, Zenon DEF Leads
    <3>. QED
      BY <3>1, Follows, Zenon
  <2>5. Nodes = nd
    BY <2>1, <2>4, Zenon DEF Nodes, Along
  <2>. QED
    BY <2>5, Zenon DEF Recent
<1>2. ASSUME Listed(nd)' PROVE Recent' = [x \in 1 .. length' |-> page_no'[nd[x]]]
  <2>1. PICK m \in Nat : m = length'
    BY <1>2 DEF Listed, ListTypes
  <2>2. nd \in [1 .. m -> 1 .. m] /\ (m > 0 => front' = nd[1])
    BY <1>2, <2>1, Zenon DEF Listed, Chain, Ends
  <2>3. \A x \in 1 .. m - 1 : next'[nd[x]] = nd[x+1]
    BY <1>2, <2>1, Zenon DEF Listed, Links
  <2>4. Along(m, front', next') = nd
    <3>1. Leads(m, nd, front', next')
      <4>1. nd = [x \in 1 .. m |-> nd[x]]
        BY <2>2, Zenon
      <4>. QED
        BY <2>2, <2>3, <4>1, Zenon DEF Leads
    <3>. QED
      BY <3>1, Follows, Zenon
  <2>5. Nodes' = nd
    BY <2>1, <2>4, Zenon DEF Nodes, Along
  <2>. QED
    BY <2>5, Zenon DEF Recent
<1>. QED
  BY <1>1, <1>2, Zenon
-----------------------------------------------------------------------------
(* The list is in order, whatever its nodes are.                           *)
Linked == \E nd : Listed(nd)

LEMMA EmptyList ==
  ASSUME f \in Frames, length = 0, front = NULL, back = NULL,
         prev = NoNodes, next = NoNodes, page_no = NoNodes, PT = NoPages
  PROVE  Linked
<1>. USE DEF NULL
<1>1. f \in Nat \ {0}
  BY LRUAssumption
<1>2. PICK nd : nd = [x \in 1 .. 0 |-> 1]
  OBVIOUS
<1>3. ListTypes
  <2>1. 0 \in 0 .. f
    BY <1>1
  <2>2. NoNodes \in [1 .. f -> 0 .. f] /\ NoNodes \in [1 .. f -> Nat]
    BY <2>1 DEF NoNodes
  <2>3. NoPages \in [Pages -> 0 .. f]
    BY <2>1 DEF NoPages
  <2>. QED
    BY <1>1, <2>1, <2>2, <2>3 DEF ListTypes
<1>4. Chain(nd)
  BY <1>2 DEF Chain
<1>5. Ends(nd) /\ Links(nd)
  BY DEF Ends, Links
<1>6. Table(nd)
  <2>1. \A p \in Pages : PT[p] = 0
    BY DEF NoPages
  <2>. QED
    BY <2>1 DEF Table
<1>. QED
  BY <1>3, <1>4, <1>5, <1>6, Zenon DEF Linked, Listed

LEMMA SameList ==
  ASSUME Linked, f' = f, front' = front, back' = back, length' = length,
         prev' = prev, next' = next, page_no' = page_no, PT' = PT
  PROVE  Linked' /\ Recent' = Recent
<1>1. PICK nd : Listed(nd)
  BY Zenon DEF Linked
<1>2. Listed(nd)' /\ Recent' = Recent
  <2>1. ListTypes'
    BY <1>1, Zenon DEF Listed, ListTypes
  <2>2. Chain(nd)' /\ Ends(nd)' /\ Links(nd)'
    BY <1>1, Zenon DEF Listed, Chain, Ends, Links
  <2>3. Table(nd)'
    BY <1>1, Zenon DEF Listed, Table
  <2>4. Listed(nd)'
    BY <2>1, <2>2, <2>3, Zenon DEF Listed
  <2>5. Recent' = [x \in 1 .. length' |-> page_no'[nd[x]]]
    BY <2>4, NodesAre, Zenon
  <2>6. Recent = [x \in 1 .. length |-> page_no[nd[x]]]
    BY <1>1, NodesAre, Zenon
  <2>. QED
    BY <2>4, <2>5, <2>6
<1>. QED
  BY <1>2, Zenon DEF Linked

LEMMA EmptiedList ==
  ASSUME Linked, f' = f, length' = 0, front' = 0, back' = 0,
         prev' = NoNodes, next' = NoNodes, page_no' = NoNodes, PT' = NoPages
  PROVE  Linked'
<1>. USE DEF NULL
<1>1. f \in Nat \ {0}
  BY Zenon DEF Linked, Listed, ListTypes
<1>2. PICK nd : nd = [x \in 1 .. 0 |-> 1]
  OBVIOUS
<1>3. ListTypes'
  <2>1. 0 \in 0 .. f
    BY <1>1
  <2>2. NoNodes \in [1 .. f -> 0 .. f] /\ NoNodes \in [1 .. f -> Nat]
    BY <2>1 DEF NoNodes
  <2>3. NoPages \in [Pages -> 0 .. f]
    BY <2>1 DEF NoPages
  <2>. QED
    BY <1>1, <2>1, <2>2, <2>3 DEF ListTypes
<1>4. Chain(nd)'
  BY <1>2 DEF Chain
<1>5. Ends(nd)' /\ Links(nd)'
  BY DEF Ends, Links
<1>6. Table(nd)'
  <2>1. \A p \in Pages : PT'[p] = 0
    BY DEF NoPages
  <2>. QED
    BY <2>1 DEF Table
<1>. QED
  BY <1>3, <1>4, <1>5, <1>6, Zenon DEF Linked, Listed

(* An access refines the abstract one: the pages in memory are afterwards  *)
(* the page, and then those that were there before, without the page, or   *)
(* without the last of them if there are too many.                         *)
LEMMA HitRefines ==
  ASSUME Linked, NEW p \in Pages, Hit(p), f' = f
  PROVE  Linked' /\ Cache!Hit(p)
<1>1. PICK nd : Listed(nd)
  BY Zenon DEF Linked
<1>2. \E h \in 1 .. length : \E e :
        /\ Listed(e)' /\ length' = length /\ page_no' = page_no
        /\ nd[h] = PT[p] /\ page_no[nd[h]] = p
        /\ \A x \in 1 .. length : e[x] = nd[From(h, x)]
  BY <1>1, NodeHit
<1>0. PICK h \in 1 .. length : \E e :
        /\ Listed(e)' /\ length' = length /\ page_no' = page_no
        /\ nd[h] = PT[p] /\ page_no[nd[h]] = p
        /\ \A x \in 1 .. length : e[x] = nd[From(h, x)]
  BY <1>2, Zenon
<1>3. PICK e :
        /\ Listed(e)' /\ length' = length /\ page_no' = page_no
        /\ nd[h] = PT[p] /\ page_no[nd[h]] = p
        /\ \A x \in 1 .. length : e[x] = nd[From(h, x)]
  BY <1>0, Zenon
<1>4. PICK m \in Nat : m = length
  BY <1>1, ListFacts
<1>5. PICK R : R = [x \in 1 .. m |-> page_no[nd[x]]]
  OBVIOUS
<1>6. Recent = R
  BY <1>1, <1>4, <1>5, NodesAre, Zenon
<1>7. Recent' = [x \in 1 .. m |-> page_no[e[x]]]
  <2>1. Recent' = [x \in 1 .. length' |-> page_no'[e[x]]]
    BY <1>3, NodesAre, Zenon
  <2>2. length' = m /\ page_no' = page_no
    BY <1>3, <1>4, Zenon
  <2>. QED
    BY <2>1, <2>2
<1>8. Len(R) = m /\ h \in 1 .. m /\ R[h] = p
  <2>1. DOMAIN R = 1 .. m
    BY <1>5, Zenon
  <2>2. R \in Seq({R[x] : x \in 1 .. m})
    BY <1>5
  <2>3. Len(R) = m
    BY <2>1, <2>2
  <2>. QED
    BY <1>3, <1>4, <1>5, <2>3, Zenon
<1>9. ASSUME NEW y \in 1 .. m
      PROVE  page_no[e[y]] = IF y = 1 THEN p ELSE IF y <= h THEN R[y-1] ELSE R[y]
  <2>1. e[y] = nd[From(h, y)]
    BY <1>3, <1>4, Zenon
  <2>2. CASE y = 1
    BY <1>3, <2>1, <2>2, Zenon DEF From
  <2>3. CASE y # 1 /\ y <= h
    <3>1. From(h, y) = y - 1 /\ y - 1 \in 1 .. m
      BY <2>3 DEF From
    <3>. QED
      BY <1>5, <2>1, <2>3, <3>1, Zenon
  <2>4. CASE y # 1 /\ ~ (y <= h)
    <3>1. From(h, y) = y
      BY <2>4, Zenon DEF From
    <3>. QED
      BY <1>5, <2>1, <2>4, <3>1, Zenon
  <2>. QED
    BY <2>2, <2>3, <2>4, Zenon
<1>10. [x \in 1 .. m |-> page_no[e[x]]] =
         [y \in 1 .. m |-> IF y = 1 THEN p ELSE IF y <= h THEN R[y-1] ELSE R[y]]
  BY <1>9, Zenon
<1>11. Linked'
  BY <1>3, Zenon DEF Linked
<1>12. Recent' = [y \in 1 .. m |-> IF y = 1 THEN p ELSE IF y <= h THEN R[y-1] ELSE R[y]]
  BY <1>7, <1>10, Zenon
<1>13. UNCHANGED page_faults
  BY Zenon DEF Hit
<1>14. Cache!Hit(p)
  BY <1>6, <1>8, <1>12, <1>13, Zenon DEF Cache!Hit
<1>. QED
  BY <1>11, <1>14

LEMMA FaultRefines ==
  ASSUME Linked, NEW p \in Pages, Fault(p), f' = f
  PROVE  Linked' /\ Cache!Fault(p)
<1>1. PICK nd : Listed(nd)
  BY Zenon DEF Linked
<1>2. PICK m \in Nat : m = length /\ m <= f /\ f \in Nat
  BY <1>1, ListFacts
<1>3. PICK R : R = [x \in 1 .. m |-> page_no[nd[x]]]
  OBVIOUS
<1>4. Recent = R
  BY <1>1, <1>2, <1>3, NodesAre, Zenon
<1>5. Len(R) = m
  <2>1. R \in Seq({R[x] : x \in 1 .. m}) /\ DOMAIN R = 1 .. m
    BY <1>3
  <2>. QED
    BY <2>1
<1>6. \A x \in 1 .. m : R[x] # p
  <2>1. ASSUME NEW x \in 1 .. m PROVE page_no[nd[x]] # p
    <3>1. nd[x] # NULL
      BY <1>1, <1>2, ListFacts, Zenon
    <3>2. PT[page_no[nd[x]]] = nd[x]
      BY <1>1, <1>2, Zenon DEF Listed, Table
    <3>. QED
      BY <3>1, <3>2, Zenon DEF Fault
  <2>. QED
    BY <1>3, <2>1, Zenon
<1>7. page_faults' = page_faults + 1
  BY Zenon DEF Fault
<1>8. /\ page_no \in [1 .. f -> Nat] /\ nd \in [1 .. m -> 1 .. m]
      /\ \A x, y \in 1 .. m : nd[x] = nd[y] => x = y
  BY <1>1, <1>2, Zenon DEF Listed, ListTypes, Chain
<1>9. CASE length < f
  <2>1. PICK e : /\ Listed(e)' /\ length' = length + 1 /\ e[1] = length + 1
                 /\ \A x \in 1 .. length : e[x+1] = nd[x]
                 /\ page_no' = [page_no EXCEPT ![length + 1] = p]
    BY <1>1, <1>9, NewNode
  <2>2. PICK n \in Nat : n = m + 1 /\ n \in 1 .. f
    BY <1>2, <1>9
  <2>3. Recent' = [x \in 1 .. n |-> page_no'[e[x]]]
    BY <1>2, <2>1, <2>2, NodesAre, Zenon
  <2>4. page_no'[n] = p
    BY <1>2, <1>8, <2>1, <2>2
  <2>5. ASSUME NEW x \in 1 .. m PROVE page_no'[nd[x]] = page_no[nd[x]]
    <3>1. nd[x] \in 1 .. m
      BY <1>8, Zenon
    <3>2. nd[x] \in 1 .. f /\ nd[x] # n
      BY <1>2, <2>2, <3>1
    <3>3. page_no' = [page_no EXCEPT ![n] = p]
      BY <1>2, <2>1, <2>2, Zenon
    <3>. QED
      BY <1>8, <3>2, <3>3, Zenon
  <2>6. ASSUME NEW y \in 1 .. n PROVE page_no'[e[y]] = IF y = 1 THEN p ELSE R[y-1]
    <3>1. CASE y = 1
      BY <1>2, <2>1, <2>2, <2>4, <3>1, Zenon
    <3>2. CASE y # 1
      <4>1. PICK x \in 1 .. m : x = y - 1 /\ y = x + 1
        BY <2>2, <3>2
      <4>2. e[x+1] = nd[x]
        BY <1>2, <2>1, Zenon
      <4>3. page_no'[e[y]] = R[x]
        BY <1>3, <2>5, <4>1, <4>2, Zenon
      <4>. QED
        BY <3>2, <4>1, <4>3, Zenon
    <3>. QED
      BY <3>1, <3>2
  <2>7. Recent' = [y \in 1 .. n |-> IF y = 1 THEN p ELSE R[y-1]]
    BY <2>3, <2>6, Zenon
  <2>8. n = IF Len(R) < f THEN Len(R) + 1 ELSE f
    BY <1>2, <1>5, <1>9, <2>2
  <2>9. Cache!Fault(p)
    BY <1>4, <1>5, <1>6, <1>7, <2>7, <2>8, Zenon DEF Cache!Fault
  <2>10. Linked'
    BY <2>1, Zenon DEF Linked
  <2>. QED
    BY <2>9, <2>10
<1>10. CASE ~ (length < f)
  <2>1. PICK e : /\ Listed(e)' /\ length' = length /\ length > 0
                 /\ page_no' = [page_no EXCEPT ![nd[length]] = p]
                 /\ \A x \in 1 .. length : e[x] = nd[From(length, x)]
    BY <1>1, <1>10, NodeReused
  <2>2. m \in 1 .. m /\ m = f /\ 1 \in 1 .. m
    BY <1>2, <1>10, <2>1
  <2>3. Recent' = [x \in 1 .. m |-> page_no'[e[x]]]
    BY <1>2, <2>1, NodesAre, Zenon
  <2>4. PICK n : n = nd[m]
    OBVIOUS
  <2>5. n \in 1 .. f /\ page_no' = [page_no EXCEPT ![n] = p]
    BY <1>2, <1>8, <2>1, <2>2, <2>4, Zenon
  <2>6. page_no'[n] = p
    BY <1>8, <2>5, Zenon
  <2>7. ASSUME NEW y \in 1 .. m PROVE page_no'[e[y]] = IF y = 1 THEN p ELSE R[y-1]
    <3>1. e[y] = nd[From(m, y)]
      BY <1>2, <2>1, Zenon
    <3>2. CASE y = 1
      BY <2>4, <2>6, <3>1, <3>2, Zenon DEF From
    <3>3. CASE y # 1
      <4>1. PICK x \in 1 .. m : x = y - 1 /\ x # m /\ From(m, y) = x
        BY <3>3 DEF From
      <4>2. nd[x] \in 1 .. f /\ nd[x] # n
        BY <1>8, <2>2, <2>4, <4>1, Zenon
      <4>3. page_no'[nd[x]] = page_no[nd[x]]
        BY <1>8, <2>5, <4>2, Zenon
      <4>4. page_no'[e[y]] = R[x]
        BY <1>3, <3>1, <4>1, <4>3, Zenon
      <4>. QED
        BY <3>3, <4>1, <4>4, Zenon
    <3>. QED
      BY <3>2, <3>3
  <2>8. Recent' = [y \in 1 .. m |-> IF y = 1 THEN p ELSE R[y-1]]
    BY <2>3, <2>7, Zenon
  <2>9. m = IF Len(R) < f THEN Len(R) + 1 ELSE f
    BY <1>2, <1>5, <2>2
  <2>10. Cache!Fault(p)
    BY <1>4, <1>5, <1>6, <1>7, <2>8, <2>9, Zenon DEF Cache!Fault
  <2>11. Linked'
    BY <2>1, Zenon DEF Linked
  <2>. QED
    BY <2>10, <2>11
<1>. QED
  BY <1>9, <1>10
-----------------------------------------------------------------------------
(* Every step is one of the abstract cache.                                *)
LEMMA LinkedInit == Init => Linked /\ Cache!Init
<1>. SUFFICES ASSUME Init PROVE Linked /\ Cache!Init
  OBVIOUS
<1>1. Linked
  BY EmptyList, Zenon DEF Init
<1>2. Recent = <<>> /\ page_faults = 0 /\ total_accesses = 0
  <2>1. length = 0 /\ page_faults = 0 /\ total_accesses = 0
    BY Zenon DEF Init
  <2>. QED
    BY <2>1 DEF Recent
<1>. QED
  BY <1>1, <1>2, Zenon DEF Cache!Init

LEMMA LinkedNext ==
  ASSUME Linked, todo \in Seq(Pages), [Next]_vars
  PROVE  Linked' /\ [Cache!Next]_(Cache!vars)
<1>1. CASE accessPage
  <2>1. /\ todo # <<>> /\ todo' = Tail(todo) /\ f' = f
        /\ Fault(Head(todo)) \/ Hit(Head(todo))
        /\ total_accesses' = total_accesses + 1
    BY <1>1, Zenon DEF accessPage, args
  <2>2. Head(todo) \in Pages
    BY <2>1
  <2>3. Linked' /\ (Cache!Hit(Head(todo)) \/ Cache!Fault(Head(todo)))
    BY <2>1, <2>2, HitRefines, FaultRefines, Zenon
  <2>4. Cache!Access
    BY <2>1, <2>3, Zenon DEF Cache!Access
  <2>. QED
    BY <2>3, <2>4, Zenon DEF Cache!Next
<1>2. CASE NextPixel
  <2>1. todo = <<>> /\ UNCHANGED <<f, list, count>>
    BY <1>2, Zenon DEF NextPixel, args
  <2>2. /\ f' = f /\ front' = front /\ back' = back /\ length' = length /\ prev' = prev
        /\ next' = next /\ page_no' = page_no /\ PT' = PT
        /\ page_faults' = page_faults /\ total_accesses' = total_accesses
    BY <2>1 DEF list, count
  <2>4. Linked' /\ Recent' = Recent
    BY <2>2, SameList, Zenon
  <2>5. Cache!More
    BY <2>1, <2>2, <2>4, Zenon DEF Cache!More
  <2>. QED
    BY <2>4, <2>5, Zenon DEF Cache!Next
<1>3. CASE NextScheme
  <2>1. /\ todo = <<>> /\ f' = f /\ length' = 0 /\ front' = 0 /\ back' = 0
        /\ prev' = NoNodes /\ next' = NoNodes /\ page_no' = NoNodes /\ PT' = NoPages
        /\ page_faults' = 0 /\ total_accesses' = 0
    BY <1>3 DEF NextScheme, args, NULL
  <2>2. Linked'
    BY <2>1, EmptiedList, Zenon
  <2>3. Recent' = <<>>
    BY <2>1 DEF Recent
  <2>4. Cache!Reset
    BY <2>1, <2>3, Zenon DEF Cache!Reset
  <2>. QED
    BY <2>2, <2>4, Zenon DEF Cache!Next
<1>4. CASE UNCHANGED vars
  <2>2. /\ f' = f /\ front' = front /\ back' = back /\ length' = length /\ prev' = prev
        /\ next' = next /\ page_no' = page_no /\ PT' = PT /\ todo' = todo
        /\ page_faults' = page_faults /\ total_accesses' = total_accesses
    BY <1>4 DEF vars, args, loops, list, count
  <2>4. Linked' /\ Recent' = Recent
    BY <2>2, SameList, Zenon
  <2>. QED
    BY <2>2, <2>4, Zenon DEF Cache!vars
<1>. QED
  BY <1>1, <1>2, <1>3, <1>4, Zenon DEF Next

(* As long as every page that is accessed has an entry in PT, the linked   *)
(* list and the table of LRU.c are a cache of the f pages used last, for   *)
(* an image and layouts of any size and any number of frames, one included *)
(* (LRU.c:37 to 87).                                                       *)
THEOREM ListIsLRU == Spec /\ [](todo \in Seq(Pages)) => Refines
<1>1. Init => Linked /\ Cache!Init
  BY LinkedInit
<1>2. Linked /\ todo \in Seq(Pages) /\ [Next]_vars => Linked' /\ [Cache!Next]_(Cache!vars)
  BY LinkedNext
<1>. QED
  BY <1>1, <1>2, PTL DEF Spec, Refines, Cache!Safety

(* With the constants of the program and a radius of at most 219, every    *)
(* page has one.                                                           *)
THEOREM ProgramIsLRU ==
  TheProgram /\ Radii \subseteq 0 .. MaxRadius /\ Spec => Refines
<1>. SUFFICES ASSUME TheProgram, Radii \subseteq 0 .. MaxRadius
     PROVE  Spec => Refines
  OBVIOUS
<1>1. Init => Blurring
  BY BlurringInit
<1>2. Blurring /\ [Next]_vars => Blurring'
  BY BlurringNext
<1>3. Blurring => todo \in Seq(Pages)
  BY Zenon DEF Blurring, Apart
<1>. QED
  BY <1>1, <1>2, <1>3, ListIsLRU, PTL DEF Spec
-----------------------------------------------------------------------------
(* Types.  As long as every page has an entry in PT, no pointer of the     *)
(* list leads beyond the nodes that are in use, and the loops stay in the  *)
(* image.                                                                  *)
Pointers == /\ front \in 0 .. length /\ back \in 0 .. length
            /\ prev \in [1 .. f -> 0 .. length] /\ next \in [1 .. f -> 0 .. length]
            /\ page_no \in [1 .. f -> Pages] /\ PT \in [Pages -> 0 .. length]

Loops == /\ k \in Radii /\ f \in Frames
         /\ scheme \in 1 .. 6 /\ i \in 0 .. HEIGHT - 1 /\ j \in 0 .. WIDTH - 1

Counts == page_faults \in Nat /\ total_accesses \in Nat /\ page_faults <= total_accesses

TypeInv == Loops /\ Counts /\ Linked /\ Pointers

LEMMA EmptyPointers ==
  ASSUME f \in Frames, length = 0, front = 0, back = 0,
         prev = NoNodes, next = NoNodes, page_no = NoNodes, PT = NoPages
  PROVE  Pointers
<1>1. 0 \in Pages /\ 0 \in 0 .. 0
  BY LRUAssumption DEF Pages
<1>. QED
  BY <1>1 DEF Pointers, NoNodes, NoPages, NULL

LEMMA FaultPointers ==
  ASSUME f \in Nat \ {0}, length \in 0 .. f, Pointers, NEW p \in Pages, handlePageFault(p), f' = f,
         length = f => back # NULL
  PROVE  Pointers'
<1>. DEFINE full == length >= f
            nn   == IF full THEN back ELSE length + 1
            last == IF full THEN prev[nn] ELSE back
            cut  == IF full /\ last # NULL THEN [next EXCEPT ![last] = NULL] ELSE next
            gone == IF full THEN [PT EXCEPT ![page_no[nn]] = NULL] ELSE PT
            put  == [prev EXCEPT ![nn] = NULL]
<1>1. /\ length' = IF full THEN length ELSE length + 1
      /\ page_no' = [page_no EXCEPT ![nn] = p]
      /\ PT' = [gone EXCEPT ![p] = nn]
      /\ next' = [cut EXCEPT ![nn] = front]
      /\ prev' = IF front # NULL THEN [put EXCEPT ![front] = nn] ELSE put
      /\ front' = nn
      /\ back' = IF last # NULL THEN last ELSE nn
  BY DEF handlePageFault
<1>2. PICK m \in 1 .. f : m = length' /\ length \in 0 .. m /\ nn \in 1 .. m
  <2>1. CASE full
    <3>1. length = f /\ nn = back /\ length' = length
      BY <1>1, <2>1
    <3>2. nn \in 1 .. length
      BY <3>1 DEF Pointers, NULL
    <3>. QED
      BY <3>1, <3>2
  <2>2. CASE ~ full
    <3>1. nn = length + 1 /\ length' = length + 1 /\ length + 1 \in 1 .. f
      BY <1>1, <2>2
    <3>. QED
      BY <3>1
  <2>. QED
    BY <2>1, <2>2
<1>3. /\ front \in 0 .. m /\ last \in 0 .. m /\ 0 \in 0 .. m /\ nn \in 1 .. f
      /\ prev \in [1 .. f -> 0 .. m] /\ next \in [1 .. f -> 0 .. m]
      /\ PT \in [Pages -> 0 .. m] /\ page_no \in [1 .. f -> Pages]
  <2>1. \A x \in 0 .. length : x \in 0 .. m
    BY <1>2
  <2>2. /\ prev \in [1 .. f -> 0 .. m] /\ next \in [1 .. f -> 0 .. m]
        /\ PT \in [Pages -> 0 .. m]
    BY <2>1 DEF Pointers
  <2>3. front \in 0 .. m /\ back \in 0 .. m /\ 0 \in 0 .. m /\ nn \in 1 .. f
    BY <1>2, <2>1 DEF Pointers
  <2>4. last \in 0 .. m
    BY <2>2, <2>3
  <2>. QED
    BY <2>2, <2>3, <2>4 DEF Pointers
<1>. HIDE DEF nn, last
<1>4. cut \in [1 .. f -> 0 .. m] /\ gone \in [Pages -> 0 .. m] /\ put \in [1 .. f -> 0 .. m]
  BY <1>3 DEF NULL
<1>. HIDE DEF cut, gone, put
<1>5. nn \in 0 .. m
  BY <1>2
<1>6. /\ next' \in [1 .. f -> 0 .. m] /\ PT' \in [Pages -> 0 .. m]
      /\ page_no' \in [1 .. f -> Pages]
  BY <1>1, <1>3, <1>4, <1>5
<1>7. prev' \in [1 .. f -> 0 .. m]
  BY <1>1, <1>4, <1>5
<1>8. front' \in 0 .. m /\ back' \in 0 .. m
  BY <1>1, <1>3, <1>5
<1>. QED
  BY <1>2, <1>6, <1>7, <1>8, Zenon DEF Pointers

LEMMA HitPointers ==
  ASSUME f \in Nat \ {0}, length \in 0 .. f, Pointers, NEW p \in Pages, Hit(p), f' = f
  PROVE  Pointers'
<1>. DEFINE nn    == PT[p]
            over  == IF prev[nn] # NULL THEN [next EXCEPT ![prev[nn]] = next[nn]] ELSE next
            under == IF next[nn] # NULL THEN [prev EXCEPT ![next[nn]] = prev[nn]] ELSE prev
<1>1. nn \in 1 .. length /\ nn \in 1 .. f /\ nn \in 0 .. length /\ 0 \in 0 .. length
  BY DEF Hit, Pointers, NULL
<1>2. pushNodeFront(nn)
  BY DEF Hit
<1>3. /\ front \in 0 .. length /\ back \in 0 .. length
      /\ prev \in [1 .. f -> 0 .. length] /\ next \in [1 .. f -> 0 .. length]
      /\ page_no \in [1 .. f -> Pages] /\ PT \in [Pages -> 0 .. length]
  BY DEF Pointers
<1>. HIDE DEF nn
<1>4. CASE nn = front
  BY <1>2, <1>3, <1>4 DEF pushNodeFront, list, Pointers
<1>5. CASE nn # front
  <2>1. /\ next' = [over EXCEPT ![nn] = front]
        /\ prev' = [[under EXCEPT ![nn] = NULL] EXCEPT ![front] = nn]
        /\ front' = nn /\ back' = IF nn = back THEN prev[nn] ELSE back
        /\ length' = length /\ page_no' = page_no /\ PT' = PT
    BY <1>2, <1>5 DEF pushNodeFront
  <2>2. over \in [1 .. f -> 0 .. length] /\ under \in [1 .. f -> 0 .. length]
    BY <1>1, <1>3
  <2>3. back' \in 0 .. length
    BY <1>1, <1>3, <2>1
  <2>. HIDE DEF over, under
  <2>4. next' \in [1 .. f -> 0 .. length]
    BY <1>1, <1>3, <2>1, <2>2
  <2>5. prev' \in [1 .. f -> 0 .. length]
    BY <1>1, <1>3, <2>1, <2>2 DEF NULL
  <2>. QED
    BY <1>1, <1>3, <2>1, <2>3, <2>4, <2>5, Zenon DEF Pointers
<1>. QED
  BY <1>4, <1>5

LEMMA TypeInit == Init => TypeInv
<1>. SUFFICES ASSUME Init PROVE TypeInv
  OBVIOUS
<1>1. Loops /\ Counts
  BY LRUAssumption DEF Init, Loops, Counts
<1>2. Linked /\ Pointers
  BY LinkedInit, EmptyPointers DEF Init, NULL
<1>. QED
  BY <1>1, <1>2 DEF TypeInv

LEMMA TypeNext ==
  ASSUME TypeInv, todo \in Seq(Pages), [Next]_vars PROVE TypeInv'
<1>0. Linked'
  BY LinkedNext, Zenon DEF TypeInv
<1>1. PICK nd : Listed(nd)
  BY Zenon DEF TypeInv, Linked
<1>2. f \in Nat \ {0} /\ length \in 0 .. f /\ Pointers /\ (length = f => back # NULL)
  <2>1. f \in Nat \ {0} /\ length \in 0 .. f /\ Pointers
    BY <1>1, Zenon DEF Listed, ListTypes, TypeInv
  <2>2. ASSUME length = f PROVE back # NULL
    <3>1. length > 0 /\ length \in 1 .. length
      BY <2>1, <2>2
    <3>2. back = nd[length] /\ nd \in [1 .. length -> 1 .. length]
      BY <1>1, <3>1 DEF Listed, Ends, Chain
    <3>. QED
      BY <3>1, <3>2 DEF NULL
  <2>. QED
    BY <2>1, <2>2
<1>3. CASE accessPage
  <2>1. /\ todo # <<>> /\ f' = f /\ k' = k /\ UNCHANGED loops
        /\ Fault(Head(todo)) \/ Hit(Head(todo))
        /\ total_accesses' = total_accesses + 1
    BY <1>3 DEF accessPage, args
  <2>2. Head(todo) \in Pages
    BY <2>1
  <2>3. Pointers'
    BY <1>2, <2>1, <2>2, FaultPointers, HitPointers DEF Fault
  <2>4. page_faults' = page_faults \/ page_faults' = page_faults + 1
    BY <2>1, Zenon DEF Fault, Hit
  <2>5. Counts' /\ Loops'
    BY <2>1, <2>4 DEF TypeInv, Counts, Loops, loops
  <2>. QED
    BY <1>0, <2>3, <2>5 DEF TypeInv
<1>4. CASE NextPixel
  <2>1. UNCHANGED <<k, f, scheme, front, back, length, prev, next, page_no, PT,
                    page_faults, total_accesses>>
    BY <1>4 DEF NextPixel, args, list, count
  <2>2. i' \in 0 .. HEIGHT - 1 /\ j' \in 0 .. WIDTH - 1
    BY <1>4, LRUAssumption DEF NextPixel, TypeInv, Loops
  <2>3. Pointers'
    BY <1>2, <2>1 DEF Pointers
  <2>4. Counts' /\ Loops'
    BY <2>1, <2>2 DEF TypeInv, Counts, Loops
  <2>. QED
    BY <1>0, <2>3, <2>4 DEF TypeInv
<1>5. CASE NextScheme
  <2>1. /\ f' = f /\ k' = k /\ scheme' \in 1 .. 6 /\ i' = 0 /\ j' = 0
        /\ front' = 0 /\ back' = 0 /\ length' = 0 /\ page_faults' = 0 /\ total_accesses' = 0
        /\ prev' = NoNodes /\ next' = NoNodes /\ page_no' = NoNodes /\ PT' = NoPages
    BY <1>5 DEF NextScheme, args, NULL, TypeInv, Loops
  <2>2. Counts' /\ Loops'
    BY <2>1, LRUAssumption DEF TypeInv, Counts, Loops
  <2>3. Pointers'
    <3>1. 0 \in Pages /\ 0 \in 0 .. 0
      BY LRUAssumption DEF Pages
    <3>. QED
      BY <2>1, <3>1 DEF Pointers, NoNodes, NoPages, NULL
  <2>. QED
    BY <1>0, <2>2, <2>3 DEF TypeInv
<1>6. CASE UNCHANGED vars
  <2>1. UNCHANGED <<k, f, scheme, i, j, front, back, length, prev, next, page_no, PT,
                    page_faults, total_accesses>>
    BY <1>6 DEF vars, args, loops, list, count
  <2>2. Pointers'
    BY <1>2, <2>1 DEF Pointers
  <2>3. Counts' /\ Loops'
    BY <2>1 DEF TypeInv, Counts, Loops
  <2>. QED
    BY <1>0, <2>2, <2>3 DEF TypeInv
<1>. QED
  BY <1>3, <1>4, <1>5, <1>6 DEF Next

(* As long as every page that is accessed has an entry in PT, no pointer   *)
(* and no entry leads to a node that is not in use, whatever was evicted,  *)
(* and there are never more faults than accesses.                          *)
THEOREM ListTyped == Spec /\ [](todo \in Seq(Pages)) => []TypeOK
<1>1. Init => TypeInv
  BY TypeInit
<1>2. TypeInv /\ todo \in Seq(Pages) /\ [Next]_vars => TypeInv'
  BY TypeNext
<1>3. TypeInv /\ todo \in Seq(Pages) => TypeOK
  <2>. SUFFICES ASSUME TypeInv, todo \in Seq(Pages) PROVE TypeOK
    OBVIOUS
  <2>1. todo \in Seq(Nat)
    <3>1. Pages \subseteq Nat
      BY LRUAssumption DEF Pages
    <3>. QED
      BY <3>1, SeqMonotonic
  <2>2. length \in 0 .. f /\ page_faults \in 0 .. total_accesses
    <3>1. length \in 0 .. f
      BY Zenon DEF TypeInv, Linked, Listed, ListTypes
    <3>. QED
      BY <3>1 DEF TypeInv, Counts
  <2>. QED
    BY <2>1, <2>2, Zenon DEF TypeInv, Pointers, Loops, TypeOK
<1>. QED
  BY <1>1, <1>2, <1>3, PTL DEF Spec
=============================================================================
