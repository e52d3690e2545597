------------------------------ MODULE MxeArray ------------------------------
(***************************************************************************)
(* The systolic array rtl/mxe/mxe_array.sv with its elements mxe_pe.sv, as *)
(* a record of registers and the functions that clock it.  Numbers are     *)
(* symbolic: an activation is the beat it came from, a weight is the       *)
(* column it came from, and a partial sum is the set of the products in    *)
(* it, so a product that is missing, foreign or added twice is visible.    *)
(***************************************************************************)
EXTENDS Integers

CONSTANTS MxeN,    \* MXE_N, the side of the array
          MTile    \* M_TILE_MAX, the accumulator rows of a column

\* A zero: no activation, or a weight masked to zero.  No job has number 0.
None == [job |-> 0]

Lane == 0 .. MxeN - 1
Row == 0 .. MTile - 1
TagDepth == 2 * MxeN - 1      \* TAGP_DEPTH
FlushCycles == 2 * MxeN       \* FLUSH_CYC

NoTag == [valid |-> FALSE, clear |-> FALSE, row |-> 0]

ResetArray ==
  [skew |-> [r \in Lane |-> [j \in 0 .. r - 1 |-> None]],
   act  |-> [r \in Lane |-> [c \in Lane |-> None]],
   psum |-> [r \in Lane |-> [c \in Lane |-> {}]],
   bank |-> [b \in {0, 1} |-> [r \in Lane |-> [c \in Lane |-> None]]],
   tags |-> [j \in 0 .. TagDepth - 1 |-> NoTag],
   acc  |-> [c \in Lane |-> [m \in Row |-> {}]]]

\* A sum of products; one added a second time is kept apart from the first.
Plus(s, t) == s \cup t \cup {<<"twice", x>> : x \in s \cap t}

\* The product in row r; zero times anything adds nothing.
Product(x, w, r) ==
  IF x = None \/ w = None THEN {} ELSE {[act |-> x, wgt |-> w, row |-> r]}

\* The activation entering row r of the array, r cycles after its injection.
ActWest(a, beat, r) == IF r = 0 THEN beat ELSE a.skew[r][r - 1]

ActIn(a, beat, r, c) == IF c = 0 THEN ActWest(a, beat, r) ELSE a.act[r][c - 1]
PsumIn(a, r, c) == IF r = 0 THEN {} ELSE a.psum[r - 1][c]

\* What column c's accumulators become: its tag is MXE_N + c cycles old.
AccNext(a, c) ==
  LET tag == a.tags[MxeN + c - 1]
  IN  IF tag.valid
      THEN [a.acc[c] EXCEPT ![tag.row] = Plus(IF tag.clear THEN {} ELSE @, a.psum[MxeN - 1][c])]
      ELSE a.acc[c]

\* One compute cycle (en): beat is the injected activation, None if no beat.
ComputeStep(a, beat, tag, live) ==
  [skew |-> [r \in Lane |-> [j \in 0 .. r - 1 |-> IF j = 0 THEN beat ELSE a.skew[r][j - 1]]],
   act  |-> [r \in Lane |-> [c \in Lane |-> ActIn(a, beat, r, c)]],
   psum |-> [r \in Lane |-> [c \in Lane |->
               Plus(PsumIn(a, r, c), Product(ActIn(a, beat, r, c), a.bank[live][r][c], r))]],
   bank |-> a.bank,
   tags |-> [j \in 0 .. TagDepth - 1 |-> IF j = 0 THEN tag ELSE a.tags[j - 1]],
   acc  |-> [c \in Lane |-> AccNext(a, c)]]

\* One column-shift strobe (wload_en) into the bank that is not live.
LoadStep(a, column, live) ==
  [a EXCEPT !.bank[1 - live] =
     [r \in Lane |-> [c \in Lane |->
        IF c = MxeN - 1 THEN column[r] ELSE a.bank[1 - live][r][c + 1]]]]
=============================================================================
