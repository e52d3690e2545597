------------------------------- MODULE LmHead -------------------------------
(***************************************************************************)
(* prompt05b.py, LmHeadOffloader: the last GEMM of a token offered to the  *)
(* tile.  Golden multiplies the head tensor in slices of DIM_MAX rows; the *)
(* offloader serves a prefix of the rows, 8 to a block, and lets golden do *)
(* the rest.  Operators on its record; MultiRun drives them.               *)
(***************************************************************************)
EXTENDS Integers, Sequences, SequencesExt, FiniteSetsExt, TLC

CONSTANTS Vocab,      \* rows of head_w8
          DimMax,     \* cp.DIM_MAX: rows of one golden GEMM
          BlockRows,  \* MXE_N: rows of one block
          PerProgram, \* blocks_per_program
          MaxBytes,   \* runner.max_batch_bytes, in blocks of program text
          KChunks     \* descriptor-sized pieces of D_model

ASSUME LmHeadAssumption ==
  /\ {Vocab, DimMax, BlockRows, PerProgram, MaxBytes, KChunks} \subseteq Nat \ {0}

Rows == 0 .. Vocab - 1
Smaller(a, b) == IF a < b THEN a ELSE b
Larger(a, b) == IF a < b THEN b ELSE a

\* head_logits: the first row and the height of each GEMM.
Slices == {v \in Rows : v % DimMax = 0}
Height(v0) == Smaller(DimMax, Vocab - v0)

\* The blocks of the nrow rows served from one slice, in staging order, and
\* the programs they are packed into, each behind one staging of the row.
Blocks(nrow) == [b \in 1 .. (nrow + BlockRows - 1) \div BlockRows |->
                   [j |-> (b - 1) * BlockRows, n |-> Smaller(BlockRows, nrow - (b - 1) * BlockRows)]]

Programs(nrow) ==
  [g \in 1 .. (Len(Blocks(nrow)) + PerProgram - 1) \div PerProgram |->
     SubSeq(Blocks(nrow), (g - 1) * PerProgram + 1, Smaller(g * PerProgram, Len(Blocks(nrow))))]

\* _run_bounded: programs join an invocation until the next would pass the
\* limit; one that is too large alone still goes alone.  The invocations of a
\* slice, with the text of the last.
Packed(programs) ==
  LET packed[i \in 0 .. Len(programs)] ==
        IF i = 0 THEN [batches |-> 0, text |-> 0]
        ELSE LET done == packed[i - 1]
                 text == Len(programs[i])
             IN  IF done.batches > 0 /\ done.text + text <= MaxBytes
                 THEN [done EXCEPT !.text = @ + text]
                 ELSE [batches |-> done.batches + 1, text |-> text]
  IN  packed[Len(programs)]

\* The accumulators of one slice: per block the partial sums of the K chunks,
\* in chunk order; a partial the tile got wrong is off by one.
PartialSum(acc, k) == IF k = 1 THEN acc - (KChunks - 1) ELSE 1
Accumulated(acc, v0, nrow, wrong) ==
  [v \in {u \in v0 .. v0 + nrow - 1 :
             \E p \in Range(Programs(nrow)) : \E b \in Range(p) :
               u - v0 \in b.j .. b.j + b.n - 1} |->
     FoldLeft(LAMBDA s, k : s + PartialSum(acc[v], k) + (IF <<v, k>> \in wrong THEN 1 ELSE 0),
              0, [k \in 1 .. KChunks |-> k])]
Invocations(nrow) == KChunks * Packed(Programs(nrow)).batches

\* The programs written for one slice: one file per K chunk and program.
ProgramFiles(v0, nrow) == {v0} \X (1 .. KChunks) \X DOMAIN Programs(nrow)

-----------------------------------------------------------------------------
(* The offloader's record.                                                 *)

NoLogits == [v \in Rows |-> 0]

FreshHead(rows) ==
  [armed |-> rows > 0, rows |-> rows, pass |-> 0, serve |-> FALSE, recording |-> TRUE,
   cursor |-> 0, thisPass |-> 0, servedRows |-> 0, depth |-> 0, memo |-> {}, flown |-> NoLogits,
   exact |-> TRUE, files |-> {}, evidence |-> FALSE, reclaimed |-> 0, poisonRow |-> -1, calls |-> 0, invocations |-> 0,
   gold |-> NoLogits, tile |-> NoLogits, poisoned |-> NoLogits, refused |-> FALSE]

\* Largest value; among equals the first (numpy's argmax).
ArgMax(logits, among) ==
  Min({v \in among : \A u \in among : logits[u] <= logits[v]})

\* Mutant of Budget: the row budget is per call.
BudgetPerCall(h, m) == Larger(0, Smaller(m, h.rows))

\* Rows of a slice still inside --lmhead-rows.
Budget(h, m) == Larger(0, Smaller(m, h.rows - h.thisPass))

\* Start of a pass over the head: 1 golden, 2 the tile, 3 poisoned.
BeginPass(h, p, row) ==
  [h EXCEPT !.pass = p, !.serve = p > 1, !.recording = p # 3, !.poisonRow = row,
            !.cursor = 0, !.thisPass = 0]

\* Each GEMM must be the next slice of the head tensor.
ExpectHeadSlice(h, v0) == h.cursor = v0 /\ v0 + Height(v0) <= Vocab

\* The accumulators of an operand already run, kept for the poisoned pass.
MemoHit(h, v0, nrow) == <<v0, nrow>> \in h.memo

\* The discriminator's one row, scaled where the model will read it.
Poisoned(h, k, values) ==
  [v \in DOMAIN values |-> IF v = h.poisonRow THEN values[v] * k ELSE values[v]]

\* _reclaim, once the captures of a chunk's programs are decoded: the first
\* program of the run stays on disk as evidence, the others are deleted,
\* unless --keep-jobs.
Reclaim(h, paths, keepJobs) ==
  IF keepJobs THEN [h EXCEPT !.files = @ \cup paths]
  ELSE LET first == CHOOSE p \in paths : \A q \in paths : p[2] * Vocab + p[3] <= q[2] * Vocab + q[3]
           kept == IF h.evidence THEN {} ELSE {first}
       IN  [h EXCEPT !.evidence = TRUE, !.files = @ \cup kept,
                     !.reclaimed = @ + Cardinality(paths \ kept)]

\* The logits, with those of some rows put in.
Overlay(logits, values) ==
  [v \in DOMAIN logits |-> IF v \in DOMAIN values THEN values[v] ELSE logits[v]]

Keep(h, values) ==
  IF h.pass = 3 THEN [h EXCEPT !.poisoned = Overlay(@, values)]
  ELSE [h EXCEPT !.tile = Overlay(@, values)]

\* One GEMM of the head while the seam serves.
Serve(h, mode, acc, v0, wrong, k, keepJobs) ==
  LET m == Height(v0)
      nrow == Budget(h, m)
      hit == MemoHit(h, v0, nrow)
      host == [v \in v0 .. v0 + m - 1 |-> acc[v]]
      tile == IF hit THEN [v \in v0 .. v0 + nrow - 1 |-> h.tile[v]]
              ELSE IF mode = "golden" THEN [v \in v0 .. v0 + nrow - 1 |-> acc[v]]
              ELSE Accumulated(acc, v0, nrow, wrong)
      out == Poisoned(h, k, Overlay(host, tile))
      flies == nrow > 0 /\ ~hit /\ mode # "golden"
      flown == IF flies THEN Reclaim(h, ProgramFiles(v0, nrow), keepJobs) ELSE h
      next == [flown EXCEPT !.cursor = v0 + m, !.calls = @ + 1, !.thisPass = @ + nrow]
  IN  IF ~ExpectHeadSlice(h, v0) THEN [h EXCEPT !.refused = TRUE]
      ELSE IF nrow = 0 THEN Keep(next, host)
      ELSE Keep([next EXCEPT
             !.memo = @ \cup {<<v0, nrow>>},
             !.flown = [v \in Rows |-> @[v] + IF ~hit /\ v \in v0 .. v0 + nrow - 1 THEN 1 ELSE 0],
             !.invocations = @ + IF flies THEN Invocations(nrow) ELSE 0,
             !.servedRows = @ + IF h.recording THEN nrow ELSE 0,
             !.exact = @ /\ (h.recording => \A v \in DOMAIN tile : tile[v] = acc[v])], out)

\* _gemm: golden's own value unless the seam serves; the reference it calls
\* for may call the seam again, which then passes it through.
GemmCall(h, mode, acc, v0, wrong, k, keepJobs) ==
  IF ~h.serve THEN [h EXCEPT !.gold = Overlay(@, [v \in v0 .. v0 + Height(v0) - 1 |-> acc[v]])]
  ELSE Serve(h, mode, acc, v0, wrong, k, keepJobs)

\* The row the discriminator scales: golden's best if it was served, else the
\* best of those that were.
PoisonRow(h) ==
  LET best == ArgMax(h.gold, Rows)
  IN  IF best < h.servedRows THEN best ELSE ArgMax(h.gold, 0 .. h.servedRows - 1)

Result(h, poison) ==
  LET row == PoisonRow(h)
  IN  [rows |-> h.servedRows,
       argmaxEqual |-> ArgMax(h.gold, Rows) = ArgMax(h.tile, Rows),
       logitsEqual |-> h.gold = h.tile,
       exact |-> h.exact /\ h.servedRows > 0,
       moved |-> poison /\ h.servedRows > 0 => h.poisoned[row] # h.tile[row],
       flipped |-> poison /\ h.servedRows > 0 /\ row = ArgMax(h.gold, Rows) =>
                     ArgMax(h.poisoned, Rows) # ArgMax(h.tile, Rows)]

\* head_ok of the report.
HeadOk(r) == r.rows > 0 /\ r.argmaxEqual /\ r.logitsEqual /\ r.exact /\ r.moved /\ r.flipped
=============================================================================
