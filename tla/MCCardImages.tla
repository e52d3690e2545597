---------------------------- MODULE MCCardImages ----------------------------
(***************************************************************************)
(* One card and the tools that take turns on it: the drivers around the    *)
(* weight image (CardImage) and the sweeps over a decode step (StepSweep). *)
(* The instance: two layers of two tensors in a small image, the mutated   *)
(* word in the middle of a tensor, where a sampled readback does not look. *)
(* The facts about the wire format are checked here, at the real sizes or  *)
(* at small ones.                                                          *)
(***************************************************************************)
EXTENDS CardImage, StepSweep

VARIABLE part  \* which of the three a behaviour exercises

vars == <<imageVars, sweepVars, part>>

Init ==
  /\ ImageInit /\ SweepInit
  /\ part \in {"image", "sweep", "breadth"}
  /\ part # "image" => ready /\ \A w \in Word : dram[w] = "good"

Free == ~Active /\ ~SweepBusy /\ ~BreadthBusy

\* They meet in one point: the program of a sweep or of the breadth gate
\* resets the tile before it runs, and with it the fuel reader (OtherProgram).
OnImage   == part = "image" /\ UNCHANGED <<sweepVars, part>>
OnSweep   == part = "sweep" /\ UNCHANGED <<imageVars, part>>
OnBreadth == part = "breadth" /\ UNCHANGED <<imageVars, part>>

Start ==
  \/ \E who \in Drivers : StartDriver(who) /\ OnImage
  \/ \E req \in Requests, resume \in BOOLEAN, check \in {"none", "equal", "differs"} :
       BeginSweep(req, resume, check) /\ OnSweep
  \/ \E n \in Prompts, layer \in 0 .. Layers, step \in 0 .. Max(Prompts), fast \in BOOLEAN :
       BeginBreadth(n, layer, step, fast) /\ OnBreadth

Next ==
  \/ Free /\ Start
  \/ Free /\ OtherProgram /\ OnImage
  \/ (DriverStep \/ Loader \/ Calibrate) /\ OnImage
  \/ SweepStep /\ OnSweep
  \/ (BreadthStep \/ BreadthDies) /\ OnBreadth

\* The processes that have the card run on; nothing makes the DIMM calibrate,
\* nothing kills them, nothing starts them.
Spec ==
  /\ Init /\ [][Next]_vars
  /\ WF_vars((FlyStep \/ AskReload \/ TakeReload) /\ OnImage)
  /\ WF_vars((LoadHash \/ Preflight \/ LoadBurst \/ LoadVerify) /\ OnImage)
  /\ WF_vars((BatchFails \/ RunBatch \/ GradeSweep \/ CloseSweep) /\ OnSweep)
  /\ WF_vars(BreadthStep /\ OnBreadth)

\* Whatever has the card gives it up: no readiness poll without a limit, no
\* batch tried for ever.
CardIsFreed == ~Free ~> Free
-----------------------------------------------------------------------------
MCTable    == BuildImage(<<0>>, <<"Wk", "g2">>, TensorShapes(6, 10, 1, 2, 4), 16, 4)
Wk         == TensorRecord(MCTable, 0, "Wk")
G2         == TensorRecord(MCTable, 0, "g2")
MCGamma    == Footprint(G2)
MCQkv      == Footprint(Wk)
MCPoison   == G2.base + 1
MCNBlocks  == <<3, 2>>
MCRequests == {[step |-> 1, rows |-> 1, blocks |-> {0}], [step |-> 2, rows |-> 2, blocks |-> {0, 1}]}
-----------------------------------------------------------------------------
(* Facts about the wire format.                                            *)

HalfB == TensorShapes(896, 4864, 2, 64, 128)

\* Every projection of the half-billion-parameter layer, at its own row width,
\* is cut into jobs the matrix engine takes and the stage buffer can hold, each
\* of whole words (seq_walker_fmt.jobs against assert_mxe_legal and
\* assert_act_stageable).
ASSUME JobsAreLegal ==
  \A t \in {"Wk", "Wd"} :
    \A j \in Range(Jobs(HalfB[t][1], 64, KJob(64), 8)) :
      MxeLegal(1, j.k, j.n) /\ Stageable(j.k, 64) /\ (j.k * j.n) % 8 = 0

\* The chunk is the widest the stage buffer holds: one column more, or the
\* matrix engine's own limit at the narrow row, and it cannot be staged.
ASSUME ChunkIsTight == KJob(64) = 1984 /\ KJob(128) = 2048 /\ ~Stageable(KJob(64) + 1, 64)
  /\ ~Stageable(2048, 64)

\* Every cell of the weight matrix is multiplied by exactly one job, and a job
\* adds to its columns exactly when an earlier one has written them.
ASSUME JobsPartition ==
  \A kt \in {6, 7, 8}, nt \in {3, 4} :
    LET js == Jobs(kt, nt, 4, 2) IN
    /\ \A cell \in (0 .. kt - 1) \X (0 .. nt - 1) :
         Cardinality({i \in DOMAIN js : cell \in JobCells(js[i], 4, 2)}) = 1
    /\ \A i \in DOMAIN js : js[i].accumulate <=> \E h \in 1 .. i - 1 : js[h].n0 = js[i].n0

\* The directed corpus: the legal descriptors pass and each corruption is
\* refused with its own code.
ASSUME Corpus == (\A c \in DirectedCheck2 : Check2(c[1], c[2]) = c[3])
  /\ (\A c \in DirectedCheck1 : Check1(c[1], c[2], c[3]) = c[4])

\* What is packed is what is unpacked, at the ends of every field.
ASSUME PackUnpack == \A hd \in {64, 128}, k \in {0, 15}, m \in {0, 65535}, f \in {0, 18944}, h \in {0, 28, 255} :
   LET u == Unpack(<<PackGeom0(hd, 0, k, 1), PackModel0(m, f), PackModel1(h, 4, 1), EnAll, PackStep(h, 7)>>)
   IN f < 30000 => u = [fmt |-> 1, outlierK |-> k, tier |-> 0, headDim |-> hd, dModel |-> m, dFfn |-> f, heads |-> h, kvHeads |-> 4, kvMap |-> 1, mask |-> EnAll, tRows |-> h, pos |-> 7]

\* A width cut at every unit's bound adds up to itself and each piece is legal
\* at every unit.
ASSUME LuSafe == \A c \in {1, 64, 65, 200, 3584, 4864} :
   LET cs == LuChunks(c, DOMAIN LuChunk) IN Total(cs) = c /\ \A x \in Range(cs) : \A u \in DOMAIN LuChunk : LayerJobLegal(u, x, 0)

\* An over-wide job can arrive truncated at a width the unit accepts (the last
\* chunk of a 7B feed-forward width cut for the dequantizer alone is one).
ASSUME SilentTail == SilentlyLegal("swiglu", 2564) /\ Arrives("swiglu", 2564) = 4 /\ ~SilentlyLegal("swiglu", 4095)
  /\ Chunked(18944, LuBound({"deq"}))[5] = 2564
  /\ ~LayerJobLegal("norm", 96, 0) /\ ~LayerJobLegal("norm", 5 * FeedDm, 3) /\ LayerJobLegal("norm", 28 * FeedDm, 0)

\* The level word fits its register, and every field is where the register
\* has it.
ASSUME LctlLegacy == \A re, rb, ra, ns \in {0, 1}, sd \in 0 .. 3, fe \in 0 .. 7, p \in {0, 7, 127} :
   LET w == Lctl(re, rb, sd, fe, ra, p, ns) IN
   /\ w < 2^20 /\ Field(w, 15, 4) = 0 /\ Field(w, 19, 1) = ns /\ (Field(w, 7, 1) = 1 <=> fe >= 4) /\ Field(w, 4, 2) = fe % 4
   /\ Field(w, 8, 7) = p /\ Field(w, 2, 2) = sd

\* The graded scale is the nearest number with an eleven-bit significand, a tie
\* going to the even one, and grading it again changes nothing.
ASSUME GradeExact == \A e \in {1, 107, 254}, top \in {0, 1, 1023}, low \in {0, 1, 4095, 4096, 4097, 8191} :
   LET b == e * 2^23 + top * 2^13 + low  g == GradeF32(b) IN
   /\ PositiveNormal(b)
   /\ g % 2^13 = 0 /\ GradeF32(g) = g
   /\ \A other \in {g - 2^13, g + 2^13} :
        LET d(x) == IF x >= b THEN x - b ELSE b - x IN d(g) < d(other) \/ (d(g) = d(other) /\ (g \div 2^13) % 2 = 0)
Toy == TensorShapes(4, 10, 1, 2, 4)
ToyImage == BuildImage(<<0, 3>>, TensorNames, Toy, 16, 4)

\* Every tensor of the image lies on an aligned base, no two overlap, each can be
\* asked for by one fetch record, and without alignment the bases are the plain sums.
ASSUME ImageSound ==
  /\ \A i \in DOMAIN ToyImage : (ToyImage[i].base * 4) % 16 = 0
  /\ \A i, j \in DOMAIN ToyImage : i # j => Footprint(ToyImage[i]) \cap Footprint(ToyImage[j]) = {}
  /\ \A i \in DOMAIN ToyImage : FreqLegal(ToyImage[i].base, ToyImage[i].words, i)
  /\ LET packed == BuildImage(<<0>>, TensorNames, Toy, 4, 4)
     IN [i \in DOMAIN packed |-> packed[i].base] = ImageBases(Toy, 4)

\* A tensor's payload holds each of its cells once.
ASSUME PayloadIsTensor == \A t \in WeightNames : LET k == Toy[t][1] n == Toy[t][2] IN
   n % 2 = 0 => {PayloadCell(a, k, 4, 2) : a \in 0 .. k * n - 1} = (0 .. k - 1) \X (0 .. n - 1)

\* A block's record names the bytes of its own job and no others, inside the
\* tensor's words (the cross-check _crosscheck_block).
ASSUME BlockAddressed == \A layer \in {0, 3}, t \in WeightNames :
   LET r == TensorRecord(ToyImage, layer, t) IN
   \A j \in Range(Jobs(r.shape[1], r.shape[2], 4, 2)) :
     LET b == BlockRecord(r, j.n0, j.k0, 4, 2) IN
     /\ b.base .. b.base + b.beats - 1 \subseteq Footprint(r)
     /\ {PayloadCell(a, r.shape[1], 4, 2) : a \in 4 * (b.base - r.base) .. 4 * (b.base - r.base + b.beats) - 1} = JobCells(j, 4, 2)

\* The loader's plan writes every word of every tensor once and nothing else,
\* and a plan with a burst repeated is refused.
ASSUME PlanCovers == \A burst \in {1, 2, 5} :
   LET p == BurstPlan(ToyImage, burst)
       end == LET l == ToyImage[Len(ToyImage)] IN l.base + l.words IN
   /\ CheckPlan(ToyImage, p, end)
   /\ \A w \in 0 .. end - 1 : Cardinality({i \in DOMAIN p : w \in p[i].offset .. p[i].offset + p[i].words - 1})
        = Cardinality({i \in DOMAIN ToyImage : w \in Footprint(ToyImage[i])})
   /\ \A i \in DOMAIN p : i > 1 => ~CheckPlan(ToyImage, Append(p, p[i]), end)

=============================================================================
