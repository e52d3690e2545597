----------------------------- MODULE WalkFormat -----------------------------
(***************************************************************************)
(* The wire format a walked layer and its weight image share, as pure      *)
(* operators: seq_walker_fmt.py (descriptor words, their legality, how a   *)
(* projection is cut into jobs, the level word, the graded scale) and the  *)
(* arithmetic of make_weight_image.py and f2_ddr_load.py (where a tensor   *)
(* and a block lie in the image, and in which bursts it is sent).          *)
(* Geometry is passed in, so that the reference facts below can be checked *)
(* at the real sizes or at small ones.                                     *)
(***************************************************************************)
EXTENDS Integers, Sequences, FiniteSets, SequencesExt, FiniteSetsExt, Functions

\* The step bits of the mask word that the legality rules name.
EnAll == 2^11 - 1
EnW   == 17

Field(w, lsb, width) == (w \div 2^lsb) % 2^width
CeilDiv(a, b) == (a + b - 1) \div b
Total(s) == FoldSeq(+, 0, s)
-----------------------------------------------------------------------------
(* What the consumers accept (SB_*, MXE_*, LU_COLS_MAX) and what the       *)
(* walker chooses to emit (K_JOB, K_ROWS, N_MXE, LU_CHUNK) are two sets    *)
(* of numbers on purpose.                                                  *)

Stageable(k, d) == d \in {64, 128} /\ k >= 1 /\ CeilDiv(k, d) <= 31

MxeLegal(m, k, n) == m \in 1 .. 64 /\ k \in 1 .. 2048 /\ n \in 1 .. 8

\* The widest whole-stage-row contraction at row width d, under both caps.
KJob(d) == d * Min({2048 \div d, 31})

Units    == {"deq", "swiglu", "resid", "norm"}
ColsMax  == [deq |-> 4095, swiglu |-> 64, resid |-> 3584, norm |-> 3584]
LuChunk  == [deq |-> 4095, swiglu |-> 64, resid |-> 4095]
FeedDm   == 128
ResidWin == 1024

\* The width of a unit's column port holds its limit and no more.
PortWidth(unit) == CHOOSE w \in 1 .. 13 : 2^(w - 1) <= ColsMax[unit] /\ ColsMax[unit] < 2^w
Arrives(unit, cols) == cols % 2^PortWidth(unit)

LayerJobLegal(unit, cols, base) ==
  /\ base \in 0 .. 3
  /\ base # 0 => unit \in {"resid", "norm"} /\ base * ResidWin + cols <= ColsMax[unit]
  /\ unit = "norm" => cols # 0 /\ cols % FeedDm = 0
  /\ cols \in 1 .. ColsMax[unit]

\* An illegal width whose truncation the unit accepts: no job_error, a wrong answer.
SilentlyLegal(unit, cols) ==
  cols \notin 1 .. ColsMax[unit] /\ Arrives(unit, cols) \in 1 .. ColsMax[unit]

\* A width is cut at the unit's bound; with no unit named, at every unit's.
Chunked(total, bound) ==
  [i \in 1 .. CeilDiv(total, bound) |-> Min({bound, total - (i - 1) * bound})]
LuBound(units)        == Min({LuChunk[u] : u \in units})
LuChunks(cols, units) == Chunked(cols, LuBound(units))
-----------------------------------------------------------------------------
(* Jobs: n-split-major, k-split-minor; every k-split after the first adds  *)
(* to the one before it.                                                   *)

Jobs(kTotal, nTotal, kChunk, nChunk) ==
  LET ks == Chunked(kTotal, kChunk)
      ns == Chunked(nTotal, nChunk)
  IN  [i \in 1 .. Len(ks) * Len(ns) |->
        LET n0 == (i - 1) \div Len(ks)
            k0 == (i - 1) % Len(ks)
        IN  [n0 |-> n0, k0 |-> k0, k |-> ks[k0 + 1], n |-> ns[n0 + 1], accumulate |-> k0 > 0]]

\* The cells of the weight matrix job j multiplies.
JobCells(j, kChunk, nChunk) ==
  {<<j.k0 * kChunk + r, j.n0 * nChunk + c>> : r \in 0 .. j.k - 1, c \in 0 .. j.n - 1}
-----------------------------------------------------------------------------
(* Descriptor words and their legality, in the order of the clauses.       *)

PackGeom0(headDim, tier, outlierK, fmt) == fmt * 2^28 + outlierK * 2^20 + tier * 2^16 + headDim
PackModel0(dModel, dFfn)                == dFfn * 2^16 + dModel
PackModel1(heads, kvHeads, kvMap)       == kvHeads * 2^16 + heads * 2^8 + kvMap
PackStep(tRows, pos)                    == tRows * 2^8 + pos

Unpack(w) ==
  [fmt |-> Field(w[1], 28, 4), outlierK |-> Field(w[1], 20, 4), tier |-> Field(w[1], 16, 2),
   headDim |-> Field(w[1], 0, 8), dModel |-> Field(w[2], 0, 16), dFfn |-> Field(w[2], 16, 16),
   heads |-> Field(w[3], 8, 8), kvHeads |-> Field(w[3], 16, 8), kvMap |-> Field(w[3], 0, 2),
   mask |-> Field(w[4], 0, EnW), tRows |-> Field(w[5], 8, 8), pos |-> Field(w[5], 0, 8)]

ReservedClear(w) ==
  /\ Field(w[1], 24, 4) = 0 /\ Field(w[1], 18, 2) = 0 /\ Field(w[1], 8, 8) = 0
  /\ Field(w[3], 24, 8) = 0 /\ Field(w[3], 2, 6) = 0
  /\ w[4] \div 2^EnW = 0
  /\ Field(w[5], 16, 16) = 0

Check2(w, cfgD) ==
  LET d == Unpack(w)
  IN  IF d.fmt # 1 \/ ~ReservedClear(w) THEN "desc"
      ELSE IF d.tier # 0 THEN "tier"
      ELSE IF /\ d.headDim = cfgD
              /\ d.tRows \in 1 .. 128 /\ d.pos < 128
              /\ d.heads \in 1 .. 30 /\ d.kvHeads # 0 /\ d.heads % d.kvHeads = 0
              /\ d.heads * d.headDim = d.dModel
              /\ d.mask # 0 /\ d.kvMap < 2
           THEN "none" ELSE "desc"

\* The first format: score and pv of one head, geometry and mask in three words.
Check1(wGeom, wMask, cfgD) ==
  IF Field(wGeom, 28, 4) # 0 THEN "desc"
  ELSE IF Field(wGeom, 16, 2) # 0 THEN "tier"
  ELSE IF Field(wGeom, 8, 8) \in 1 .. 128 /\ Field(wGeom, 0, 8) = cfgD /\ wMask % 4 # 0
       THEN "none" ELSE "desc"

\* The legal descriptor of a 7B layer, and one corruption for every clause.
SevenB == <<PackGeom0(128, 0, 0, 1), PackModel0(3584, 18944), PackModel1(28, 4, 1), EnAll,
            PackStep(8, 7)>>
With(i, w) == [SevenB EXCEPT ![i] = w]
DirectedCheck2 ==
  {<<SevenB, 128, "none">>, <<With(4, EnAll + 2^11 + 2^13), 128, "none">>, <<SevenB, 64, "desc">>,
   <<With(1, PackGeom0(128, 1, 0, 1)), 128, "tier">>}
  \cup {<<w, 128, "desc">> : w \in
     {With(1, PackGeom0(128, 0, 0, 2)), With(1, SevenB[1] + 2^24), With(1, SevenB[1] + 2^8),
      With(5, PackStep(0, 0)), With(5, PackStep(8, 200)), With(5, SevenB[5] + 2^16),
      With(3, PackModel1(28, 3, 1)), With(3, PackModel1(27, 3, 1)), With(3, PackModel1(28, 4, 2)),
      With(4, 0), With(4, EnAll + 2^17)}}
DirectedCheck1 ==
  LET legal == 64 + 8 * 2^8
  IN  {<<legal, 3, 64, "none">>, <<legal + 2^28, 3, 64, "desc">>, <<legal + 2^16, 3, 64, "tier">>,
       <<64, 3, 64, "desc">>, <<64 + 200 * 2^8, 3, 64, "desc">>, <<legal, 3, 128, "desc">>,
       <<legal, 0, 64, "desc">>}
-----------------------------------------------------------------------------
(* The level word at the register's own bit positions, a fetch record, and *)
(* the D-030 scale: the significand rounded to eleven bits, ties to even,  *)
(* at the exponent it has (bits is the fp32 pattern of a positive normal). *)

Lctl(ropeEn, ropeBank, serDst, fsrcExt, residArm, pos, nsrc) ==
  nsrc * 2^19 + pos * 2^8 + (fsrcExt \div 4) * 2^7 + residArm * 2^6
    + (fsrcExt % 4) * 2^4 + serDst * 2^2 + ropeBank * 2 + ropeEn

\* A fetch record's three fields fit 64 bits and it asks for something.
FreqLegal(base64, beats64, tag) == base64 \in 0 .. 2^30 - 1 /\ beats64 \in 1 .. 2^26 - 1 /\ tag \in 0 .. 255

PositiveNormal(bits) == bits \div 2^23 \in 1 .. 254
GradeF32(bits) ==
  LET low == bits % 2^13
      v   == bits - low
  IN  IF low > 2^12 \/ (low = 2^12 /\ (bits \div 2^13) % 2 = 1) THEN v + 2^13 ELSE v
-----------------------------------------------------------------------------
(* The image: tensors of every layer in table order, each padded to whole  *)
(* words of `word' bytes on a base aligned to `align' bytes.               *)

TensorNames == <<"Wq", "Wk", "Wv", "Wo", "Wg", "Wu", "Wd", "g1", "g2", "phase">>
WeightNames == {"Wq", "Wk", "Wv", "Wo", "Wg", "Wu", "Wd"}

TensorShapes(dModel, dFfn, kvHeads, headDim, tMax) ==
  [t \in Range(TensorNames) |->
     CASE t \in {"Wq", "Wo"} -> <<dModel, dModel>>
       [] t \in {"Wk", "Wv"} -> <<dModel, kvHeads * headDim>>
       [] t \in {"Wg", "Wu"} -> <<dModel, dFfn>>
       [] t = "Wd"           -> <<dFfn, dModel>>
       [] t \in {"g1", "g2"} -> <<1, 2 * dModel>>
       [] t = "phase"        -> <<tMax, headDim>>]

TensorBytes(shapes) == [t \in DOMAIN shapes |-> shapes[t][1] * shapes[t][2]]
Words(bytes, word)  == CeilDiv(bytes, word)

\* Word bases of a fully packed image: what a descriptor's tensor table would
\* hold if nothing were aligned.
ImageBases(shapes, word) ==
  [i \in 1 .. Len(TensorNames) |->
     Total([j \in 1 .. i - 1 |-> Words(TensorBytes(shapes)[TensorNames[j]], word)])]

\* The tensor table of the built image: one record for every layer and tensor.
BuildImage(layers, want, shapes, align, word) ==
  LET order == [i \in 1 .. Len(layers) * Len(want) |->
                  [layer |-> layers[(i - 1) \div Len(want) + 1], tensor |-> want[((i - 1) % Len(want)) + 1]]]
      words(i) == Words(TensorBytes(shapes)[order[i].tensor], word)
      place[i \in 1 .. Len(order)] ==
        IF i = 1 THEN 0
        ELSE CeilDiv((place[i - 1] + words(i - 1)) * word, align) * (align \div word)
  IN  [i \in 1 .. Len(order) |->
        [layer |-> order[i].layer, tensor |-> order[i].tensor, base |-> place[i], words |-> words(i),
         shape |-> shapes[order[i].tensor]]]

Footprint(r) == r.base .. r.base + r.words - 1

TensorRecord(table, layer, tensor) ==
  CHOOSE r \in Range(table) : r.layer = layer /\ r.tensor = tensor

\* Byte a of a block's stream of k/8 panels, each of eight lane beats: beat
\* 8p+c carries column c of rows 8p .. 8p+7 (`lane' is eight in the code).
BlockCell(a, lane) ==
  <<lane * (a \div (lane * lane)) + (a % lane), (a \div lane) % lane>>

\* The cell of the tensor that byte a of its payload holds: blocks in the
\* order of the jobs, each in stream order.
PayloadCell(a, kTotal, kChunk, lane) ==
  LET n0     == a \div (kTotal * lane)
      inside == a % (kTotal * lane)
      k0     == inside \div (kChunk * lane)
      cell   == BlockCell(inside - k0 * kChunk * lane, lane)
  IN  <<k0 * kChunk + cell[1], n0 * lane + cell[2]>>

\* Where block (n0, k0) starts, in words of `lane' beats: the jobs before it
\* take their own depth in beats.
BlockRecord(r, n0, k0, kChunk, lane) ==
  LET order == Jobs(r.shape[1], r.shape[2], kChunk, lane)
      at    == CHOOSE i \in DOMAIN order : order[i].n0 = n0 /\ order[i].k0 = k0
      beats == Total([i \in 1 .. at - 1 |-> order[i].k])
  IN  [base |-> r.base + beats \div lane, beats |-> order[at].k \div lane, k |-> order[at].k,
       kOff |-> k0 * kChunk, nOff |-> n0 * lane]

\* The loader's plan: every tensor in bursts of whole words, in table order.
BurstPlan(table, burst) ==
  FlattenSeq([i \in 1 .. Len(table) |->
    LET sizes == Chunked(table[i].words, burst)
    IN  [b \in 1 .. Len(sizes) |-> [offset |-> table[i].base + (b - 1) * burst, words |-> sizes[b]]]])

CheckPlan(table, bursts, length) ==
  /\ \A i \in DOMAIN bursts : bursts[i].offset + bursts[i].words <= length
  /\ \A i, j \in DOMAIN bursts : i # j => bursts[i].offset # bursts[j].offset
  /\ Total([i \in DOMAIN bursts |-> bursts[i].words]) = Total([i \in DOMAIN table |-> table[i].words])
=============================================================================
