---------------------------- MODULE TilePrograms ----------------------------
(* The register programs the host compiles for the tile: projections on the   *)
(* external weight port (one descriptor, several on one staging, a chain that *)
(* accumulates on the tile, several files summed by the host) and attention   *)
(* (sequenced by the host, or by the tile's walker from one kick).            *)
EXTENDS Tile

Concat(s) == FlattenSeq(s)
Each(n, F(_)) == Concat([i \in 1 .. n |-> F(i)])

Route(r) == <<[o |-> "route", r |-> r]>>
Aj(op, bank, nb, sel) ==
    <<[o |-> "aj", j |-> [op |-> op, bank |-> bank, pat |-> 0, rows |-> 1, nb |-> nb, sel |-> sel, k |-> 0]]>>
Wj(op, pat, rows, sel) ==
    <<[o |-> "wj", j |-> [op |-> op, bank |-> 0, pat |-> pat, rows |-> rows, nb |-> Bpr, sel |-> sel, k |-> 0]]>>
Unit(o, n) == <<[o |-> o, n |-> n]>>
QJob(mode, n) == <<[o |-> "qjob", mode |-> mode, n |-> n]>>
Push(f, v) == <<[o |-> "push", f |-> f, v |-> v]>>
Say(o) == <<[o |-> o]>>
Desc(os, acc, ka, kw) == Push("ds", [os |-> os, acc |-> acc, ka |-> ka, kw |-> kw])
Times(n, s) == Each(n, LAMBDA i : s)

---------------------------------------------------------------------------
(* The phases every program is made of.                                     *)
PhaseA == Desc(0, 0, 0, 1) \o Say("rejected")
LoaderRow == [j \in 1 .. Bpr |-> IF j = 1 THEN Loader ELSE Empty]
LoaderPhase == Route(Reset) \o Aj("load", 0, Bpr, 0) \o Unit("fjob", 1)
               \o Push("xa", <<LoaderRow>>) \o Push("xg", <<"gamma">>) \o Say("fs")

\* a row goes in through the array, a beat at a time: the loader row times it
Row(v) == [j \in 1 .. Bpr |-> <<"e", v, j>>]
InjectJobs(v, mode) ==
    QJob(mode, Bpr) \o Times(Bpr, Push("qs", <<"comp">>)) \o Unit("ljob", Bpr)
    \o Each(Bpr, LAMBDA j : Aj("emit", 0, 1, 0) \o Desc(0, 0, 1, 1) \o Push("xw", Row(v)[j]))
FinalPhase == Say("idle") \o Say("kvp") \o Say("done")

ActBank == 1        \* bank 0 row 0 holds the loader row
StageRow(v, base) == InjectJobs(v, 1) \o Say("ss") \o Aj("load", ActBank, Bpr, base)
Stage(n) == Route([Reset EXCEPT !.rdst = 1, !.asrc = 1])
            \o Each(n, LAMBDA r : StageRow(<<"x", r>>, r - 1))

\* MUTANT: every row's EMIT before the descriptor that lets the first one go
GemmBlockDescLast(os, acc, r0, nr, b) ==
    Each(nr, LAMBDA r : Aj("emit", ActBank, Bpr, r0 + r - 1)) \o Desc(os, acc, nr * Bpr, nr)
    \o Each(nr, LAMBDA r : Push("xw", <<"w", b, r0 + r>>)) \o Say("ro")

\* the first row's EMIT, the descriptor, the other EMITs, the weights last
GemmBlock(os, acc, r0, nr, b) ==
    Aj("emit", ActBank, Bpr, r0) \o Desc(os, acc, nr * Bpr, nr)
    \o Each(nr - 1, LAMBDA r : Aj("emit", ActBank, Bpr, r0 + r))
    \o Each(nr, LAMBDA r : Push("xw", <<"w", b, r0 + r>>)) \o Say("ro")
Drain == Route([Reset EXCEPT !.asrc = 1])

Dot(r0, nr, b) == <<"mm", Each(nr, LAMBDA r : Row(<<"x", r0 + r>>)),
                          [r \in 1 .. nr |-> <<"w", b, r0 + r>>]>>
RosOf(c) == LET ros == SelectSeq(c, LAMBDA x : x[1] = "ro") IN [i \in 1 .. Len(ros) |-> ros[i][2]]

---------------------------------------------------------------------------
(* Projections.                                                             *)
Thin(rows) ==
    [kind |-> "thin",
     ops |-> PhaseA \o LoaderPhase \o Stage(rows) \o Drain \o GemmBlock(0, 0, 0, rows, 0)
             \o FinalPhase,
     want |-> <<Dot(0, rows, 0)>>]

\* bursting: a stream is read empty before every b-th push into it
PushesBefore(ops, i) ==
    Cardinality({k \in 1 .. i - 1 : ops[k].o = "push" /\ ops[k].f = ops[i].f})
BurstXlate(ops, b) ==
    Each(Len(ops), LAMBDA i :
        IF ops[i].o # "push" THEN <<ops[i]>>
        ELSE (IF PushesBefore(ops, i) % b = 0 THEN <<[o |-> "empty", f |-> ops[i].f]>> ELSE <<>>)
             \o <<[ops[i] EXCEPT !.o = "blind"]>>)
\* MUTANT: the audit counts from the push after the read
AuditPushBurstsLate(ops) ==
    \A i \in DOMAIN ops : ops[i].o = "blind" =>
        \E k \in 1 .. i - 1 :
            /\ ops[k].o = "empty" /\ ops[k].f = ops[i].f
            /\ Cardinality({n \in k .. i - 1 : ops[n].o = "blind" /\ ops[n].f = ops[i].f}) <= Depth

\* the walk over a compiled program that refuses a burst longer than the FIFO
AuditPushBursts(ops) ==
    \A i \in DOMAIN ops : ops[i].o = "blind" =>
        \E k \in 1 .. i - 1 :
            /\ ops[k].o = "empty" /\ ops[k].f = ops[i].f
            /\ Cardinality({n \in k .. i : ops[n].o = "blind" /\ ops[n].f = ops[i].f}) <= Depth

\* one staging, a descriptor per column block: only for an image whose LOAD
\* takes a base row, or one row
FatOps(rows, blocks) ==
    PhaseA \o LoaderPhase \o Stage(rows) \o Drain
    \o Each(blocks, LAMBDA b : GemmBlock(0, 0, 0, rows, b)) \o FinalPhase
Fat(rows, blocks, burst) ==
    [kind |-> "fat", ops |-> BurstXlate(FatOps(rows, blocks), burst),
     want |-> [b \in 1 .. blocks |-> Dot(0, rows, b)]]

\* the rows of a descriptor, in order, and what is left for the last
Chunks(rows, per) == [c \in 1 .. (rows + per - 1) \div per |->
                        [r0 |-> (c - 1) * per,
                         nr |-> IF c * per <= rows THEN per ELSE rows - (c - 1) * per]]

\* MUTANT: each chunk's rows staged just before its descriptor
ChainInterleaved(rows, per) ==
    LET ch == Chunks(rows, per)
    IN [kind |-> "chain",
        ops |-> PhaseA \o LoaderPhase
                \o Each(Len(ch), LAMBDA c :
                     Route([Reset EXCEPT !.rdst = 1, !.asrc = 1])
                     \o Each(ch[c].nr, LAMBDA r : StageRow(<<"x", ch[c].r0 + r>>, ch[c].r0 + r - 1))
                     \o Drain \o GemmBlock(1, IF c > 1 THEN 1 ELSE 0, ch[c].r0, ch[c].nr, 0))
                \o FinalPhase,
        want |-> [c \in 1 .. Len(ch) |-> Dot(ch[c].r0, ch[c].nr, 0)]]

\* staging clears the accumulators, so every row is staged before the chain
Chain(rows, per) ==
    LET ch == Chunks(rows, per)
    IN [kind |-> "chain",
        ops |-> PhaseA \o LoaderPhase \o Stage(rows) \o Drain
                \o Each(Len(ch), LAMBDA c : GemmBlock(1, IF c > 1 THEN 1 ELSE 0,
                                                      ch[c].r0, ch[c].nr, 0))
                \o FinalPhase,
        want |-> [c \in 1 .. Len(ch) |-> Dot(ch[c].r0, ch[c].nr, 0)]]

\* one file per chunk; a file stages its own rows, from row 0 on
KSplitBlock(rows, per, b) ==
    LET ch == Chunks(rows, per)
        File(c) == Say("file") \o PhaseA \o LoaderPhase
                   \o Route([Reset EXCEPT !.rdst = 1, !.asrc = 1])
                   \o Each(ch[c].nr, LAMBDA r : StageRow(<<"x", ch[c].r0 + r>>, r - 1)) \o Drain
                   \o Aj("emit", ActBank, Bpr, 0) \o Desc(0, 0, ch[c].nr * Bpr, ch[c].nr)
                   \o Each(ch[c].nr - 1, LAMBDA r : Aj("emit", ActBank, Bpr, r))
                   \o Each(ch[c].nr, LAMBDA r : Push("xw", <<"w", b, ch[c].r0 + r>>))
                   \o Say("ro") \o FinalPhase
    IN [kind |-> "ksplit", ops |-> Each(Len(ch), File),
        want |-> [c \in 1 .. Len(ch) |-> Dot(ch[c].r0, ch[c].nr, b)]]
KSplit(rows, per) == KSplitBlock(rows, per, 0)

RowsPerDesc(img) == IF img = "base_row" THEN 2 ELSE 1
MayBuild(p, img, rows) == p \in {"thin", "fat", "chain"} => img = "base_row" \/ rows = 1

---------------------------------------------------------------------------
(* Attention.                                                               *)
K(t) == Row(<<"k", t>>)
V(t) == Row(<<"v", t>>)
InjectAt(v, a) == Say("kvp") \o Unit("waddr", a) \o InjectJobs(v, 0)

\* keys of a grouped tier go in under one base address, a short group is flushed
KeyGroups(n) ==
    Each((n + Group - 1) \div Group, LAMBDA g :
        LET g0 == (g - 1) * Group
            len == IF g0 + Group <= n THEN Group ELSE n - g0
        IN Say("kvp") \o Unit("waddr", g0)
           \o Each(len, LAMBDA t : InjectJobs(<<"k", g0 + t - 1>>, 0))
           \o (IF len < Group THEN Say("idle") \o Say("flush") ELSE <<>>) \o Say("kvp"))
StoreRecords(n, grouped, v) ==
    (IF grouped
     THEN Route([Reset EXCEPT !.rdst = 1, !.kvu = 0]) \o KeyGroups(n) \o Route([Reset EXCEPT !.rdst = 1])
     ELSE Route([Reset EXCEPT !.rdst = 1])
          \o Each(n, LAMBDA t : InjectAt(<<"k", t - 1>>, t - 1)))
    \o Each(n, LAMBDA t : InjectAt(<<v, t - 1>>, n + t - 1)) \o Say("kvp")
StoreKv(n, grouped) == StoreRecords(n, grouped, "v")

\* the c8 row: its first Bpr beats in bank 1, the rest over the loader row
C8(n) == (n + Chunk - 1) \div Chunk
Least(a, b) == IF a < b THEN a ELSE b
StageC8Load(n) == Aj("load", 1, Least(C8(n), Bpr), 0)
                  \o (IF C8(n) > Bpr THEN Aj("load", 0, C8(n) - Bpr, 0) ELSE <<>>)
StageC8Emit(n, d) == Aj("emit", 1, Least(C8(n), Bpr), 0) \o d
                     \o (IF C8(n) > Bpr THEN Aj("emit", 0, C8(n) - Bpr, 0) ELSE <<>>)

TokenChunks(n) == Chunks(n, Chunk)
ReadRecords(a, c) == Wj("load", 0, c.nr, 0) \o Unit("fjob", c.nr)
                     \o Each(c.nr, LAMBDA i : Say("kvp") \o Unit("raddr", a + c.r0 + i - 1)
                                              \o Say("fs"))
ScorePhase(n) ==
    LET ch == TokenChunks(n)
    IN Route(Through) \o Unit("sjob", n) \o Times(n, Push("cs", <<"comp">>))
       \o QJob(1, n) \o Times(n, Push("qs", <<"comp">>))
       \o Each(Len(ch), LAMBDA c :
            ReadRecords(0, ch[c]) \o Wj("emit", 1, ch[c].nr, 0)
            \o Aj("emit", 1, Bpr, 0) \o Desc(1, 0, Bpr, ch[c].nr))
       \o (IF n <= Chunk THEN Say("td") ELSE <<>>) \o Say("ss") \o StageC8Load(n)
PvPhase(n) ==
    LET ch == TokenChunks(n)
    IN Route([Through EXCEPT !.rdst = 0])
       \o Each(Bpr, LAMBDA j :
            StageC8Emit(n, Desc(1, 0, C8(n), n))
            \o Each(Len(ch), LAMBDA c : ReadRecords(n, ch[c]) \o Wj("emit", 2, ch[c].nr, j))
            \o Say("ro"))

InjectQuery == Route([Reset EXCEPT !.rdst = 1, !.asrc = 1]) \o InjectJobs(<<"q">>, 1)
               \o Say("ss") \o Aj("load", 1, Bpr, 0)
\* what attention is worth: P of the scores of every key, times every value;
\* and the scales tapped on the way: a record's each time it is read, q's, P's
ScoresOf(q, n) ==
    LET ch == TokenChunks(n)
    IN <<"p", [c \in 1 .. Len(ch) |->
                 <<<<<<"mm", q,
                       [i \in 1 .. ch[c].nr |-> <<1, 0, K(ch[c].r0 + i - 1)>>]>>>>, ch[c].nr>>]>>
Attention(q, v, n) ==
    [j \in 1 .. Bpr |->
       <<"mm", [i \in 1 .. C8(n) |-> <<"pb", ScoresOf(q, n), i>>],
               [t \in 1 .. n |-> <<2, j, Row(<<v, t - 1>>)>>]>>]
TappedScales(n, walks) ==
    [t \in 1 .. n |-> <<"s", K(t - 1)>>]
    \o Times(walks * Bpr, [t \in 1 .. n |-> <<"s", V(t - 1)>>])
    \o << <<"s", Row(<<"q">>)>>, <<"s", ScoresOf(Row(<<"q">>), n)>> >>

Prologue(n, grouped) == PhaseA \o LoaderPhase \o StoreKv(n, grouped) \o InjectQuery
\* one capture per tap: the loader's scale, a scale per record read, two row
\* scales, a beat per block
CapCensus(n, rekick) == LET w == IF rekick THEN 2 ELSE 1
                        IN [fs |-> 1 + n + w * Bpr * n, ss |-> 2, ro |-> w * Bpr]
CoreCase(n, grouped) ==
    [kind |-> "core", census |-> CapCensus(n, FALSE),
     ops |-> Prologue(n, grouped) \o ScorePhase(n) \o PvPhase(n) \o FinalPhase,
     want |-> Attention(Row(<<"q">>), "v", n) \o TappedScales(n, 1)]

\* walker mode: what the tile sequences itself, and the pops left to the host
HostOps == Pops
PartitionHost(ops) == SelectSeq(ops, LAMBDA x : x.o \in HostOps)
PartitionWalked(ops) == SelectSeq(ops, LAMBDA x : x.o \notin HostOps)
EmitWalk(ops) == <<[o |-> "walk", ops |-> PartitionWalked(ops)]>> \o PartitionHost(ops)
                 \o Say("walkoff")
Walks(rekick) == IF rekick THEN 2 ELSE 1
WalkJob(n, rekick) ==
    [kind |-> "walk", census |-> CapCensus(n, rekick),
     ops |-> Prologue(n, FALSE) \o EmitWalk(ScorePhase(n) \o PvPhase(n))
             \o (IF rekick THEN EmitWalk(PvPhase(n)) ELSE <<>>) \o FinalPhase,
     want |-> Times(Walks(rekick), Attention(Row(<<"q">>), "v", n)) \o TappedScales(n, Walks(rekick))]
\* the same program with its kick neutered: it must never pass
NogoVariant(n) ==
    [kind |-> "nogo", want |-> <<>>,
     ops |-> Prologue(n, FALSE) \o <<[o |-> "walk", ops |-> <<>>]>>
             \o PartitionHost(ScorePhase(n) \o PvPhase(n)) \o Say("walkoff")]
\* a tier, a length and a format the walker does not take, each refused whole
RefusalProbe ==
    [kind |-> "probe", want |-> <<>>,
     ops |-> Times(3, <<[o |-> "badwalk"]>> \o Say("rejected") \o Say("clear") \o Say("walkoff"))]

ProjectionPrograms(img) ==
    UNION {{Fat(rows, 2, b) : b \in {b \in 1 .. Depth + 1 : AuditPushBursts(Fat(rows, 2, b).ops)}}
           \cup {Chain(rows, per) : per \in 1 .. 2} \cup {Thin(rows)} :
             rows \in {rows \in 1 .. 3 : MayBuild("thin", img, rows)}}
    \cup {KSplit(3, RowsPerDesc(img))}
AttentionPrograms == {CoreCase(n, g) : n \in 1 .. 3, g \in BOOLEAN}
                     \cup {WalkJob(n, k) : n \in 1 .. 3, k \in BOOLEAN}
                     \cup {NogoVariant(1), RefusalProbe}
=============================================================================
