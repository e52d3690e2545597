---------------------------- MODULE WalkPrograms ----------------------------
(* The programs that carry a residual row to the norm without it leaving the  *)
(* tile: sequenced by the host, then by the layer walker, and a probe for     *)
(* every step a walk can be asked for on an image without a fuel path.  A     *)
(* program that cannot be green says so: it is a discriminator, and its       *)
(* campaign counts on how it fails.  Then the programs of one kick: the query *)
(* staged by the walker, attention and the norm's feed behind it; the chain   *)
(* with the output projection fed from card memory, the gamma of the norm     *)
(* fetched too, and the q, k and v projections before it.  Between the kick   *)
(* and the end of the walk the host writes nothing but data and pops captures.*)
EXTENDS LayerWalk

NoMem == <<"none">>
Look(f, v) == <<[o |-> "look", f |-> f, v |-> v]>>
Go(m) == WalkGo(m, Toy)
WalkEnds == Poll("busy", FALSE) \o Look("werr", FALSE)
\* what a part of the captures must be: the captures of a kind, from the n-th on
Part(o, n, v) == [o |-> o, from |-> n, v |-> v]
BlocksOf(row) == [b \in 1 .. Bpr |-> <<Codes(row)[b]>>]
ScaleOf(row) == <<"s", row>>

ResidOf(x, o) == [e \in 1 .. Bpr |->
    <<"add", <<x, e - 1>>, <<"deq", <<<<"c", 0>>>>, <<<<"e", o, e>>>>>>>>]
NormOf(row, g) == [j \in 1 .. Bpr |-> <<"n", row[j], g>>]
StepGolden == [x |-> "row", g2 |-> <<"g2">>]
\* the operand one ulp off, or the gamma moved
Perturb(p) == CASE p = "x" -> [StepGolden EXCEPT !.x = "row'"]
                [] p = "gamma" -> [StepGolden EXCEPT !.g2 = <<"g2'">>]
                [] OTHER -> StepGolden
\* the row, its codes after the norm, and the scale of both
GradeNfeed ==
    LET r1 == ResidOf("row", <<"o", 1>>)
        h2 == NormOf(r1, StepGolden.g2)
    IN [r1 |-> Part("erd", 1, r1), h2 |-> Part("ro", 1, BlocksOf(h2)),
        scales |-> Part("fs", 2, <<ScaleOf(r1), ScaleOf(h2)>>)]

\* the host makes the row: operand, residual job, composite, dequantise job
MakeRow(x) ==
    LayerPrologue \o Ldata(x, Bpr) \o LCtl([NoLayer EXCEPT !.ser = 1])
    \o Route([Reset EXCEPT !.rdst = 1])
    \o LuJob("resid", 0, Bpr) \o Epilogue(<<"c", 0>>, Bpr) \o InjectFrame(<<"o", 1>>, Bpr, FALSE)
    \o Say("lpoll") \o Host0
\* and drains the norm: the load first, then gamma, which lets the row go
DrainNorm(g2) ==
    LCtl(NoLayer) \o Aj("load", ActBank, Bpr, 0) \o Unit("fjob", 1) \o Push("xg", g2)
    \o Say("fs") \o Host0 \o IdentityReadback(ActBank, 0)
    \o Say("lrptr") \o Times(Bpr, Say("erd")) \o DrainAndCheck

NfeedStage(p) ==
    LET s == Perturb(p)
    IN [kind |-> "graded", mem |-> NoMem, want |-> GradeNfeed,
        ops |-> MakeRow(s.x) \o LCtl([NoLayer EXCEPT !.fext = 4, !.nsrc = TRUE])
                \o Unit("fjob", 1) \o LuJob("norm", 0, Bpr) \o Poll("nf", FALSE) \o Say("fs")
                \o DrainNorm(s.g2)]
RouteProbe == [kind |-> "graded", mem |-> NoMem, want |-> <<>>,
               ops |-> LayerPrologue \o LCtl(NoLayer) \o LuJob("norm", 0, Bpr)
                       \o Poll("err", TRUE) \o Say("rejected") \o Look("err", FALSE)]
GeomProbe == [kind |-> "graded", mem |-> NoMem, want |-> <<>>,
              ops |-> LayerPrologue \o Say("idle")
                      \o LCtl([NoLayer EXCEPT !.fext = 4, !.nsrc = TRUE])
                      \o LuJob("norm", DmMax, Bpr) \o Poll("err", TRUE) \o Poll("nf", FALSE)
                      \o Say("rejected") \o Look("err", FALSE) \o LCtl(NoLayer)]

\* the same feed under the walker; off, the walk is of another step
WalkStage(p, nfeed) ==
    LET s == Perturb(p)
    IN [kind |-> "graded", mem |-> NoMem, want |-> GradeNfeed,
        ops |-> MakeRow(s.x) \o LCtl([NoLayer EXCEPT !.nsrc = TRUE])
                \o Go(IF nfeed THEN {"NFEED"} ELSE {"RES1"})
                \o Poll("fext", 4) \o Poll("nf", FALSE) \o WalkEnds
                \o Look("levels", [NoLayer EXCEPT !.fext = 4, !.nsrc = TRUE])
                \o Look("err", FALSE) \o Say("walkoff") \o Say("fs") \o DrainNorm(s.g2)]

---------------------------------------------------------------------------
(* A probe for each step.                                                   *)
Probe(ops) == [kind |-> "graded", mem |-> NoMem, want |-> <<>>, ops |-> LayerPrologue \o ops]
BuildNfeed(nfeed) ==
    [kind |-> "graded", mem |-> NoMem, want |-> GradeNfeed,
     ops |-> MakeRow("row") \o LCtl([NoLayer EXCEPT !.nsrc = TRUE])
             \o Go(IF nfeed THEN {"NFEED"} ELSE {"RES1"})
             \o Poll("fext", 4) \o Poll("nf", FALSE) \o WalkEnds \o Say("walkoff") \o Say("fs")
             \o DrainNorm(<<"g2">>)]
BuildRope == Probe(LCtl(NoLayer) \o Look("levels", NoLayer) \o Go({"ROPE"}) \o WalkEnds
                   \o Look("levels", [NoLayer EXCEPT !.rope = TRUE]) \o Say("walkoff"))
BuildStorekv == Probe(Go({"STOREKV"}) \o WalkEnds \o Say("walkoff") \o Say("kvp"))
\* the residual job is taken and waits for a stream the walk cannot route
BuildRes1 == Probe(Go({"RES1"}) \o WalkEnds \o Say("walkoff")
                   \o Look("res", TRUE) \o Look("err", FALSE))
\* the others wedge at a fetch: busy is read, and expected not to have fallen
Wedged == Look("werr", FALSE) \o Look("busy", FALSE)
\* a composite the unit refuses as soon as it is asked to use it
ZeroComposite(ops) == [i \in DOMAIN ops |->
    IF ops[i].o = "ljc" THEN [ops[i] EXCEPT !.v = <<"c", -1>>] ELSE ops[i]]
BuildOproj == Probe(Go({"OPROJ"}) \o Poll("ser", 1) \o Poll("deq", TRUE) \o Wedged)
BuildQkv == Probe(Go({"QKV"}) \o Wedged)
BuildFfn == Probe(Go({"FFN"}) \o Poll("ser", 2) \o Poll("swg", TRUE) \o Wedged)
BuildJc0 == Probe(<<[Go({"OPROJ"})[1] EXCEPT !.plan = ZeroComposite(@)]>>
                  \o Poll("err", TRUE) \o Look("deq", FALSE) \o Look("err", TRUE) \o Wedged)
BuildNorm2 == Probe(SubSeq(MakeRow("row"), Len(LayerPrologue) + 1, Len(MakeRow("row")))
                    \o LCtl([NoLayer EXCEPT !.nsrc = TRUE]) \o Go({"NFEED", "NORM2"})
                    \o Poll("fext", 4) \o Poll("nf", FALSE) \o Say("fs") \o Wedged)
-----------------------------------------------------------------------------
(* One kick, from the query to the norm and beyond.                         *)

Rotated == [j \in 1 .. Bpr |-> <<"rot", Row(<<"q">>)[j]>>]
Fuelled(on) == <<[o |-> "fuel", on |-> on]>>
LevelsOf(ser, fext, nsrc) == [rope |-> TRUE, ser |-> ser, fext |-> fext, nsrc |-> nsrc]
Popped(f, n) == Times(n, Say(f))
QueryBeats == Each(Bpr, LAMBDA j : Push("xw", Row(<<"q">>)[j]))
RowReadback(row) == Host0 \o IdentityReadback(ActBank, row)
Graph(ops, want, mem) == [kind |-> "graded", mem |-> mem, ops |-> ops, want |-> want]

\* the codes and the scale of every staged row
GradeQstage == [codes |-> Part("ro", 1, BlocksOf(Rotated)),
                scale |-> Part("fs", 2, <<ScaleOf(Rotated)>>)]
\* the walker stages the rotated query; off, its beats have nowhere to go
WalkQstage(qstage) ==
    Graph(LayerPrologue \o Go(IF qstage THEN {"QSTAGE"} ELSE {"ROPE"}) \o QueryBeats \o WalkEnds
          \o Say("walkoff") \o Look("levels", LevelsOf(0, 0, FALSE)) \o Say("fs")
          \o RowReadback(0) \o DrainAndCheck,
          GradeQstage, NoMem)

\* what a walked attention must leave: the scale of P, the scales tapped on the
\* way, the output, the codes of the normed row, and the residual row
AttentionParts(ss, ro, row, h2) ==
    [s_c |-> Part("ss", ss, <<<<"s", ScoresOf(Rotated, 1)>>>>),
     fs |-> Part("fs", 2, <<ScaleOf(Rotated), ScaleOf(K(0))>> \o Times(Bpr, <<ScaleOf(V(0))>>)
                          \o <<ScaleOf(row), ScaleOf(h2)>>),
     o8 |-> Part("ro", ro, [j \in 1 .. Bpr |-> <<Attention(Rotated, "v", 1)[j]>>]),
     h2 |-> Part("ro", ro + Bpr, BlocksOf(h2)),
     row |-> Part("erd", 1, row)]

E4Mask == {"QSTAGE", "SCORE", "PV", "NFEED", "NSRC"}
InputRow == [e \in 1 .. Bpr |-> <<"row", e - 1>>]
WalkE4(v) ==
    Graph(LayerPrologue \o StoreRecords(1, FALSE, v) \o Ldata("row", Bpr) \o Host0
          \o Go(E4Mask) \o QueryBeats \o WalkEnds \o Say("walkoff")
          \o Look("nf", FALSE) \o Look("err", FALSE) \o Look("levels", LevelsOf(0, 4, TRUE))
          \o Popped("ss", 1) \o Popped("fs", 3 + Bpr) \o Popped("ro", Bpr) \o Popped("td", 1)
          \o DrainNorm(<<"g2">>),
          AttentionParts(1, 1, InputRow, NormOf(InputRow, <<"g2">>)), NoMem)
Fence(m, fuelled, checked) ==
    Graph(LayerPrologue \o (IF fuelled THEN Fuelled(TRUE) ELSE <<>>) \o Go(m)
          \o Poll("busy", FALSE) \o Look("werr", TRUE) \o Say("walkoff")
          \o (IF checked THEN Look("levels", NoLayer) ELSE <<>>), <<>>, NoMem)
E4Refusal(m) == Fence(m, FALSE, TRUE)

---------------------------------------------------------------------------
(* The chain on fuel: the host stages what the walk starts from.            *)
PreStaged(v, acts) ==
    LayerPrologue \o StoreRecords(1, FALSE, v) \o Ldata("row", Bpr)
    \o Route([Reset EXCEPT !.rdst = 1, !.asrc = 1])
    \o Each(Len(acts), LAMBDA i : StageRow(acts[i], i))
    \o Route([Reset EXCEPT !.rdst = 1])
    \o LCtl([NoLayer EXCEPT !.rope = TRUE, !.fext = 3]) \o Unit("fjob", 1) \o InjectJobs(<<"q">>, 0)
    \o Aj("load", ActBank, Bpr, 0) \o Say("fs") \o Say("lpoll")
    \o LCtl([NoLayer EXCEPT !.rope = TRUE]) \o Host0
UnitsQuiet == Look("err", FALSE) \o Look("nf", FALSE) \o Look("deq", FALSE) \o Look("res", FALSE)
Kicked(m, popped, levels) ==
    Fuelled(TRUE) \o Go(m) \o Popped("ro", popped) \o WalkEnds \o Say("walkoff") \o Fuelled(FALSE)
    \o Say("lpoll") \o UnitsQuiet \o Look("levels", levels)
ReadOutRow == Say("lrptr") \o Times(Bpr, Say("erd")) \o DrainAndCheck

\* a projection's products with a tensor, one of its records poisoned
Weight(w, mem) == IF w = mem THEN Poison ELSE w
ProductOf(act, T, j, mem) == <<"mm", act, <<Weight(T \o <<j, 1>>, mem)>>>>
ResidOn(row, comp, act, T, mem) ==
    [e \in 1 .. Bpr |-> <<"add", row[e], <<"deq", <<comp>>, <<ProductOf(act, T, e, mem)>>>>>>]
R1(mem) == ResidOn(InputRow, <<"c", 1>>, Row(<<"oact">>), <<"wo">>, mem)
H2(mem) == NormOf(R1(NoMem), Weight(<<"g2">>, mem))

E6Mask == {"SCORE", "PV", "OPROJ", "RES1", "NFEED", "NSRC", "FPROJ"}
GradeE6c == AttentionParts(2, 1, R1(NoMem), NormOf(R1(NoMem), <<"g2">>))
WalkE6(m, v, mem) ==
    Graph(PreStaged(v, <<<<"oact">>>>) \o Kicked(m, 0, LevelsOf(1, 4, TRUE))
          \o Popped("ss", 1) \o Popped("fs", 2 + Bpr) \o Popped("ro", Bpr) \o Popped("td", 1)
          \o DrainNorm(<<"g2">>),
          GradeE6c @@ [poisoned |-> Part("erd", 1, R1(mem))], mem)

E7Mask == E6Mask \cup {"NORM2", "FGAM"}
WalkE7(mem) ==
    Graph(PreStaged("v", <<<<"oact">>>>) \o Kicked(E7Mask, 0, LevelsOf(1, 0, FALSE))
          \o Popped("ss", 1) \o Popped("fs", 3 + Bpr) \o Popped("ro", Bpr) \o Popped("td", 1)
          \o LCtl(NoLayer) \o RowReadback(2) \o ReadOutRow,
          AttentionParts(2, 1, R1(NoMem), H2(NoMem))
            @@ [poisoned |-> Part("ro", 1 + Bpr, BlocksOf(H2(mem)))], mem)

E8Mask == E7Mask \cup {"QKV"}
QkvGolden == Each(3, LAMBDA t : [j \in 1 .. Bpr |->
                <<ProductOf(Row(<<"xq">>), <<<<"wq", "wk", "wv">>[t]>>, j, NoMem)>>])
WalkE8 ==
    Graph(PreStaged("v", <<<<"xq">>, <<"oact">>>>) \o Kicked(E8Mask, 3 * Bpr, LevelsOf(1, 0, FALSE))
          \o Popped("ss", 1) \o Popped("fs", 3 + Bpr) \o Popped("ro", Bpr) \o Popped("td", 1)
          \o LCtl(NoLayer) \o RowReadback(3) \o ReadOutRow,
          AttentionParts(3, 1 + 3 * Bpr, R1(NoMem), H2(NoMem))
            @@ [qkv |-> Part("ro", 1, QkvGolden)], NoMem)

---------------------------------------------------------------------------
(* The FFN on fuel: a chunk of gate and up columns at a time, and down.  The  *)
(* composites of the descriptor may be other than the ones golden has.        *)
FfnAct == Row(<<"xffn">>)
Composites == {<<"g", 0>>, <<"u", 0>>, <<"c", 2>>}
Calibrated == [c \in Composites |-> c]
Swapped == [Calibrated EXCEPT ![<<"g", 0>>] = <<"u", 0>>, ![<<"u", 0>>] = <<"g", 0>>]
DPoisoned == [Calibrated EXCEPT ![<<"c", 2>>] = <<"c", 3>>]
Swi(c, k, comps) ==
    <<"swi", <<comps[<<"g", 0>>], comps[<<"u", 0>>]>>,
      <<<<ProductOf(FfnAct, <<"wg", c>>, k, NoMem)>>, <<ProductOf(FfnAct, <<"wu", c>>, k, NoMem)>>>>>>
Chunked(c, comps) == [k \in 1 .. Bpr |-> Swi(c, k, comps)]
R2(comps) ==
    LET act == Each(Toy.dffn, LAMBDA c : Chunked(c, comps))
    IN [e \in 1 .. Bpr |->
          <<"add", InputRow[e], <<"deq", <<comps[<<"c", 2>>]>>,
             <<<<"mm", act, [r \in 1 .. Toy.dffn |-> <<"wd", e, r>>]>>>>>>>>]
FfnCodes(comps) == Part("ro", 1, Each(Toy.dffn, LAMBDA c : BlocksOf(Chunked(c, comps))))
\* what the captures are graded against: golden of the composites flown, and,
\* to be missed when they are others, golden of the calibrated ones
GradeFfn(down, comps) ==
    [codes |-> FfnCodes(comps), clean |-> FfnCodes(Calibrated),
     fs |-> Part("fs", 2, [c \in 1 .. Toy.dffn |-> ScaleOf(Chunked(c, comps))])]
    @@ (IF down THEN [r2 |-> Part("erd", 1, R2(comps)),
                      clean_r2 |-> Part("erd", 1, R2(Calibrated))] ELSE <<>>)
FfnMask(down) == {"FPROJ", "FFN"} \cup (IF down THEN {"DOWN", "RES2"} ELSE {})
Recomposed(ops, comps) == [i \in DOMAIN ops |->
    IF ops[i].o = "ljc" /\ ops[i].v \in DOMAIN comps
    THEN [ops[i] EXCEPT !.v = comps[@]] ELSE ops[i]]
WalkFfn(down, comps) ==
    Graph(LayerPrologue \o (IF down THEN Ldata("row", Bpr) ELSE <<>>)
          \o Route([Reset EXCEPT !.rdst = 1, !.asrc = 1]) \o StageRow(<<"xffn">>, 0)
          \o Host0 \o Fuelled(TRUE)
          \o <<[Go(FfnMask(down))[1] EXCEPT !.plan = Recomposed(@, comps)]>>
          \o WalkEnds \o Say("walkoff") \o Fuelled(FALSE)
          \o Popped("fs", Toy.dffn) \o LCtl(NoLayer)
          \o Host0 \o Each(Toy.dffn, LAMBDA c : IdentityReadback(ActBank, c))
          \o (IF down THEN ReadOutRow ELSE DrainAndCheck),
          GradeFfn(down, comps), NoMem)
\* the descriptor with its mask word replaced, cut off after the kick's receipt
FfnOff(m) == Graph(LayerPrologue \o Fuelled(TRUE) \o Go(m) \o Poll("busy", FALSE)
                   \o Look("werr", TRUE), <<>>, NoMem)
-----------------------------------------------------------------------------
(* A model's own projections on fuel: the host stages activations, arms the  *)
(* fuel path, loads one descriptor and kicks; the walker fetches every weight *)
(* itself.  What the host may do until the walk retires is audited on the     *)
(* program: pop captures, or nothing at all.                                  *)

\* a layer's descriptor: the mask, the shape, whose tensors, its epilogue
WalkDescriptor(m, g, li, comp) == [mask |-> m, geom |-> g, layer |-> li, comp |-> comp]
DescDown == [Toy EXCEPT !.dffn = StageRows]
NoFfn == [Toy EXCEPT !.dffn = 0]
Wide == [NoFfn EXCEPT !.heads = StageRows - 3, !.dm = 2]
\* the records a layer's tensors are at
Repointed(ops, li) == [i \in DOMAIN ops |->
    IF ops[i].o = "fetch" THEN [ops[i] EXCEPT !.v = [k \in DOMAIN @ |-> <<@[k][1], Append(@[k][2], li)>>]]
    ELSE ops[i]]
EpilogueWords(comp) == <<"c", 1>> :> comp @@ <<"c", 2>> :> comp
Kick64(d) == <<[WalkGo(d.mask, d.geom)[1] EXCEPT
                  !.plan = Repointed(Recomposed(@, EpilogueWords(d.comp)), d.layer)]>>

\* the fuel path is armed at a mark the builder left, and only there
Mark == <<[o |-> "mark"]>>
SpliceFuelArm(ops) ==
    LET at == {i \in DOMAIN ops : ops[i] = Mark[1]}
    IN IF Cardinality(at) = 1
       THEN LET i == CHOOSE i \in at : TRUE
            IN SubSeq(ops, 1, i - 1) \o Fuelled(TRUE) \o SubSeq(ops, i + 1, Len(ops))
       ELSE <<>>
\* an expected result becomes a capture: what the tile computes is never asserted
RoExpected(n) == Times(n, <<[o |-> "expect", f |-> "ro"]>>)
CaptureRo(ops) == [i \in DOMAIN ops |-> IF ops[i].o = "expect" THEN [o |-> ops[i].f] ELSE ops[i]]

\* the window from the kick to the first look at busy
Window(ops) ==
    LET go == CHOOSE i \in DOMAIN ops : ops[i].o = "go"
        done == CHOOSE i \in DOMAIN ops :
                  /\ i > go /\ ops[i].o = "poll" /\ ops[i].f = "busy"
                  /\ \A k \in go .. i - 1 : ~(ops[k].o = "poll" /\ ops[k].f = "busy")
    IN SubSeq(ops, go + 1, done - 1)
\* what the host writes there: pops, and anything else
WritesIn(ops, isPop) == Cardinality({i \in DOMAIN Window(ops) :
    Window(ops)[i].o # "poll" /\ (Window(ops)[i].o = "ro") = isPop})
Census(ops) == [advances |-> WritesIn(ops, TRUE), control |-> WritesIn(ops, FALSE)]
SilencePredicate(ops) == \A i \in DOMAIN Window(ops) : Window(ops)[i].o = "ro"
HostfreePredicate(ops) == Window(ops) = <<>>

\* families of activation rows, each from its own row of the act bank on
Family(v, at) == [v |-> v, at |-> at]
StageActRows(fams) ==
    Route([Reset EXCEPT !.rdst = 1, !.asrc = 1])
    \o Each(Len(fams), LAMBDA i : StageRow(fams[i].v, fams[i].at))

---------------------------------------------------------------------------
(* Golden.                                                                  *)
ExpectedJobs == Each(3, LAMBDA t : [j \in 1 .. Bpr |-> <<<<"wq", "wk", "wv">>[t], j>>])
\* a tensor's block with a row of activations per row of weights
Block(T, j, rows, li, mem) == [r \in 1 .. rows |-> Weight(<<T, j, r, li>>, mem)]
GoldenJobs(act, li, mem) ==
    [i \in DOMAIN ExpectedJobs |->
       <<<<"mm", act, Block(ExpectedJobs[i][1], ExpectedJobs[i][2], 1, li, mem)>>>>]
EpilogueGolden(x, act, T, rows, li, comp, mem) ==
    [e \in 1 .. Bpr |-> <<"add", <<x, e - 1>>,
                          <<"deq", <<comp>>, <<<<"mm", act, Block(T, e, rows, li, mem)>>>>>>>>]
\* what a layer starts from: the embedding, or what the layer before it left
SubjectFor(li) == [x |-> IF li = 1 THEN "embed" ELSE "r2",
                   attn |-> <<"attn", li>>, h |-> <<"h", li>>]
GradeR1(li, comp, mem) ==
    Part("erd", 1, EpilogueGolden(SubjectFor(li).x, Row(SubjectFor(li).attn), "wo", 1, li, comp, mem))
GradeQkv(li, mem) == Part("ro", 1, GoldenJobs(Row(SubjectFor(li).h), li, mem))
Comp == <<"c", 1>>

---------------------------------------------------------------------------
(* The q, k and v projections alone, their products popped as they come.    *)
BuildProgram(m, mem) ==
    Graph(CaptureRo(SpliceFuelArm(
            LayerPrologue \o StageActRows(<<Family(SubjectFor(1).h, 0)>>) \o Mark
            \o Kick64(WalkDescriptor(m, NoFfn, 1, Comp)) \o RoExpected(3 * Bpr)
            \o WalkEnds \o Say("walkoff") \o FinalPhase)),
          [qkv |-> GradeQkv(1, NoMem), moved |-> GradeQkv(1, mem)], mem)

(* The output projection and its epilogue into the residual row.            *)
BuildE6Program(d, x, fams, njobs, want, mem) ==
    Graph(CaptureRo(SpliceFuelArm(
            LayerPrologue \o Ldata(x, Bpr) \o StageActRows(fams) \o Mark \o Kick64(d)
            \o RoExpected(njobs) \o WalkEnds \o Say("walkoff") \o Say("lpoll") \o UnitsQuiet
            \o ReadOutRow)), want, mem)
BuildE6Refusal(m, g) ==
    Graph(SpliceFuelArm(LayerPrologue \o Mark \o Kick64(WalkDescriptor(m, g, 1, Comp))
                        \o Poll("busy", FALSE) \o Look("werr", TRUE) \o Say("walkoff")), <<>>, NoMem)

(* The same as a layer does it: the residual row goes in after the acts.    *)
MaskA == {"FPROJ", "OPROJ", "RES1"}
MaskB == MaskA \cup {"QKV"}
FamiliesOf(m, li) == IF "QKV" \in m THEN <<Family(SubjectFor(li).h, 0), Family(SubjectFor(li).attn, 1)>>
                     ELSE <<Family(SubjectFor(li).attn, 0)>>
BuildLayer(d, want, mem) ==
    LET drain == IF "QKV" \in d.mask THEN 3 * Bpr ELSE 0
    IN Graph(CaptureRo(SpliceFuelArm(
               LayerPrologue \o StageActRows(FamiliesOf(d.mask, d.layer))
               \o Ldata(SubjectFor(d.layer).x, Bpr) \o Mark \o Kick64(d) \o RoExpected(drain)
               \o WalkEnds \o Say("walkoff") \o Say("lpoll") \o Look("err", FALSE) \o ReadOutRow)),
             want, mem)

---------------------------------------------------------------------------
(* A host-sequenced job whose weights come from the resident image: the last  *)
(* pushes of the program, replaced by a fetch of the same bytes.              *)
PushedWeights(ops, n) ==
    LET idx == {i \in DOMAIN ops : ops[i].o = "push" /\ ops[i].f = "xw"}
        last == CHOOSE i \in idx : \A k \in idx : k <= i
    IN last - n + 1 .. last
Wire(ops, n) == LET tail == PushedWeights(ops, n)
                    first == CHOOSE i \in tail : \A k \in tail : i <= k
                IN [k \in 1 .. n |-> ops[first + k - 1]]
FuelTailTranslate(ops, n) ==
    LET tail == PushedWeights(ops, n)
        first == CHOOSE i \in tail : \A k \in tail : i <= k
    IN IF \A i \in tail : ops[i].o = "push" /\ ops[i].f = "xw"
       THEN SubSeq(ops, 1, first - 1) \o Fuelled(TRUE)
            \o <<[o |-> "fetch", v |-> [k \in 1 .. n |-> <<"xw", ops[first + k - 1].v>>]]>>
            \o SubSeq(ops, first + n, Len(ops))
       ELSE <<>>
\* a job may be fuelled only if the resident block is what it would have pushed
Resident(n) == [r \in 1 .. n |-> <<"w", 0, r>>]
BuildJob(fuelled) ==
    LET ops == Thin(2).ops
    IN IF [k \in 1 .. 2 |-> Wire(ops, 2)[k].v] = Resident(2)
       THEN Say("file") \o (IF fuelled THEN FuelTailTranslate(ops, 2) ELSE ops) ELSE <<>>
RunAndGrade(fuelled, mem) ==
    Graph(BuildJob(fuelled),
          [acc |-> Part("ro", 1, <<<<Dot(0, 2, 0)>>>>),
           moved |-> Part("ro", 1, <<<<<<"mm", Dot(0, 2, 0)[2],
                                        [r \in 1 .. 2 |-> Weight(<<"w", 0, r>>, mem)]>>>>>>)], mem)
=============================================================================
