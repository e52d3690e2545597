------------------------------ MODULE Campaigns ------------------------------
(* The campaigns the host flies: a control program that must be green, and    *)
(* discriminators, each of which must fail in a way that shows the control    *)
(* was not green for nothing.  A campaign is flown on a tile that may have    *)
(* one fault; its verdict is what the host makes of how its programs ended.   *)
EXTENDS WalkPrograms

\* how a program ended: through, at a checked read, or waiting at an operation
Outcome(end, at, right) == [end |-> end, at |-> at, right |-> right]
Ok(x) == x.end = "done"
Green(x, p) == Ok(x) /\ x.right = DOMAIN p.want
Red(x, p) == Ok(x) /\ x.right # DOMAIN p.want
StalledAt(x, at) == x.end = "stalled" /\ x.at = at

NormFeedArms == <<NfeedStage("none"), RouteProbe, GeomProbe, NfeedStage("x"), NfeedStage("gamma")>>
NormFeedSmoke(b, p) ==
    /\ Green(b[1], p[1]) /\ Ok(b[2]) /\ Ok(b[3])
    /\ Red(b[4], p[4])
    /\ Red(b[5], p[5]) /\ "r1" \in b[5].right

WalkNormArms == <<WalkStage("none", TRUE), WalkStage("none", FALSE),
                  WalkStage("x", TRUE), WalkStage("gamma", TRUE)>>
WalkNormSmoke(b, p) ==
    /\ Green(b[1], p[1])
    /\ StalledAt(b[2], <<"poll", "fext">>)
    /\ Red(b[3], p[3])
    /\ Red(b[4], p[4]) /\ "r1" \in b[4].right

StepArms == <<BuildNfeed(TRUE), BuildNfeed(FALSE), BuildRope, BuildStorekv, BuildRes1,
              BuildOproj, BuildQkv, BuildFfn, BuildJc0, BuildNorm2>>
ExpectOk == <<TRUE, FALSE, TRUE, TRUE, TRUE, FALSE, FALSE, FALSE, FALSE, FALSE>>
StepMatrix(b, p) ==
    /\ \A i \in DOMAIN ExpectOk : Ok(b[i]) <=> ExpectOk[i]
    /\ Green(b[1], p[1])
    /\ StalledAt(b[2], <<"poll", "fext">>)

---------------------------------------------------------------------------
(* The graph of a layer in one kick: each campaign has the stage before it as *)
(* its control, and fences: masks the walker must refuse.                     *)
Clean(p) == DOMAIN p.want \ {"poisoned", "moved"}
Exact(x, p) == Ok(x) /\ Clean(p) \subseteq x.right
\* a run whose captures are another's: the part that moved lands where it was
\* predicted, the part it moved from is gone, and what the campaign compares stays
Moved(x, from, to, kept) == Ok(x) /\ to \in x.right /\ from \notin x.right /\ kept \subseteq x.right

QstageArms == <<WalkQstage(TRUE), WalkE4("v"), WalkQstage(FALSE), E4Refusal(E4Mask \ {"NSRC"}),
                E4Refusal(E4Mask \ {"NFEED"}), WalkE4("v'")>>
\* from the kick to the end of the walk the host streams data and looks
NoHostJobsDuringWalk(ops) ==
    LET At(o) == CHOOSE i \in DOMAIN ops : ops[i].o = o
    IN \A i \in At("go") + 1 .. At("walkoff") - 1 :
         ops[i].o \in {"poll", "look"} \/ (ops[i].o = "push" /\ ops[i].f = "xw")
QstageSmoke(b, p) ==
    /\ \A i \in 1 .. 2 : NoHostJobsDuringWalk(p[i].ops)
    /\ Green(b[1], p[1]) /\ Green(b[2], p[2])
    /\ StalledAt(b[3], <<"push", "xw">>)
    /\ Ok(b[4]) /\ Ok(b[5])
    /\ Ok(b[6]) /\ "o8" \notin b[6].right

E6Arms == <<WalkE6(E6Mask, "v", NoMem), WalkE6(E6Mask \ {"FPROJ"}, "v", NoMem),
            Fence(E6Mask \cup {"QSTAGE"}, TRUE, TRUE), WalkE6(E6Mask, "v'", NoMem),
            WalkE6(E6Mask, "v", <<"wo", 1, 1>>)>>
Chain6(b, p) ==
    /\ Exact(b[1], p[1])
    /\ ~Ok(b[2]) /\ Ok(b[3])
    /\ Ok(b[4]) /\ "o8" \notin b[4].right /\ "row" \in b[4].right
    /\ Moved(b[5], "row", "poisoned", {})

E7Arms == <<WalkE7(NoMem), Fence(E7Mask \ {"FGAM"}, TRUE, FALSE),
            Fence({"FGAM", "NORM2", "NFEED", "NSRC"}, TRUE, FALSE),
            Fence(E7Mask \ {"NORM2"}, TRUE, FALSE), WalkE7(<<"g2">>)>>
Chain7(b, p) ==
    /\ Exact(b[1], p[1])
    /\ Ok(b[2]) /\ Ok(b[3]) /\ Ok(b[4])
    /\ Moved(b[5], "h2", "poisoned", {"row"})
E8Arms == <<WalkE8>>
Chain8(b, p) == Exact(b[1], p[1])

\* the FFN: refused without its mask, gate and up composites swapped, and with
\* DOWN the composite of DOWN changed: each lands on its own golden
Landed(x, p) == LET clean == {"clean", "clean_r2"} \cap DOMAIN p.want
                IN Ok(x) /\ DOMAIN p.want \ clean \subseteq x.right /\ ~(clean \subseteq x.right)
FfnArms == <<WalkFfn(FALSE, Calibrated), FfnOff({"FPROJ"}), WalkFfn(FALSE, Swapped),
             WalkFfn(TRUE, Calibrated), FfnOff({"FPROJ", "FFN", "RES2"}), WalkFfn(TRUE, Swapped),
             WalkFfn(TRUE, DPoisoned)>>
FfnDiscriminators(b, p, at) == Ok(b[at]) /\ Landed(b[at + 1], p[at + 1])
DPoison(x, p) == Landed(x, p) /\ "clean" \in x.right
FfnMain(b, p) == /\ Green(b[1], p[1]) /\ FfnDiscriminators(b, p, 2)
                 /\ Green(b[4], p[4]) /\ FfnDiscriminators(b, p, 5) /\ DPoison(b[7], p[7])

---------------------------------------------------------------------------
(* Projections on fuel.  A poisoned record moves the result to where golden   *)
(* of the poisoned image puts it; without its mask bit a walk never ends.     *)
R1Want(d, mem) == [r1 |-> GradeR1(d.layer, d.comp, NoMem), moved |-> GradeR1(d.layer, d.comp, mem)]
LayerWant(d, mem) == IF "QKV" \in d.mask THEN R1Want(d, mem) @@ [qkv |-> GradeQkv(d.layer, NoMem)]
                     ELSE R1Want(d, mem)
FuelProjArms == <<BuildProgram({"QKV", "FPROJ"}, NoMem), BuildProgram({"QKV"}, NoMem),
                  BuildProgram({"QKV", "FPROJ"}, <<"wq", 1, 1, 1>>)>>
FuelProj(b, p) ==
    /\ Green(b[1], p[1]) /\ SilencePredicate(p[1].ops)
    /\ ~Ok(b[2])
    /\ Moved(b[3], "qkv", "moved", {})

E6Stage(m, mem) ==
    LET d == WalkDescriptor(m, NoFfn, 1, Comp)
    IN BuildE6Program(d, "embed", FamiliesOf(m, 1), IF "QKV" \in m THEN 3 * Bpr ELSE 0,
                      LayerWant(d, mem), mem)
RunE6Arms == <<E6Stage(MaskA, NoMem), E6Stage(MaskB, NoMem), E6Stage(MaskA \ {"FPROJ"}, NoMem),
               E6Stage(MaskA, <<"wo", 1, 1, 1>>), BuildE6Refusal(MaskA \ {"RES1"}, NoFfn),
               BuildE6Refusal({"QKV", "FFN", "FPROJ"}, NoFfn),
               BuildE6Refusal(MaskB \cup {"SCORE", "PV"}, Wide)>>
RunE6(b, p) ==
    /\ Green(b[1], p[1]) /\ HostfreePredicate(p[1].ops)
    /\ Green(b[2], p[2]) /\ SilencePredicate(p[2].ops)
    /\ ~Ok(b[3]) /\ Moved(b[4], "r1", "moved", {})
    /\ \A fence \in 5 .. 7 : Ok(b[fence])

D7Mask == {"DOWN", "RES2", "FPROJ"}
DownRow(mem) == Part("erd", 1, EpilogueGolden("r1", Each(StageRows, LAMBDA r : Row(<<"xd", r>>)),
                                              "wd", StageRows, 1, Comp, mem))
D7Stage(mem) ==
    BuildE6Program(WalkDescriptor(D7Mask, DescDown, 1, Comp), "r1",
                   [r \in 1 .. StageRows |-> Family(<<"xd", r>>, r - 1)], 0,
                   [r2 |-> DownRow(NoMem), moved |-> DownRow(mem)], mem)
RunD7Arms == <<D7Stage(NoMem), D7Stage(<<"wd", 1, 1, 1>>),
               BuildE6Refusal(D7Mask, [Toy EXCEPT !.dffn = StageRows + 1]),
               BuildE6Refusal(D7Mask \ {"RES2"}, DescDown),
               BuildE6Refusal(D7Mask \cup {"FFN"}, DescDown),
               BuildE6Refusal(D7Mask \ {"FPROJ"}, DescDown)>>
RunD7(b, p) ==
    /\ Green(b[1], p[1]) /\ HostfreePredicate(p[1].ops)
    /\ Moved(b[2], "r2", "moved", {})
    /\ \A fence \in 3 .. 6 : Ok(b[fence])

LayerArm(m, li, comp, mem) ==
    LET d == WalkDescriptor(m, NoFfn, li, comp)
    IN BuildLayer(d, LayerWant(d, mem) @@ [calibrated |-> GradeR1(li, Comp, NoMem)], mem)
FuelLayerArms == <<LayerArm(MaskA, 1, Comp, NoMem), LayerArm(MaskB, 1, Comp, NoMem),
                   LayerArm(MaskA \ {"FPROJ"}, 1, Comp, NoMem),
                   LayerArm(MaskA, 1, Comp, <<"wo", 1, 1, 1>>), LayerArm(MaskA, 1, <<"c", 9>>, NoMem)>>
FuelLayer(b, p) ==
    /\ Green(b[1], p[1]) /\ HostfreePredicate(p[1].ops)
    /\ Green(b[2], p[2]) /\ SilencePredicate(p[2].ops)
    /\ ~Ok(b[3]) /\ Moved(b[4], "r1", "moved", {})
    /\ Moved(b[5], "calibrated", "r1", {})

\* a walk per layer: between two layers the host moves no more of the
\* descriptor than the tensors' bases and the epilogue's words
DescOf(li) == WalkDescriptor(MaskB, NoFfn, li, <<"c", li>>)
RepointWords == {"layer", "comp"}
LayersArms == [li \in 1 .. 2 |-> BuildLayer(DescOf(li), LayerWant(DescOf(li), NoMem), NoMem)]
Repoints(li) == {w \in DOMAIN DescOf(li) : DescOf(li)[w] # DescOf(li - 1)[w]} \subseteq RepointWords
WalkLayers(b, p) == \A li \in 1 .. 2 : /\ Green(b[li], p[li])
                                       /\ SilencePredicate(p[li].ops)
                                       /\ Census(p[li].ops).control = 0
                                       /\ li > 1 => Repoints(li)

\* host-fed and fuel-fed, then both again on the mutated image
Mutated == <<"w", 0, 1>>
HostFuelArms == <<RunAndGrade(FALSE, NoMem), RunAndGrade(TRUE, NoMem),
                  RunAndGrade(FALSE, Mutated), RunAndGrade(TRUE, Mutated)>>
HostFuel(b, p) ==
    /\ Green(b[1], p[1]) /\ Green(b[2], p[2])
    /\ Ok(b[3]) /\ "acc" \in b[3].right
    /\ Moved(b[4], "acc", "moved", {})

---------------------------------------------------------------------------
(* Campaigns without a walk: the host sequences every program.             *)
Ros(vs) == Part("ro", 1, [i \in DOMAIN vs |-> <<vs[i]>>])
Products(p) == Graph(p.ops, [acc |-> Ros(p.want)], NoMem)
AllGreen(b, p, at) == \A i \in at : Green(b[i], p[i])

\* a row wider than the image's residual row, in slices that tile it; the norm
\* of the whole row under a sum the tile computed and the host only moved
Slice(k) ==
    Graph(LayerPrologue \o Ldata(<<"x", k>>, Win) \o LCtl([NoLayer EXCEPT !.ser = 1])
          \o Route([Reset EXCEPT !.rdst = 1])
          \o LuJob("resid", 0, Win) \o Epilogue(<<"c", 0>>, Win) \o InjectFrame(<<"o", k>>, Win, FALSE)
          \o Say("lpoll") \o Say("lrptr") \o Times(Win, Say("erd")) \o DrainAndCheck,
          [row |-> Part("erd", 1, [e \in 1 .. Win |->
             <<"add", <<<<"x", k>>, e - 1>>, <<"deq", <<<<"c", 0>>>>, <<<<"e", <<"o", k>>, e>>>>>>>>])],
          NoMem)
Summed == SumOf(2)
CodesAndScalesWant(codes) ==
    [codes |-> Part("ro", 1, [i \in 1 .. 2 * Bpr |-> <<codes[i]>>]),
     scales |-> Part("fs", 2, SubSeq(codes, 2 * Bpr + 1, 2 * Bpr + 2))]
\* golden's norm under any sum, whose tail does not see every difference
NormFromSum2(sum) ==
    Graded(2, LAMBDA r : [j \in 1 .. Bpr |-> <<"n", Root(sum), NormRow(r)[j], Gamma(r)>>])
Armed(delta) == Summed \o Times(delta, <<OneMore>>)
\* the smallest error of the sum that golden itself would show
DeltaMin == CHOOSE d \in 1 .. 2 : /\ NormFromSum2(Armed(d)) # NormFromSum2(Summed)
                                  /\ \A e \in 1 .. d - 1 : NormFromSum2(Armed(e)) = NormFromSum2(Summed)
ExtWith(sum) ==
    Graph(LayerPrologue \o <<[o |-> "nsum2", v |-> sum]>> \o NCtl("ext", 2) \o ArmedPass(2),
          CodesAndScalesWant(NormFromSum2(Summed)), NoMem)
Sums == Graph(Norm2Chunked(2).ops,
              CodesAndScalesWant(ArmedCodes(2))
              @@ [sums |-> Part("ns2c", 1, [c \in 1 .. 2 |-> <<"sum", SumOf(c)>>])], NoMem)
\* the chain's last beat is the total: the ones before it are of part of the row
GradeSum2Chain(p) == [total |-> Part("ro", Len(p.want), <<p.want>>)]
ChainEnd(rows, per) == LET p == Sum2Chain(rows, per) IN Graph(p.ops, GradeSum2Chain(p), NoMem)
Slices == 1 .. 2
NarrowArms == <<Slice(1), Slice(2), Sums, ExtWith(Summed), ChainEnd(3, 2), Graph(Norm2Probe.ops, <<>>, NoMem),
                ExtWith(Summed), ExtWith(Armed(DeltaMin)), ExtWith(Armed(1))>>
\* no operation of a program says what the tile should have computed
AuditProgram(ops) == \A i \in DOMAIN ops :
    ops[i].o # "expect" /\ ~(ops[i].o \in {"poll", "look"} /\ ops[i].f \in {"ro", "erd", "ns2c"})
\* the armed program writes the sum once, as armed, and never reads it
AssertMoveOnly(p, sum) ==
    /\ {p.ops[i].v : i \in {i \in DOMAIN p.ops : p.ops[i].o = "nsum2"}} = {sum}
    /\ Cardinality({i \in DOMAIN p.ops : p.ops[i].o = "nsum2"}) = 1
    /\ \A i \in DOMAIN p.ops : p.ops[i].o # "ns2c"
\* the sum as captured is green, the first error golden shows is not, and one
\* that golden absorbs is
MoveAndNorm(b, p) ==
    LET delta == <<0, DeltaMin, 1>>
    IN /\ \A i \in 1 .. 3 : AssertMoveOnly(p[6 + i], Armed(delta[i]))
       /\ Green(b[7], p[7]) /\ ~Green(b[8], p[8]) /\ Green(b[9], p[9])
\* a row is right if every slice of it is
GradeResidFull(b, p) == AllGreen(b, p, Slices)
Narrow(b, p) == /\ \A i \in DOMAIN p : AuditProgram(p[i].ops)
                /\ GradeResidFull(b, p) /\ AllGreen(b, p, 3 .. 6)
                /\ MoveAndNorm(b, p)

\* a row of codes on stage rows of Lanes lanes: its largest code leads each of
\* them, so that the quantizer leaves every one alone, and pads the last; it
\* counts once, as the weights under every other copy are zero
Lanes == 3
TopCode == 2
Size(v) == IF v < 0 THEN -v ELSE v
KStar(x) == CHOOSE k \in DOMAIN x : /\ \A i \in DOMAIN x : Size(x[i]) <= Size(x[k])
                                    /\ \A i \in 1 .. k - 1 : Size(x[i]) < Size(x[k])
Stageable(x) == Size(x[KStar(x)]) = TopCode
StagePlan(x) ==
    LET others == SelectSeq([k \in DOMAIN x |-> k], LAMBDA k : k # KStar(x))
        rows == IF others = <<>> THEN 1 ELSE 1 + (Len(others) - 1) \div (Lanes - 1)
        fill(l) == ((l \div Lanes) * (Lanes - 1)) + (l % Lanes)
    IN [l \in 0 .. rows * Lanes - 1 |->
          IF l % Lanes # 0 /\ fill(l) <= Len(others)
          THEN [chan |-> others[fill(l)], use |-> TRUE]
          ELSE [chan |-> KStar(x), use |-> l = 0]]
Staged(x, plan) == [l \in DOMAIN plan |-> x[plan[l].chan]]
Restage(plan, w) == [l \in DOMAIN plan |-> IF plan[l].use THEN w[plan[l].chan] ELSE 0]
Contract(f, g) == FoldFunction(LAMBDA v, sum : v + sum, 0, [i \in DOMAIN f |-> f[i] * g[i]])
Quantized(codes, l) ==
    LET row == {m \in DOMAIN codes : m \div Lanes = l \div Lanes}
    IN (codes[l] * TopCode) \div Max({Size(codes[m]) : m \in row})
CodeRows == {x \in UNION {[1 .. kt -> {-2, -1, 1, 2}] : kt \in 1 .. 5} : Stageable(x)}
\* every channel counts once, no row is rescaled, the product of any weights and
\* of the row with itself is the unstaged one; the staged row alone would not do
Sound(x, plan, codes) ==
    LET used == {l \in DOMAIN plan : plan[l].use}
    IN /\ \A k \in DOMAIN x : Cardinality({l \in used : plan[l].chan = k}) = 1
       /\ \A l \in DOMAIN plan : Quantized(codes, l) = codes[l]
       /\ \A w \in {x} \cup [DOMAIN x -> {0, 1}] : Contract(codes, Restage(plan, w)) = Contract(x, w)
       /\ Cardinality(DOMAIN plan) > Len(x) => Contract(codes, codes) # Contract(x, x)
LayoutSound == \A x \in CodeRows : \E plan \in {StagePlan(x)} : \E codes \in {Staged(x, plan)} :
                  Sound(x, plan, codes)

\* the sum of squares as a product of the row with itself, split over files:
\* the two ways to cut the row must agree, and the comparison must see an error
\* of one, which golden's own norm would not
Sum2Arms == <<Products(KSplit(3, 2)), Products(KSplit(3, 1))>>
Sum2Check(b, p) ==
    /\ LayoutSound
    /\ AllGreen(b, p, 1 .. 2)
    /\ Armed(1) # Summed /\ NormFromSum2(Armed(1)) = NormFromSum2(Summed)
\* blocks of a tensor deeper than a job, and one capture per job
WdArms == [n0 \in 1 .. 2 |-> Products(KSplitBlock(3, 2, n0))]
WdRun(b, p) == AllGreen(b, p, 1 .. 2)

\* many blocks on one staging: the same products as a program per block; with
\* every LOAD to row 0 none of them; and a push too many must be seen
Blocks == 2
Rebased(ops) == [i \in DOMAIN ops |->
    IF ops[i].o = "aj" /\ ops[i].j.op = "load" THEN [ops[i] EXCEPT !.j.sel = 0] ELSE ops[i]]
BlockParts == LET w == Fat(3, Blocks, Depth).want
              IN [b0 |-> Part("ro", 1, <<<<w[1]>>>>), b1 |-> Part("ro", 2, <<<<w[2]>>>>)]
ArmFat(ops) == Graph(ops, BlockParts, NoMem)
ThinOps == Each(Blocks, LAMBDA b : KSplitBlock(3, 3, b).ops)
DropProbe(n) == Graph(Times(n, <<[o |-> "blind", f |-> "xw", v |-> <<"w", 0, 1>>]>>)
                      \o Look("drop", FALSE), <<>>, NoMem) @@ [probe |-> "drop"]
FatArms == <<ArmFat(Fat(3, Blocks, Depth).ops), ArmFat(FatOps(3, Blocks)), ArmFat(ThinOps),
             ArmFat(Rebased(Fat(3, Blocks, Depth).ops)), DropProbe(Depth), DropProbe(Depth + 8)>>
ArmDropAudit(b) == Ok(b[5]) /\ ~Ok(b[6])
FatProof(b, p) ==
    /\ AllGreen(b, p, 1 .. 3)
    /\ Ok(b[4]) /\ b[4].right = {}
    /\ ArmDropAudit(b)
    /\ AuditPushBursts(p[1].ops)
    /\ \E i \in DOMAIN p[1].ops : p[1].ops[i].o = "blind"

\* a decoded token's layer as the loop flies it: attention over the t live
\* records in one kick, its captures popped inside the window so that the walk
\* is not held at a full one; the projections and the epilogue; the FFN's slice
AttMask == {"STOREKV", "SCORE", "PV"}
Quiesce == Say("idle") \o Say("kvp") \o Say("lpoll")
AttPops(t) == Popped("fs", t) \o Popped("ss", 1)
              \o Times(Bpr, Popped("fs", t) \o Popped("ro", 1)) \o Popped("td", 1)
AttCapLayout(t) == [fs |-> 2 + t + Bpr * t, ss |-> 1, ro |-> Bpr, td |-> 1]
AttWant(t) ==
    [s_c |-> Part("ss", 1, <<<<"s", ScoresOf(Rotated, t)>>>>),
     fs |-> Part("fs", 2, <<ScaleOf(Rotated)>> \o [k \in 1 .. t |-> ScaleOf(K(k - 1))]
                          \o Times(Bpr, [k \in 1 .. t |-> ScaleOf(V(k - 1))])),
     o8 |-> Part("ro", 1, [j \in 1 .. Bpr |-> <<Attention(Rotated, "v", t)[j]>>])]
BuildAtt(t) ==
    Graph(PhaseA \o LoaderPhase \o Quiesce \o StoreRecords(t, FALSE, "v") \o Quiesce
          \o Route([Reset EXCEPT !.rdst = 1]) \o LCtl([NoLayer EXCEPT !.rope = TRUE, !.fext = 3])
          \o Unit("fjob", 1) \o InjectJobs(<<"q">>, 0) \o Say("fs") \o Aj("load", ActBank, Bpr, 0)
          \o Quiesce \o LCtl(NoLayer) \o Host0
          \o WalkGo(AttMask, [Toy EXCEPT !.n = t]) \o AttPops(t)
          \o WalkEnds \o Say("walkoff") \o Say("kvp") \o Say("lpoll") \o Look("err", FALSE)
          \o FinalPhase,
          AttWant(t), NoMem)
DataAdvances == {"fs", "ss", "ro", "td"}
AttSilence(p) == \A i \in DOMAIN Window(p.ops) : Window(p.ops)[i].o \in DataAdvances
CapsAsLaidOut(p, t) == \A o \in DataAdvances :
    Cardinality({i \in DOMAIN p.ops : p.ops[i].o = o}) = AttCapLayout(t)[o]
\* the FFN of a layer as far as a slice of it fits the act bank: its own image
\* holds those columns and rows of the three tensors and nothing else, so a fetch
\* past the slice would meet no record
DFfn == 3
Tensors == [wg |-> {<<"wg", c, k, 1>> : c \in 1 .. DFfn, k \in 1 .. Bpr},
            wu |-> {<<"wu", c, k, 1>> : c \in 1 .. DFfn, k \in 1 .. Bpr},
            wd |-> {<<"wd", e, c>> : e \in 1 .. Bpr, c \in 1 .. DFfn}]
BuildSliceImage ==
    {rec \in Tensors.wg \cup Tensors.wu : rec[2] <= Toy.dffn} \cup {rec \in Tensors.wd : rec[3] <= Toy.dffn}
FetchedBy(ops) ==
    LET plan == ops[CHOOSE i \in DOMAIN ops : ops[i].o = "go"].plan
    IN UNION {{plan[i].v[k][2] : k \in DOMAIN plan[i].v} : i \in {i \in DOMAIN plan : plan[i].o = "fetch"}}
\* what it is of: the layer's own normed row and residual row
FfnSubject == [h2 |-> FfnAct, r1 |-> InputRow]
FfnGolden(sub, comps) ==
    LET chunk == [c \in 1 .. Toy.dffn |-> [k \in 1 .. Bpr |->
            <<"swi", <<comps[<<"g", 0>>], comps[<<"u", 0>>]>>,
              <<<<ProductOf(sub.h2, <<"wg", c>>, k, NoMem)>>, <<ProductOf(sub.h2, <<"wu", c>>, k, NoMem)>>>>>>]]
        down(e) == <<"mm", FlattenSeq(chunk), [c \in 1 .. Toy.dffn |-> <<"wd", e, c>>]>>
    IN [p_codes |-> Part("ro", 1, Each(Toy.dffn, LAMBDA c : BlocksOf(chunk[c]))),
        p_scales |-> Part("fs", 2, [c \in 1 .. Toy.dffn |-> ScaleOf(chunk[c])]),
        r2 |-> Part("erd", 1, [e \in 1 .. Bpr |->
                 <<"add", sub.r1[e], <<"deq", <<comps[<<"c", 2>>]>>, <<down(e)>>>>>>])]
FfnSlice == Graph(WalkFfn(TRUE, Calibrated).ops, FfnGolden(FfnSubject, Calibrated), NoMem)
TokenArms == <<BuildAtt(1), BuildAtt(2), LayersArms[1], FfnSlice>>
\* the checks made of a program before it is flown
SilentCensus(ops, advances) == /\ Census(ops) = [advances |-> advances, control |-> 0]
                               /\ SilencePredicate(ops)
TokenLayers(b, p) ==
    /\ AllGreen(b, p, 1 .. 4)
    /\ \A t \in 1 .. 2 : AttSilence(p[t]) /\ CapsAsLaidOut(p[t], t)
    /\ SilentCensus(p[3].ops, 3 * Bpr) /\ SilentCensus(p[4].ops, 0)
    /\ FetchedBy(p[4].ops) = BuildSliceImage

---------------------------------------------------------------------------
ArmsOf == [norm_feed |-> NormFeedArms, walk_norm |-> WalkNormArms, steps |-> StepArms,
           qstage |-> QstageArms, chain |-> E6Arms, chain7 |-> E7Arms, chain8 |-> E8Arms,
           walk_ffn |-> FfnArms, fuel_proj |-> FuelProjArms, run_e6 |-> RunE6Arms,
           run_d7 |-> RunD7Arms, fuel_layer |-> FuelLayerArms, walk_layers |-> LayersArms,
           host_fuel |-> HostFuelArms, narrow |-> NarrowArms, sum2 |-> Sum2Arms, wd |-> WdArms,
           fat |-> FatArms, token |-> TokenArms]
Verdict(name, b, p) ==
    CASE name = "norm_feed" -> NormFeedSmoke(b, p)
      [] name = "walk_norm" -> WalkNormSmoke(b, p)
      [] name = "steps" -> StepMatrix(b, p)
      [] name = "qstage" -> QstageSmoke(b, p)
      [] name = "chain" -> Chain6(b, p)
      [] name = "chain7" -> Chain7(b, p)
      [] name = "chain8" -> Chain8(b, p)
      [] name = "walk_ffn" -> FfnMain(b, p)
      [] name = "fuel_proj" -> FuelProj(b, p)
      [] name = "run_e6" -> RunE6(b, p)
      [] name = "run_d7" -> RunD7(b, p)
      [] name = "fuel_layer" -> FuelLayer(b, p)
      [] name = "walk_layers" -> WalkLayers(b, p)
      [] name = "host_fuel" -> HostFuel(b, p)
      [] name = "narrow" -> Narrow(b, p)
      [] name = "sum2" -> Sum2Check(b, p)
      [] name = "wd" -> WdRun(b, p)
      [] name = "fat" -> FatProof(b, p)
      [] OTHER -> TokenLayers(b, p)
\* what may be wrong: the walker never moves, it skips its check, the fuel is of
\* an older image, or of no image the host knows; the norm uses its own row's
\* sum, the array never accumulates, every LOAD goes to row 0, or a push into a
\* full stream leaves no mark
Fuelling == {"none", "no_walk", "stale_fuel", "wrong_image"}
FaultsOf == [norm_feed |-> {"none"}, walk_norm |-> {"none", "no_walk"},
             steps |-> {"none", "no_walk"}, qstage |-> {"none", "no_walk", "no_check"},
             chain |-> Fuelling \cup {"no_check"}, chain7 |-> Fuelling \cup {"no_check"},
             chain8 |-> {"none", "no_walk", "wrong_image"},
             walk_ffn |-> {"none", "no_walk", "no_check", "wrong_image"},
             fuel_proj |-> Fuelling, run_e6 |-> Fuelling \cup {"no_check"},
             run_d7 |-> Fuelling \cup {"no_check"}, fuel_layer |-> Fuelling,
             walk_layers |-> Fuelling \ {"stale_fuel"}, host_fuel |-> Fuelling \ {"no_walk"},
             narrow |-> {"none", "own_sum", "no_acc"}, sum2 |-> {"none", "row_0"}, wd |-> {"none", "row_0"},
             fat |-> {"none", "row_0", "no_flag"}, token |-> {"none", "no_walk", "wrong_image", "row_0"}]
=============================================================================
