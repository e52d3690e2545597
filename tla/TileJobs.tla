------------------------------ MODULE TileJobs ------------------------------
(* Every register program the host builds, flown on the tile, and what the    *)
(* host decodes from the captures.                                            *)
EXTENDS Campaigns

\* the n-th capture of each kind, as the result parser groups them
ChainTotals(c) == LET ros == RosOf(c) IN ros[Len(ros)]
DecodeMultiblock(c) == LET ros == RosOf(c) IN [i \in 1 .. Len(ros) |-> ros[i][1]]
AccumulatePartials(c) == Concat(RosOf(c))
OutputsOf(c, o) == LET xs == SelectSeq(c, LAMBDA x : x[1] = o)
                   IN [i \in 1 .. Len(xs) |-> xs[i][2]]

\* a double read is taken for one element
Paired(s) == [i \in 1 .. Len(s) \div 2 |-> s[2 * i - 1]]
\* the loader's own scale comes first
ScalesOf(c) == Tail(OutputsOf(c, "fs"))
CodesAndScales(c) == DecodeMultiblock(c) \o ScalesOf(c)

GradeAttention(c) == DecodeMultiblock(c) \o ScalesOf(c) \o OutputsOf(c, "ss")
Decode(c) == CASE prog.kind = "chain" -> ChainTotals(c)
               [] prog.kind \in {"ksplit", "thin"} -> AccumulatePartials(c)
               [] prog.kind \in {"resid", "disc_o8"} -> OutputsOf(c, "erd")
               [] prog.kind = "disc_erd" -> Paired(OutputsOf(c, "erd"))
               [] prog.kind = "rows" -> CodesAndScales(c)
               [] prog.kind = "norm2c" -> OutputsOf(c, "ns2c") \o CodesAndScales(c)
               [] prog.kind \in {"core", "walk"} -> GradeAttention(c)
               [] prog.kind = "probe" -> <<>>
               [] OTHER -> DecodeMultiblock(c)
\* as many captures of each kind as the census says
CensusHolds(c) == prog.kind \in {"core", "walk"} =>
                    \A f \in {"fs", "ss", "ro"} : Len(OutputsOf(c, f)) = prog.census[f]
Grade(c) == CensusHolds(c) /\ Decode(c) = prog.want

\* the grade is only believed if it goes red on one output changed
Outputs == {"ro", "erd"}
Perturbed(c) == LET at == {i \in DOMAIN c : c[i][1] \in Outputs}
                    last == CHOOSE i \in at : \A k \in at : k <= i
                IN [c EXCEPT ![last] = <<@[1], <<<<"off by one">>>>>>]
Smoke(c) == Grade(c) /\ (prog.kind # "probe" => ~Grade(Perturbed(c)))

\* a campaign flies on an image whose LOAD takes a base row
Image == IF camp.fault = "row_0" THEN "first_row" ELSE "base_row"
CONSTANT Names      \* the campaigns flown; "job" is any program by itself
Init ==
    /\ pc = 1 /\ wk = <<>> /\ en = FALSE /\ caps = <<>> /\ book = <<>>
    /\ \E name \in Names :
         IF name = "job"
         THEN /\ camp = [name |-> name, fault |-> "none", arms |-> 0]
              /\ \E img \in {"base_row", "first_row"} :
                   /\ tile = InitTile(img)
                   /\ prog \in ProjectionPrograms(img) \cup AttentionPrograms \cup LayerStages(img)
         ELSE /\ \E fault \in FaultsOf[name], arms \in {ArmsOf[name]} :
                   /\ camp = [name |-> name, fault |-> fault, arms |-> Len(arms)]
                   /\ prog = arms[1]
              /\ tile = InitTile(Image)

\* the next program of a campaign flies when this one is through, has failed a
\* checked read, or waits for what will not come, and the host gives it up
Alone == camp.name = "job"
Left == ~Alone /\ Len(book) < camp.arms
Fly == (Alone \/ Left) /\ pc # 0 /\ Step
Ending == CASE Finished -> "done" [] Failed -> "failed" [] OTHER -> "stalled"
At == IF HostLeft THEN IF Op.o \in {"poll", "push"} THEN <<Op.o, Op.f>> ELSE <<Op.o>> ELSE <<"none">>
Right == {p \in DOMAIN prog.want :
            LET w == prog.want[p]
                got == OutputsOf(caps, w.o)
                to == w.from + Len(w.v) - 1
            IN Len(got) >= to /\ SubSeq(got, w.from, to) = w.v}
NextArm ==
    /\ Left /\ (Finished \/ Failed \/ ~ENABLED Step)
    /\ book' = Append(book, Outcome(Ending, At, Right))
    /\ pc' = 1 /\ wk' = <<>> /\ en' = FALSE /\ caps' = <<>>
    /\ tile' = InitTile(Image)
    /\ prog' = ArmsOf[camp.name][IF Len(book) + 1 < camp.arms THEN Len(book) + 2 ELSE 1]
    /\ UNCHANGED camp

Neutered == prog.kind = "nogo"
Over == ~Alone /\ ~Left
Done == ((Alone /\ (Finished \/ Neutered)) \/ Over) /\ UNCHANGED vars
Next == Fly \/ NextArm \/ Done
Spec == Init /\ [][Next]_vars
FairSpec == Spec /\ WF_vars(Fly \/ NextArm)

---------------------------------------------------------------------------
\* the discriminators, and the walk whose kick was neutered
Deliberate == {"disc_o8", "disc_erd", "nogo"}

\* What a program's captures decode to is what it was built to compute, and
\* the grade of them is one that goes red, whatever the engines were doing
\* while the host went on; a discriminator never grades green, and a walk
\* whose kick was neutered never ends.
CapturesAreProduct == (Alone /\ Finished) => (Smoke(caps) <=> prog.kind \notin Deliberate)

\* A campaign passes exactly on a tile without a fault.
VerdictTellsFault == Over => (Verdict(camp.name, book, ArmsOf[camp.name]) <=> camp.fault = "none")

\* No mailbox stream is ever pushed into while it is full, save by the probe
\* that does it on purpose.
NothingDropped == tile.drop => "probe" \in DOMAIN prog

\* Every program a builder emits runs to its end: no operation waits for
\* something that only a later operation would bring.
ProgramsEnd == <>((Alone /\ (Finished \/ Neutered)) \/ Over)
=============================================================================
