--------------------------- MODULE LayerPrograms ---------------------------
(* The register programs of a layer's other operations: the residual add in   *)
(* windows, SwiGLU in groups of staged rows, the second norm (one frame, or   *)
(* chunk by chunk under an armed sum), the rotary embedding, and the probes   *)
(* that expect the tile to refuse.                                            *)
EXTENDS TilePrograms

LCtl(c) == <<[o |-> "lctl", c |-> c]>>
Ldata(v, cols) == <<[o |-> "ldata", v |-> v, n |-> cols]>>
Ljc(v) == <<[o |-> "ljc", v |-> v]>>
LuJob(unit, base, cols) == <<[o |-> "lujob", unit |-> unit, base |-> base, cols |-> cols]>>
NCtl(mode, k) == <<[o |-> "nctl", mode |-> mode, k |-> k]>>
Host0 == Route([Reset EXCEPT !.rdst = 0])

LayerPrologue == PhaseA \o LoaderPhase
DrainAndCheck == Say("idle") \o Say("lpoll") \o FinalPhase

\* the wide injection row, staged once beside the loader row
StageInjectRow == Route([Reset EXCEPT !.rdst = 1, !.asrc = 1])
                  \o StageRow(<<"inj">>, 1)
\* a serialiser frame: its beats one by one, through the loader row or the wide one
InjectFrame(v, n, wide) ==
    Unit("ljob", n)
    \o Each(n, LAMBDA j :
         (IF wide THEN Aj("emit", ActBank, Bpr, 1) \o Desc(0, 0, Bpr, 1)
          ELSE Aj("emit", 0, 1, 0) \o Desc(0, 0, 1, 1))
         \o Push("xw", <<"e", v, j>>))
\* the staged codes come out through products with the identity, block by block
IdentityReadback(bank, row) ==
    Each(Bpr, LAMBDA b : Aj("emit", bank, Bpr, row) \o Desc(0, 0, Bpr, 1)
                         \o Push("xw", <<"id", 0, b>>) \o Say("ro"))
Codes(row) == [b \in 1 .. Bpr |-> <<"mm", row, <<<<"id", 0, b>>>>>>]
\* the rows of a stage as the grader wants them: their codes, then their scales
Graded(rows, F(_)) == Each(rows, LAMBDA r : Codes(F(r))) \o [r \in 1 .. rows |-> <<"s", F(r)>>]

---------------------------------------------------------------------------
(* Residual: per window the consumer first, then the composite, then its job. *)
ResidWindows(cols) == Chunks(cols, Win)
ResidRow(cols) == [e \in 1 .. cols |->
    <<"add", <<"row", e - 1>>,
      <<"deq", <<<<"c", 0>>>>, <<<<"e", <<"o", (e - 1) \div Win + 1>>, ((e - 1) % Win) + 1>>>>>>>>]
ResidStage(cols) ==
    LET w == ResidWindows(cols)
    IN [kind |-> "resid",
        ops |-> LayerPrologue \o Ldata("row", cols) \o LCtl([NoLayer EXCEPT !.ser = 1])
                \o Route([Reset EXCEPT !.rdst = 1])
                \o Each(Len(w), LAMBDA i :
                     LuJob("resid", i - 1, w[i].nr) \o Ljc(<<"c", 0>>) \o LuJob("deq", 0, w[i].nr)
                     \o InjectFrame(<<"o", i>>, w[i].nr, FALSE) \o Say("lpoll"))
                \o Say("lrptr") \o Times(cols, Say("erd")) \o DrainAndCheck,
        want |-> ResidRow(cols)]
\* the same stage with another operand, or with every element read twice: the
\* grader must tell either from the row
ResidDiscriminator(cols, double) ==
    [kind |-> IF double THEN "disc_erd" ELSE "disc_o8",
     ops |-> LayerPrologue \o Ldata("row", cols) \o LCtl([NoLayer EXCEPT !.ser = 1])
             \o LuJob("resid", 0, cols) \o Ljc(<<"c", 0>>) \o LuJob("deq", 0, cols)
             \o Route([Reset EXCEPT !.rdst = 1])
             \o InjectFrame(<<"o", IF double THEN 1 ELSE 0>>, cols, FALSE) \o Say("lpoll")
             \o Say("lrptr") \o Times(IF double THEN 2 * cols ELSE cols, Say("erd"))
             \o DrainAndCheck,
     want |-> ResidRow(cols)]
ResidProbe == [kind |-> "probe", want |-> <<>>,
               ops |-> LayerPrologue \o LuJob("resid", DmMax, 1) \o Say("rejected")
                       \o Say("lpoll") \o Say("done")]

---------------------------------------------------------------------------
(* SwiGLU: arm the feeder, inject the row's products, then load the row; a    *)
(* group of rows is read back before the next group takes its place.          *)
SwiRow(r) == [k \in 1 .. Bpr |-> <<"swi", <<<<"g", 0>>, <<"u", 0>>>>,
                                   <<<<<<"e", <<"g", r, k>>, 1>>>>, <<<<"e", <<"u", r, k>>, 1>>>>>>>>]
FeederRow(r, at) ==
    Unit("fjob", 1)
    \o Each(Bpr, LAMBDA k : Ljc(<<"g", 0>>) \o Ljc(<<"u", 0>>) \o LuJob("swiglu", 0, 1)
                            \o InjectFrame(<<"g", r, k>>, 1, TRUE)
                            \o InjectFrame(<<"u", r, k>>, 1, TRUE))
    \o Aj("load", ActBank, Bpr, at) \o Say("fs")
RowGroup == StageRows - 2
SwigluStage(rows) ==
    LET groups == Chunks(rows, RowGroup)
    IN [kind |-> "rows",
        ops |-> LayerPrologue \o StageInjectRow \o LCtl([NoLayer EXCEPT !.ser = 2, !.fext = 2])
                \o Each(Len(groups), LAMBDA g :
                     Route([Reset EXCEPT !.rdst = 1])
                     \o Each(groups[g].nr, LAMBDA i : FeederRow(groups[g].r0 + i, 1 + i))
                     \o Say("lpoll") \o Host0
                     \o Each(groups[g].nr, LAMBDA i : IdentityReadback(ActBank, 1 + i)))
                \o DrainAndCheck,
        want |-> Graded(rows, SwiRow)]

\* one job by itself, the error sticky still clear after it
SwigluProbe ==
    [kind |-> "probe", want |-> <<>>,
     ops |-> LayerPrologue \o StageInjectRow \o Route([Reset EXCEPT !.rdst = 1])
             \o LCtl([NoLayer EXCEPT !.ser = 2, !.fext = 2]) \o Unit("fjob", 1)
             \o Ljc(<<"g", 0>>) \o Ljc(<<"u", 0>>) \o LuJob("swiglu", 0, 1)
             \o InjectFrame(<<"g", 1, 1>>, 1, TRUE) \o InjectFrame(<<"u", 1, 1>>, 1, TRUE)
             \o Say("lpoll") \o Say("clear") \o Say("done")]

---------------------------------------------------------------------------
(* The second norm.  A scale is popped per row of gamma: the feeder holds     *)
(* every later row back while the capture FIFO is full.                       *)
NormRow(r) == Row(<<"x", r>>)
Gamma(r) == <<"gamma", r>>
NormedRow(r) == [j \in 1 .. Bpr |-> <<"n", NormRow(r)[j], Gamma(r)>>]
Readbacks(rows) == Host0 \o Each(rows, LAMBDA r : IdentityReadback(ActBank, r - 1))
LoadRows(rows) ==
    Host0 \o <<[o |-> "aj", j |-> [op |-> "load", bank |-> ActBank, pat |-> 0, rows |-> rows,
                                   nb |-> Bpr, sel |-> 0, k |-> 0]]>> \o Unit("fjob", rows)
Norm2Stage(rows) ==
    [kind |-> "rows",
     ops |-> LayerPrologue \o LoadRows(rows) \o Push("xa", [r \in 1 .. rows |-> NormRow(r)])
             \o Each(rows, LAMBDA r : Push("xg", Gamma(r)) \o Say("fs"))
             \o Readbacks(rows) \o DrainAndCheck,
     want |-> Graded(rows, NormedRow)]

SumOf(rows) == [r \in 1 .. rows |-> <<NormRow(r)>>]
ArmedPass(rows) ==
    LoadRows(rows)
    \o Each(rows, LAMBDA r : Push("xa", <<NormRow(r)>>) \o Push("xg", Gamma(r)) \o Say("fs"))
    \o Readbacks(rows) \o NCtl("local", 0) \o DrainAndCheck
ArmedCodes(rows) ==
    Graded(rows, LAMBDA r : [j \in 1 .. Bpr |-> <<"n", SumOf(rows), NormRow(r)[j], Gamma(r)>>])
\* the chunk sums come out one by one, the host adds them and arms the total
Norm2Chunked(rows) ==
    [kind |-> "norm2c",
     ops |-> LayerPrologue \o NCtl("sum", 0)
             \o Each(rows, LAMBDA c : Push("xa", <<NormRow(c)>>)
                                      \o <<[o |-> "npoll", n |-> c]>> \o Say("ns2c"))
             \o NCtl("local", 0) \o <<[o |-> "nsum2", v |-> SumOf(rows)]>> \o NCtl("ext", rows)
             \o ArmedPass(rows),
     want |-> [c \in 1 .. rows |-> <<"sum", SumOf(c)>>] \o ArmedCodes(rows)]
\* the total came from elsewhere: from the tile itself it is moved, never added to
Norm2Ext(rows) ==
    [kind |-> "rows",
     ops |-> LayerPrologue \o <<[o |-> "nsum2", v |-> SumOf(rows)]>> \o NCtl("ext", rows)
             \o ArmedPass(rows),
     want |-> ArmedCodes(rows)]
\* a row against itself, on the chain: the last beat is the row's own sum
Sum2Chain(rows, per) == Chain(rows, per)
Norm2Probe == [kind |-> "probe", want |-> <<>>,
               ops |-> LayerPrologue \o NCtl("ext", 1) \o Say("rejected") \o Say("unarmed")
                       \o Say("done")]

---------------------------------------------------------------------------
(* Rotary embedding: the rotated row is observed through the feeder.          *)
RopeStage ==
    [kind |-> "rows",
     ops |-> LayerPrologue \o Route([Reset EXCEPT !.rdst = 1])
             \o LCtl([NoLayer EXCEPT !.rope = TRUE, !.fext = 3])
             \o Unit("fjob", 1) \o InjectJobs(<<"q">>, 0) \o Aj("load", ActBank, Bpr, 0) \o Say("fs")
             \o Say("lpoll") \o Host0 \o IdentityReadback(ActBank, 0) \o DrainAndCheck,
     want |-> Graded(1, LAMBDA r : [j \in 1 .. Bpr |-> <<"rot", Row(<<"q">>)[j]>>])]

\* the stages of a layer and the deliberate failures; SwiGLU stages rows past
\* row 0, which takes an image with base-row loads
LayerStages(img) ==
    {SwigluStage(r) : r \in {r \in {1, StageRows - 1} : img = "base_row"}}
    \cup {SwigluProbe : r \in {r \in {1} : img = "base_row"}}
    \cup {ResidStage(c) : c \in 1 .. DmMax} \cup {ResidDiscriminator(Win, d) : d \in BOOLEAN}
    \cup {Norm2Stage(r) : r \in {1, StageRows}} \cup {Norm2Chunked(2), Norm2Ext(2)}
    \cup {RopeStage, ResidProbe, Norm2Probe}
=============================================================================
