------------------------------ MODULE LayerWalk ------------------------------
(* The layer walker: from a mask of steps it sequences a decode layer on the  *)
(* tile, in a fixed order, each step with its own waits.  With FPROJ the      *)
(* weights come from card memory, fetched by the walker, and the activations  *)
(* are emitted from rows of the act bank: every family of rows has its window *)
(* above the families before it.  A mask the walker cannot finish is refused  *)
(* before anything moves.                                                     *)
EXTENDS LayerPrograms

\* a geometry: query heads, tokens, rows of d_model, rows of d_ffn
Toy == [heads |-> 1, n |-> 1, dm |-> 1, dffn |-> 2]

\* the act rows of each family, in the order they are stacked
AttnRows(m, g) == IF {"SCORE", "PV"} \cap m # {} THEN g.heads ELSE 0
FamilyRows(m, g, step) == IF step \in m THEN IF step = "DOWN" THEN g.dffn ELSE g.dm ELSE 0
QkvBase(m, g) == AttnRows(m, g)
OprojBase(m, g) == QkvBase(m, g) + FamilyRows(m, g, "QKV")
FfnBase(m, g) == OprojBase(m, g) + FamilyRows(m, g, "OPROJ")
DownBase(m, g) == FfnBase(m, g) + FamilyRows(m, g, "FFN")
TopRow(m, g) == DownBase(m, g) + FamilyRows(m, g, "DOWN")

Norms == {"NORM1", "NORM2"}
\* MUTANT: the shared ingress of staged q and fuel goes unnoticed
BadFuelMaskIngressShared(m) ==
    \/ Norms \cap m # {} /\ "FGAM" \notin m
    \/ {"QKV", "OPROJ", "FFN", "DOWN"} \cap m = {} /\ (Norms \cap m = {} \/ "FGAM" \notin m)
    \/ ("OPROJ" \in m) # ("RES1" \in m) \/ ("DOWN" \in m) # ("RES2" \in m)

\* what the fuel path cannot serve: a second ingress, a gamma nobody fetches,
\* no family at all, a projection without the residual add that consumes it
BadFuelMask(m) ==
    \/ "QSTAGE" \in m
    \/ Norms \cap m # {} /\ "FGAM" \notin m
    \/ {"QKV", "OPROJ", "FFN", "DOWN"} \cap m = {} /\ (Norms \cap m = {} \/ "FGAM" \notin m)
    \/ ("OPROJ" \in m) # ("RES1" \in m) \/ ("DOWN" \in m) # ("RES2" \in m)
BadFuelShape(m, g) ==
    \/ g.dm = 0 \/ g.dm > StageRows \/ TopRow(m, g) > StageRows
    \/ "DOWN" \in m /\ g.dffn \notin 1 .. StageRows
    \/ "FGAM" \in m /\ (TopRow(m, g) + g.heads > StageRows \/ Norms \subseteq m)
Refuses(m, g) ==
    \/ m = {}
    \/ "FFN" \in m /\ g.dffn = 0
    \/ {"QSTAGE", "QKV"} \subseteq m
    \/ "NSRC" \in m /\ "NFEED" \notin m
    \/ {"QSTAGE", "NFEED"} \subseteq m /\ "NSRC" \notin m
    \/ "FGAM" \in m /\ ("FPROJ" \notin m \/ Norms \cap m = {})
    \/ "DOWN" \in m /\ {"FPROJ", "FFN"} \cap m = {}
    \/ "FPROJ" \in m /\ (BadFuelMask(m) \/ BadFuelShape(m, g))

---------------------------------------------------------------------------
(* The steps.                                                               *)
WRoute(r) == <<[o |-> "wroute", r |-> r]>>
LSet(c) == <<[o |-> "lset", c |-> c]>>
Poll(f, v) == <<[o |-> "poll", f |-> f, v |-> v]>>
\* between windows the head walker's own route stands, as attention left it
RtHead(pv) == [Through EXCEPT !.rdst = IF pv THEN 0 ELSE 2]
RtFuel(quantised) == [Reset EXCEPT !.asrc = 1, !.rdst = IF quantised THEN 1 ELSE 0]
RtFfn == [Reset EXCEPT !.rdst = 1]
RtQstage == [Reset EXCEPT !.fsrc = 1, !.rdst = 1]

\* a record of a tensor: a row of weights per act row, job after job
FuelOf(T, jobs, rows) == Each(jobs, LAMBDA j : [r \in 1 .. rows |-> T \o <<j, r>>])
Fetch(T, jobs, rows) ==
    <<[o |-> "fetch", v |-> [i \in 1 .. jobs * rows |-> <<"xw", FuelOf(T, jobs, rows)[i]>>]]>>
\* gamma goes to the norm only in a gamma window
FetchGamma(T, m) ==
    <<[o |-> "fetch", v |-> <<<<IF "FGAM" \in m THEN "xg" ELSE "xw", T>>>>]>>

\* a projection's jobs: the descriptor goes in after the first row of its family
FuelJobs(jobs, rows, base) ==
    Each(jobs, LAMBDA j :
        Aj("emit", ActBank, Bpr, base) \o Desc(0, 0, rows * Bpr, rows)
        \o Each(rows - 1, LAMBDA r : Aj("emit", ActBank, Bpr, base + r)))
\* the results' route turns to the serialiser only once the tile has drained
Projection(T, m, jobs, rows, base, quantised) ==
    LET back == WRoute(RtHead(quantised /\ "PV" \in m))
    IN IF "FPROJ" \in m
       THEN WRoute(RtFuel(FALSE)) \o Fetch(T, jobs, rows)
            \o (IF quantised THEN back \o Say("idle") \o WRoute(RtFuel(TRUE)) \o Unit("ljob", jobs)
                ELSE <<>>)
            \o FuelJobs(jobs, rows, base) \o Say("idle") \o back
       ELSE Fetch(T, jobs, rows) \o Each(jobs, LAMBDA j : Desc(0, 0, rows * Bpr, rows))

Levels(m, ser, fext) ==
    LSet([rope |-> TRUE, ser |-> ser, fext |-> fext])
    \o (IF "NSRC" \in m THEN LSet([nsrc |-> FALSE]) ELSE <<>>)
Epilogue(comp, cols) == Ljc(comp) \o LuJob("deq", 0, cols)

\* the gamma of a norm; under FGAM its row is drained above every family
NormStep(T, m, g) ==
    FetchGamma(T, m)
    \o (IF "FGAM" \notin m THEN <<>>
        ELSE LSet([fext |-> 0]) \o (IF "NSRC" \in m THEN LSet([nsrc |-> FALSE]) ELSE <<>>)
             \o WRoute(Reset) \o Aj("load", ActBank, Bpr, TopRow(m, g)) \o Unit("fjob", g.heads)
             \o Say("idle") \o WRoute(RtHead("PV" \in m)))

\* the query through the array and the rotary unit into row 0
QStage(m) ==
    Say("idle") \o WRoute(RtQstage) \o Levels(m, 0, 3) \o Unit("fjob", 1) \o QJob(0, Bpr)
    \o Times(Bpr, Push("qs", <<"comp">>)) \o Unit("ljob", Bpr)
    \o Times(Bpr, Aj("emit", 0, 1, 0) \o Desc(0, 0, 1, 1))
    \o Aj("load", ActBank, Bpr, 0) \o Say("idle") \o LSet([fext |-> 0]) \o WRoute(Through)

NormFeed(m, g) ==
    LSet([fext |-> 4]) \o (IF "NSRC" \in m THEN LSet([nsrc |-> TRUE]) ELSE <<>>)
    \o Unit("fjob", g.heads) \o LuJob("norm", 0, g.dm * Bpr) \o Poll("nf", FALSE)

\* a chunk of the FFN: the gate frame, the up frame, and the products' own row
FfnFrame(T, m, g) == Fetch(T, Bpr, g.dm) \o Unit("ljob", Bpr) \o FuelJobs(Bpr, g.dm, FfnBase(m, g))
FfnChunk(m, g, c) ==
    Ljc(<<"g", 0>>) \o Ljc(<<"u", 0>>) \o WRoute(RtFfn) \o LuJob("swiglu", 0, Bpr)
    \o (IF "FPROJ" \in m
        THEN FfnFrame(<<"wg", c>>, m, g) \o LSet([fext |-> 2]) \o Unit("fjob", 1)
             \o FfnFrame(<<"wu", c>>, m, g)
             \o Aj("load", ActBank, Bpr, DownBase(m, g) + c - 1) \o Say("idle")
             \o LSet([fext |-> 0])
        ELSE Fetch(<<"wg", c>>, Bpr, g.dm) \o Fetch(<<"wu", c>>, Bpr, g.dm))
    \o WRoute(RtHead("PV" \in m))

---------------------------------------------------------------------------
(* The template: the steps of a mask, in the walker's order.                *)
Qkv(m, g) == Concat([t \in 1 .. 3 |->
                Projection(<<<<"wq", "wk", "wv">>[t]>>, m, Bpr * g.dm, g.dm, QkvBase(m, g), FALSE)])
\* the head walker is through when the last chunk's EMIT is taken; its weights
\* are in the array by the time the next window opens, its result may not be out
Attn(m, g) == PartitionWalked((IF "SCORE" \in m THEN ScorePhase(g.n) ELSE <<>>)
                              \o (IF "PV" \in m THEN PvPhase(g.n) ELSE <<>>))
              \o Poll("wgt", FALSE)
StoreKvStep(g) == Say("kvp") \o Unit("waddr", g.n - 1) \o Say("kvp") \o Unit("waddr", 2 * g.n - 1)

PlanOf(m, g) ==
    LET cols == g.dm * Bpr
        on(step, ops) == IF step \in m THEN ops ELSE <<>>
    IN on("NSRC", LSet([nsrc |-> FALSE]))
       \o on("NORM1", NormStep(<<"g1">>, m, g))
       \o on("QKV", Qkv(m, g))
       \o on("ROPE", Levels(m, 0, 0))
       \o on("STOREKV", StoreKvStep(g))
       \o on("QSTAGE", QStage(m))
       \o Attn(m, g)
       \o on("OPROJ", Levels(m, 1, 0))
       \o on("RES1", LuJob("resid", 0, cols))
       \o on("OPROJ", Epilogue(<<"c", 1>>, cols)
                      \o Projection(<<"wo">>, m, cols, g.dm, OprojBase(m, g), TRUE))
       \o on("NFEED", NormFeed(m, g))
       \o on("NORM2", NormStep(<<"g2">>, m, g))
       \o on("FFN", Levels(m, 2, 0) \o Each(g.dffn, LAMBDA c : FfnChunk(m, g, c)))
       \o on("DOWN", Levels(m, 1, 2))
       \o on("RES2", LuJob("resid", 0, cols))
       \o on("DOWN", Epilogue(<<"c", 2>>, cols)
                     \o Projection(<<"wd">>, m, cols, g.dffn, DownBase(m, g), TRUE))

\* the descriptor the host loads; the walker looks at it before it moves
WalkGo(m, g) == <<[o |-> "go", fproj |-> "FPROJ" \in m, refused |-> Refuses(m, g),
                   plan |-> PlanOf(m, g)]>>
=============================================================================
