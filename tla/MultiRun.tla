------------------------------ MODULE MultiRun ------------------------------
(***************************************************************************)
(* The drivers that decode one prompt several times and compare:           *)
(* prompt_offload.py (one attention head on the tile), layer_offload.py    *)
(* (one layer), layer05b.py (one layer of the D = 64 image) and            *)
(* prompt05b.py (many layers, and the vocabulary projection).  The first   *)
(* arm runs with the tile; then pure golden, in prompt05b.py under a count *)
(* of its multiply-accumulates; then golden in the composition the         *)
(* offloaded layers used; then poisoned runs; then the verdict.  Every arm *)
(* runs the same golden code through names that the contexts of the arm    *)
(* have rebound.                                                           *)
(***************************************************************************)
EXTENDS LmHead

CONSTANTS NLayers,       \* model.n_layers
          PromptLen,     \* len(ids)
          TokensMax,     \* beyond it a head is computed in chunks
          NHeads,        \* attention heads of a layer
          HeadAcc(_),    \* head accumulators of a hidden state
          Eos            \* the end token

ASSUME MultiRunAssumption == {NLayers, PromptLen, TokensMax, NHeads} \subseteq Nat \ {0}

Drivers == {"prompt_offload", "layer_offload", "layer05b", "prompt05b"}
Attrs == {"frames", "norm_builder", "layer", "gemm", "cpgemm", "attn", "head"}
Projections == 7

\* The op families of a layer; those whose values come back through the
\* narrow quantizer are reconstructed, not exact.
ExactFamilies == {"proj", "rope", "attn", "resid"}
ReconFamilies == {"norm", "swiglu"}
Families == ExactFamilies \cup ReconFamilies

VARIABLES mode,    \* "golden" (dry run), or the tile: "sim" or "hw"
          args,    \* what the command line asks for
          arm,     \* the arm running
          bound,   \* what each rebindable name resolves to
          stack,   \* contexts entered: what each rebound, and over what
          dec,     \* the decode of this arm
          head,    \* the head offloader of this arm
          census,  \* what the host arm counted
          out,     \* what each finished arm gave
          verdict

multi == <<mode, args, arm, bound, stack, dec, head, census, out, verdict>>

Steps == PromptLen + args.tokens
Tile == mode # "golden"

Driver == args.driver

Cursor0 == [step |-> 0, layer |-> 0, phase |-> "layers", hidden |-> "golden", slice |-> 0,
            pass |-> 1, heads |-> 0, ids |-> << >>, ran |-> {}, served |-> {}, bad |-> {},
            lost |-> {}, fired |-> 0]
NoCensus == [layers |-> {}, calls |-> [l \in 0 .. NLayers - 1 |-> 0], outside |-> 0]
NoOut == [ids |-> << >>, hidden |-> "none", ran |-> {}, served |-> {}, bad |-> {}, lost |-> {},
          head |-> FreshHead(0)]
ArmNames == {"on", "host", "bus", "control", "poison"}

Pure == [a \in Attrs |-> "golden"]
-----------------------------------------------------------------------------
(* What run_multi refuses before anything is rebound.                      *)

\* prompt_offload's run_ab: the fence, a layer and a head of the model.
AdmittedHead(a) ==
  /\ PromptLen + a.tokens <= TokensMax
  /\ a.layers \subseteq 0 .. NLayers - 1 /\ a.head \in 0 .. NHeads - 1

\* layer_offload's run_ab.
AdmittedLayer(a) == PromptLen + a.tokens <= TokensMax /\ a.layers \subseteq 0 .. NLayers - 1

\* layer05b's run_ab: also the model's head must be as wide as the image's,
\* and the simulator of that image built, whichever executor is asked for.
AdmittedLayer05B(a) == AdmittedLayer(a) /\ a.fits /\ (Tile => a.built)

\* parse_layers and the checks of run_multi: layers of the model, at least
\* one; a step of the run; no more head rows than the model has.
AdmittedMulti(a) ==
  /\ PromptLen + a.tokens <= TokensMax /\ a.fits
  /\ a.layers # {} /\ a.layers \subseteq 0 .. NLayers - 1
  /\ mode = "sim" => a.built
  /\ a.step < PromptLen + a.tokens
  /\ a.rows <= Vocab

Admitted(a) ==
  CASE Driver = "prompt_offload" -> AdmittedHead(a) [] Driver = "layer_offload" -> AdmittedLayer(a)
    [] Driver = "layer05b" -> AdmittedLayer05B(a) [] OTHER -> AdmittedMulti(a)

\* The steps at which the layers are armed: without --offload-step every
\* one, or, on the small image, the last prefill step.
Armed(step) ==
  IF args.step >= 0 THEN step = args.step
  ELSE Driver \in {"prompt_offload", "layer_offload"} \/ step = PromptLen - 1
Target == IF args.step < 0 THEN PromptLen - 1 ELSE args.step

HeadRows == IF args.rows < 0 THEN Vocab ELSE args.rows

\* The contexts of an arm, outermost first, and the names each rebinds.
OneHead == [owner |-> "onehead", attrs |-> {"layer", "attn"}]
Geometry == [owner |-> "at_d", attrs |-> {"frames"}]
Emission == [owner |-> "d64", attrs |-> {"frames", "norm_builder"}]
Offload == [owner |-> "offload", attrs |-> {"layer", "gemm", "attn"}]
HeadSeam == [owner |-> "lmhead", attrs |-> {"head", "cpgemm"}]
Census == [owner |-> "census", attrs |-> {"layer", "gemm", "cpgemm", "attn"}]
BusOnly == [owner |-> "busonly", attrs |-> {"layer"}]

TileContexts ==
  CASE Driver = "prompt_offload" -> <<OneHead>>
    [] Driver = "layer_offload" -> <<Offload>>
    [] Driver = "layer05b" -> <<Emission, Offload>>
    [] OTHER -> <<Emission, Offload, HeadSeam>>

Contexts(a) ==
  CASE a = "host" -> IF Driver = "prompt05b" THEN <<Census>> ELSE << >>
    [] a = "bus" -> <<BusOnly>>
    [] a = "red" -> <<Geometry>>
    [] OTHER -> TileContexts

\* What each name resolves to once the first i contexts are entered: to the
\* last of them that rebinds it.
Rebound(b, cs, i) ==
  [n \in Attrs |-> LET by == {j \in 1 .. i : n \in cs[j].attrs}
                  IN  IF by = {} THEN b[n] ELSE cs[Max(by)].owner]

\* Each context saves what it found under the names it rebinds.
Saved(b, cs) ==
  [i \in 1 .. Len(cs) |->
     [owner |-> cs[i].owner, saved |-> [n \in cs[i].attrs |-> Rebound(b, cs, i - 1)[n]]]]

\* Mutant of Leave: only the innermost context restores.
LeaveInnermost(b, s) == IF s = << >> THEN b ELSE s[Len(s)].saved @@ b

\* The contexts restore what they saved, innermost first: the outermost that
\* rebound a name restores it last.
Leave(b, s) ==
  [n \in Attrs |-> LET by == {i \in 1 .. Len(s) : n \in DOMAIN s[i].saved}
                  IN  IF by = {} THEN b[n] ELSE s[Min(by)].saved[n]]

\* Entering the contexts of an arm.
Enter(a) ==
  LET cs == Contexts(a)
  IN  /\ arm' = a
      /\ stack' = Saved(bound, cs)
      /\ bound' = Rebound(bound, cs, Len(cs))
      /\ dec' = Cursor0
      /\ head' = FreshHead(IF a = "on" THEN HeadRows ELSE 0)

\* The arm that follows, for the drivers of one layer; without a poison the
\* red arm, then the report.
AfterOne(a) ==
  CASE a = "on" -> "host"
    [] a = "host" /\ Driver # "prompt_offload" -> "bus"
    [] args.poison /\ a = (IF Driver = "prompt_offload" THEN "host" ELSE "bus") -> "poison"
    [] OTHER -> IF Driver = "layer05b" /\ args.red /\ Tile /\ a # "red" THEN "red" ELSE "report"

\* What run_multi does when an arm has been decoded.
AfterArm(a) ==
  IF Driver # "prompt05b" THEN AfterOne(a)
  ELSE CASE a = "on" -> "host" [] a = "host" -> "bus"
         [] a = "bus" -> IF args.poison THEN "control" ELSE "report"
         [] a = "control" -> "poison" [] OTHER -> "report"

\* The asserts between the arms.
Restored == bound = Pure

\* The command lines of prompt05b.py: what is offloaded and where, on a model
\* and an image that fit; and what may not fit, without the head.
ShareRequests ==
  [driver : {"prompt05b"}, layers : SUBSET (0 .. NLayers - 1), step : -1 .. PromptLen + 1,
   rows : -1 .. Vocab + 1, tokens : 1 .. 2, poison : BOOLEAN, scale : {0, 1}, keep : BOOLEAN,
   recon : {FALSE}, moves : {TRUE}, head : {0}, fits : {TRUE}, built : {TRUE}, red : {FALSE}]

FitRequests ==
  [driver : {"prompt05b"}, layers : {{0}, 0 .. NLayers - 1}, step : {1, 2},
   rows : {0}, tokens : 2 .. 3, poison : BOOLEAN, scale : {0}, keep : {FALSE},
   recon : BOOLEAN, moves : BOOLEAN, head : {0}, fits : BOOLEAN, built : BOOLEAN, red : {FALSE}]

\* Those of the others, which name one layer and know no head rows.
OneLayerRequests ==
  [driver : Drivers \ {"prompt05b"}, layers : {{l} : l \in 0 .. NLayers}, step : -1 .. PromptLen,
   rows : {0}, tokens : 1 .. 3, poison : BOOLEAN, scale : {0}, keep : {FALSE}, recon : BOOLEAN,
   moves : BOOLEAN, head : 0 .. NHeads, fits : {TRUE}, built : BOOLEAN, red : {TRUE}]

Requests == ShareRequests \cup FitRequests \cup OneLayerRequests

MultiInit ==
  /\ mode \in {"golden", "sim"}
  /\ args \in Requests
  /\ arm = "admit" /\ bound = Pure /\ stack = << >>
  /\ dec = Cursor0 /\ head = FreshHead(0) /\ census = NoCensus
  /\ out = [a \in ArmNames |-> NoOut]
  /\ verdict = "none"

Admit ==
  /\ arm = "admit"
  /\ IF Admitted(args) THEN Enter("on") /\ UNCHANGED verdict
     ELSE verdict' = "refused" /\ arm' = "end" /\ UNCHANGED <<bound, stack, dec, head>>
  /\ UNCHANGED <<mode, args, census, out>>
-----------------------------------------------------------------------------
(* The decode of an arm: po.decode through the rebound names.              *)

Decoding == arm \in ArmNames
PoisonedLayers == {Min(args.layers)}
Offloaded == IF arm \in {"control", "poison"} THEN PoisonedLayers ELSE args.layers

\* A SystemExit unwinds the contexts and ends the program.
Refuse ==
  /\ verdict' = "refused mid-run" /\ arm' = "end"
  /\ bound' = Leave(bound, stack) /\ stack' = << >>

\* The hidden state a layer leaves: the bus composition moves it, a family
\* that is reconstructed moves it again, a wrong or poisoned tile value may
\* move it further; a moved state stays moved through the cached rows.
Composed == IF args.moves THEN "moved" ELSE "bus"
HiddenAfter(composed, recon, odd) ==
  CASE odd # "no" -> odd
    [] odd = "no" /\ composed /\ recon /\ dec.hidden \in {"golden", Composed} -> "recon"
    [] odd = "no" /\ composed /\ ~recon /\ dec.hidden = "golden" -> Composed
    [] OTHER -> dec.hidden

\* What can come of a layer's programs: nothing could be staged, a wrong
\* value, a value that the model did not consume, and programs that differ
\* from their unbatched form.  A dry run has golden's own values.
LayerFaults ==
  CASE ~Tile -> {"none"} [] Tile /\ arm = "on" -> {"none", "unstaged", "wrong", "lost", "refused"}
    [] OTHER -> {"none", "wrong"}

\* MultiOffloader05B._layer, LayerOffloader._layer: armed for the layers and
\* the step asked for, otherwise golden's own call.  A framing audit, a
\* broken capture contract or a replay that does not settle ends the run.
OffloadLayer(fault) ==
  LET armed == dec.layer \in Offloaded /\ Armed(dec.step)
      served == armed /\ fault # "unstaged"
      odd == CASE served /\ arm = "poison" -> "poisoned" [] fault = "wrong" -> "wrong" [] OTHER -> "no"
      note(set, cond) == set \cup IF cond THEN {dec.layer} ELSE {}
  IN  /\ fault # "none" => armed
      /\ IF fault = "refused" THEN Refuse /\ UNCHANGED dec
         ELSE /\ dec' = [dec EXCEPT
                   !.hidden = HiddenAfter(armed, served /\ args.recon, odd),
                   !.ran = note(@, armed), !.served = note(@, served),
                   !.bad = note(@, fault = "wrong"), !.lost = note(@, fault = "lost"),
                   !.layer = @ + 1]
              /\ UNCHANGED <<arm, bound, stack, verdict>>
      /\ UNCHANGED census

\* Offloader._core and _layer: golden runs for the grade and the tile's value
\* replaces it in the one head; the composition is not touched.
OffloadHead(fault) ==
  LET armed == dec.layer \in args.layers /\ Armed(dec.step)
      odd == CASE armed /\ arm = "poison" -> "poisoned" [] fault = "wrong" -> "wrong" [] OTHER -> "no"
      note(set, cond) == set \cup IF cond THEN {dec.layer} ELSE {}
  IN  /\ fault # "none" => armed
      /\ fault # "unstaged"
      /\ IF fault = "refused" THEN Refuse /\ UNCHANGED dec
         ELSE /\ dec' = [dec EXCEPT
                   !.hidden = HiddenAfter(FALSE, FALSE, odd), !.ran = note(@, armed),
                   !.served = note(@, armed), !.bad = note(@, fault = "wrong"),
                   !.lost = note(@, fault = "lost"), !.layer = @ + 1]
              /\ UNCHANGED <<arm, bound, stack, verdict>>
      /\ UNCHANGED census

\* MacCensus._layer and _gemm: outermost calls are counted, at the step and
\* layer the position counter gives; the attention's own are not projections.
CensusLayer ==
  /\ census' = [census EXCEPT
       !.layers = @ \cup IF dec.step = Target THEN {dec.layer} ELSE {},
       !.calls[dec.layer] = @ + IF dec.step = Target THEN Projections ELSE 0]
  /\ dec' = [dec EXCEPT !.layer = @ + 1]
  /\ UNCHANGED <<arm, bound, stack, verdict>>

\* BusOnlyMulti._layer and BusOnly._layer.
BusLayer ==
  LET fires == dec.layer \in args.layers /\ Armed(dec.step)
  IN  /\ dec' = [dec EXCEPT !.hidden = HiddenAfter(fires, FALSE, "no"),
                            !.fired = @ + IF fires THEN 1 ELSE 0, !.layer = @ + 1]
      /\ UNCHANGED <<census, arm, bound, stack, verdict>>

Layer ==
  /\ Decoding /\ dec.phase = "layers" /\ dec.layer < NLayers
  /\ CASE bound.layer = "offload" -> \E fault \in LayerFaults : OffloadLayer(fault)
       [] bound.layer = "onehead" -> \E fault \in LayerFaults : OffloadHead(fault)
       [] bound.layer = "census" -> CensusLayer
       [] bound.layer = "busonly" -> BusLayer
       [] OTHER -> dec' = [dec EXCEPT !.layer = @ + 1]
                   /\ UNCHANGED <<census, arm, bound, stack, verdict>>
  /\ UNCHANGED <<mode, args, head, out>>

\* A prefill step is followed by the next; the last one, and every generated
\* token's, by the head.
StepDone ==
  LET prefill == dec.step < PromptLen - 1
  IN  /\ Decoding /\ dec.phase = "layers" /\ dec.layer = NLayers
      /\ dec' = IF prefill THEN [dec EXCEPT !.step = @ + 1, !.layer = 0]
                ELSE [dec EXCEPT !.phase = "head", !.slice = 0, !.pass = 1]
      /\ head' = IF ~prefill /\ bound.head = "lmhead" /\ head.armed
                 THEN BeginPass([head EXCEPT !.armed = FALSE], 1, -1)
                 ELSE [head EXCEPT !.serve = FALSE]
      /\ UNCHANGED <<mode, args, arm, bound, stack, census, out, verdict>>

\* One slice of the head through cp.gemm_i8_ksplit.
HeadGemm ==
  /\ Decoding /\ dec.phase = "head" /\ dec.slice < Vocab
  /\ \E wrong \in {{}} \cup (IF Tile /\ head.serve /\ head.pass = 2
                              THEN {{<<dec.slice, 1>>}} ELSE {}) :
       head' = IF bound.cpgemm = "lmhead"
               THEN GemmCall(head, mode, HeadAcc(dec.hidden), dec.slice, wrong, args.scale, args.keep)
               ELSE head
  /\ census' = IF bound.cpgemm = "census"
               THEN [census EXCEPT !.outside = @ + Height(dec.slice)] ELSE census
  /\ IF head'.refused THEN Refuse /\ UNCHANGED dec
     ELSE dec' = [dec EXCEPT !.slice = @ + Height(@)] /\ UNCHANGED <<arm, bound, stack, verdict>>
  /\ UNCHANGED <<mode, args, out>>

\* _head: golden, then the tile, then, if asked for and something was
\* served, the poisoned pass; the model gets the tile's logits.
NextPass ==
  /\ Decoding /\ dec.phase = "head" /\ dec.slice >= Vocab
  /\ head.pass \in 1 .. (IF args.poison /\ head.servedRows > 0 THEN 2 ELSE 1)
  /\ head' = BeginPass(head, head.pass + 1, IF head.pass = 2 THEN PoisonRow(head) ELSE -1)
  /\ dec' = [dec EXCEPT !.slice = 0]
  /\ UNCHANGED <<mode, args, arm, bound, stack, census, out, verdict>>

Token ==
  LET pass3 == head.pass = 2 /\ args.poison /\ head.servedRows > 0
      logits == IF head.pass > 1 THEN head.tile ELSE [v \in Rows |-> HeadAcc(dec.hidden)[v]]
      id == ArgMax(logits, Rows)
  IN  /\ Decoding /\ dec.phase = "head" /\ dec.slice >= Vocab
      /\ head.pass # 1 /\ ~pass3
      /\ head' = [head EXCEPT !.pass = 0, !.serve = FALSE, !.poisonRow = -1]
      /\ dec' = IF id = Eos \/ Len(dec.ids) + 1 = args.tokens
                THEN [dec EXCEPT !.ids = Append(@, id), !.phase = "over"]
                ELSE [dec EXCEPT !.ids = Append(@, id), !.phase = "layers",
                                 !.step = @ + 1, !.layer = 0]
      /\ out' = [out EXCEPT ![arm].head = IF head.pass > 1 THEN head ELSE @]
      /\ UNCHANGED <<mode, args, arm, bound, stack, census, verdict>>

\* MacCensus.verify_against: every layer at the step, each with its own
\* projections once, and one head.
CensusHolds ==
  /\ census.layers = 0 .. NLayers - 1
  /\ \A l \in 0 .. NLayers - 1 : census.calls[l] = Projections
  /\ census.outside = Vocab

\* The end of an arm: its contexts are left, its census checked, the next
\* arm entered.
ArmOver ==
  /\ Decoding /\ dec.phase = "over"
  /\ out' = [out EXCEPT ![arm] = [@ EXCEPT !.ids = dec.ids, !.hidden = dec.hidden,
                                          !.ran = dec.ran, !.served = dec.served, !.bad = dec.bad,
                                          !.lost = dec.lost]]
  /\ IF bound.layer = "census" /\ ~CensusHolds THEN Refuse /\ UNCHANGED <<dec, head>>
     ELSE /\ bound' = Leave(bound, stack) /\ stack' = << >>
          /\ arm' = "between" /\ dec' = [dec EXCEPT !.phase = arm]
          /\ UNCHANGED <<verdict, head>>
  /\ UNCHANGED <<mode, args, census>>

NextArm ==
  LET next == AfterArm(dec.phase)
  IN  /\ arm = "between"
      /\ IF next = "report" THEN arm' = "report" /\ UNCHANGED <<bound, stack, dec, head, verdict>>
         ELSE IF next = "host" /\ ~Restored
         THEN Refuse /\ UNCHANGED <<dec, head>>
         ELSE IF next = "red" /\ out["on"].ran = {}
         THEN arm' = "report" /\ UNCHANGED <<bound, stack, dec, head, verdict>>
         ELSE Enter(next) /\ UNCHANGED verdict
      /\ UNCHANGED <<mode, args, census, out>>

\* norm_k_red: the row the layer normalised, through the builder that was
\* replaced while the layer was flown; it must not come back exact.
RedArm ==
  /\ arm = "red"
  /\ bound' = Leave(bound, stack) /\ stack' = << >>
  /\ dec' = [dec EXCEPT !.hidden = IF bound["norm_builder"] = "golden" THEN "wrong" ELSE "golden",
                        !.phase = "red"]
  /\ arm' = "between"
  /\ UNCHANGED <<mode, args, head, census, out, verdict>>
-----------------------------------------------------------------------------
(* The report: the ledgers, what the run gave to each, the verdict and the *)
(* reasons it prints.                                                      *)

On == out["on"]
Ops == IF Driver = "prompt_offload" THEN {"attn"}
       ELSE ExactFamilies \cup IF args.recon THEN ReconFamilies ELSE {}

\* Values of one family in one layer: projections, heads, rows.
Units(op) ==
  CASE op = "proj" -> Projections [] op \in {"attn", "rope"} -> NHeads [] op = "resid" -> 2
    [] OTHER -> 1

\* MultiOffloader05B._layer: one line per layer that ran, armed, with what
\* each family of it served and could have served; and the total line.
LayerLine(l) ==
  [op \in Families |->
     [served |-> IF l \in On.served /\ op \in Ops THEN Units(op) ELSE 0, total |-> Units(op)]]
Lines == [l \in On.ran |-> LayerLine(l)]
LayerTotal(op) == MapThenSumSet(LAMBDA l : Lines[l][op].served, DOMAIN Lines)

\* _agg and the lines of the per-family ledger: from the records, which every
\* op call of an armed layer leaves, whoever computed it.
Aggregate(op) ==
  LET recs == {l \in On.ran : TRUE}
      served == {l \in recs : Lines[l][op].served > 0}
  IN  [values |-> Cardinality(served) * Units(op), total |-> Cardinality(recs) * Units(op),
       who |-> IF served = {} THEN "host" ELSE "tile",
       gradeOk |-> served # {} => On.bad = {},
       exact |-> op \in ExactFamilies /\ On.bad = {}]
ServedOps == {op \in Families : Aggregate(op).values > 0}

\* The head's part of the ledger.
HeadServed == On.head.rows > 0
HeadResult == Result(On.head, args.poison)
HeadLine == [rows |-> On.head.servedRows, total |-> Vocab,
             full |-> On.head.servedRows = Vocab, invocations |-> On.head.invocations,
             who |-> IF On.head.servedRows > 0 THEN "tile" ELSE "host"]

\* predicted_hw_wall: the committed fit, in its units, at this run's counts.
SetupCost == 5
ProgramCost == 1
PredictedHwWall ==
  IF On.head.reclaimed + Cardinality(On.head.files) = 0 THEN 0
  ELSE SetupCost * On.head.invocations
       + ProgramCost * (On.head.reclaimed + Cardinality(On.head.files))

\* flop_share: multiply-accumulates the tile did, and those of the step and
\* of the token, per unit of K.
TileShare == [tile |-> Aggregate("proj").values, head |-> On.head.servedRows,
              step |-> Cardinality(census.layers) * Projections, token |-> census.outside]

\* What the report says of the two shares: of everything, or of a sample.
ShareLabel ==
  [proj |-> IF 0 < Aggregate("proj").values /\ Aggregate("proj").values < Aggregate("proj").total
            THEN "sampled" ELSE "full",
   head |-> CASE On.head.servedRows = 0 -> "host" [] On.head.servedRows = Vocab -> "full"
              [] OTHER -> "sampled"]

\* The labelled extrapolation to every layer at this run's share.
Extrapolated ==
  IF args.layers = {} THEN 0 ELSE (TileShare.tile \div Cardinality(args.layers)) * NLayers

Fired == ServedOps # {} \/ On.head.servedRows > 0
ChecksOk == On.lost = {}
GradesOk == \A op \in Families : Aggregate(op).gradeOk

\* Every program was framed for the image before it ran, and some program ran.
GeomOk ==
  ~Tile \/ (\E a \in ArmNames : out[a].served # {}) \/ On.head.invocations > 0
HeadStage == HeadServed => HeadOk(HeadResult)

SameAsBus == On.ids = out["bus"].ids
SameAsHost == On.ids = out["host"].ids
BusSameAsHost == out["bus"].ids = out["host"].ids
BusExplains == ~SameAsHost /\ ~BusSameAsHost /\ SameAsBus

\* _margin: whether the tile and the composition together, the tile alone,
\* the composition alone moved the logits.
Margin == [dlogit |-> On.hidden # out["host"].hidden, vsBus |-> On.hidden # out["bus"].hidden,
           busVsHost |-> out["bus"].hidden # out["host"].hidden]

\* The discriminator compares the poisoned run with its control, or, in the
\* drivers of one layer, with the first arm.
PoisonMoved ==
  out["poison"].hidden # (IF Driver = "prompt05b" THEN out["control"] ELSE On).hidden
PoisonSeen == args.poison => PoisonMoved
RedExact == dec.phase = "red" /\ dec.hidden = "golden"

PassedHead == SameAsHost /\ On.served # {} /\ ChecksOk /\ On.bad = {}
PassedLayer == SameAsHost /\ Fired /\ ChecksOk /\ GradesOk
PassedLayer05B == PassedLayer /\ GeomOk /\ PoisonSeen

\* Mutant of PassedMulti: the offloaded run is compared with the bus run only.
PassedSameBus == Fired /\ SameAsBus /\ PoisonSeen

\* With a reconstructed family the token is reported, not required.
PassedMulti ==
  /\ Fired /\ ChecksOk /\ GradesOk /\ GeomOk /\ HeadStage /\ PoisonSeen
  /\ args.recon \/ SameAsBus
  /\ args.recon \/ SameAsHost \/ BusExplains

\* The lines the report prints on a failure, per driver.
Told(reason) ==
  CASE reason = "nothing served" -> ~Fired
    [] reason = "not consumed" -> ~ChecksOk
    [] reason = "differs" -> ~GradesOk
    [] reason = "framing" -> Driver \in {"layer05b", "prompt05b"} /\ ~GeomOk
    [] reason = "head" -> Driver = "prompt05b" /\ ~HeadStage
    [] reason = "vacuous" -> Driver \in {"layer05b", "prompt05b"} /\ ~PoisonSeen
    [] reason = "token" -> Driver # "prompt05b" /\ ~SameAsHost
    [] OTHER -> Driver = "prompt05b" /\ ~args.recon /\ ~SameAsBus
Reasons == {"nothing served", "not consumed", "differs", "framing", "head", "vacuous", "token",
            "tile defect"}

\* The notes that say where a changed token came from.
Blames ==
  IF SameAsHost \/ Driver = "prompt_offload" THEN {}
  ELSE IF Driver = "prompt05b"
  THEN (IF BusExplains THEN {"composition alone"} ELSE {}) \cup (IF args.recon THEN {"re-entry"} ELSE {})
  ELSE IF BusSameAsHost THEN {"tile value"} ELSE {"composition"}

\* host_ledger, in each driver: what the report says stayed on the host.
KeptOfLayer ==
  {"head"}
  \cup (IF Aggregate("norm").values = 0 THEN {"norm"} ELSE {})
  \cup (IF Aggregate("rope").values > 0 THEN {"cached rope"} ELSE {})
  \cup (IF Aggregate("proj").values < Aggregate("proj").total THEN {"proj outside"} ELSE {})

KeptOfLayer05B ==
  KeptOfLayer \cup (IF Aggregate("norm").values > 1 THEN {"sum adds"} ELSE {})

KeptMulti ==
  (KeptOfLayer \ {"head"})
  \cup (IF On.head.servedRows > 0 THEN {"head floats"} ELSE {"head"})
  \cup (IF Aggregate("swiglu").values = 0 THEN {"swiglu"} ELSE {})
  \cup (IF On.head.servedRows \in 1 .. Vocab - 1 THEN {"head rows"} ELSE {})

HostKept ==
  CASE Driver = "prompt_offload" -> {} [] Driver = "layer_offload" -> KeptOfLayer
    [] Driver = "layer05b" -> KeptOfLayer05B [] OTHER -> KeptMulti

Conclude(passed) ==
  /\ verdict' = IF passed THEN "pass" ELSE "fail"
  /\ arm' = "end"
  /\ UNCHANGED <<mode, args, bound, stack, dec, head, census, out>>

ReportHead == arm = "report" /\ Driver = "prompt_offload" /\ Conclude(PassedHead)
ReportLayer == arm = "report" /\ Driver = "layer_offload" /\ Conclude(PassedLayer)
ReportLayer05B == arm = "report" /\ Driver = "layer05b" /\ Conclude(PassedLayer05B)
ReportMulti == arm = "report" /\ Driver = "prompt05b" /\ Conclude(PassedMulti)

Report == ReportHead \/ ReportLayer \/ ReportLayer05B \/ ReportMulti

MultiNext == Admit \/ Layer \/ StepDone \/ HeadGemm \/ NextPass \/ Token \/ ArmOver \/ NextArm \/ RedArm \/ Report

MultiSpec == MultiInit /\ [][MultiNext]_multi
-----------------------------------------------------------------------------
\* When the head has been offered to the tile: the rows served are the first
\* ones, as many as were asked for, each computed on the tile once though the
\* head was run three times; the other rows are golden's; the poisoned pass
\* differs from the tile's in the one row it names, which the model does not
\* get; and of the program files one is left as evidence
\* (LmHeadOffloader._head, _serve, _run_call, _reclaim).
HeadExact ==
  \A a \in ArmNames :
    LET h == out[a].head
        flown == {v \in Rows : h.flown[v] = 1}
    IN  h.pass > 1 =>
          /\ h.servedRows = Smaller(h.rows, Vocab)
          /\ \A v \in Rows : h.flown[v] = IF v < h.servedRows THEN 1 ELSE 0
          /\ \A v \in Rows : v >= h.servedRows => h.tile[v] = h.gold[v]
          /\ h.exact <=> h.tile = h.gold
          /\ h.pass = 3 => \A v \in Rows : v # PoisonRow(h) => h.poisoned[v] = h.tile[v]
          /\ Tile /\ flown # {} /\ ~args.keep => Cardinality(h.files) = 1

\* No arm runs through a seam of another: every rebound name belongs to a
\* context that is still open, the arms that are to be pure golden, under
\* observers at most, are, and the red arm runs the builder the layer's own
\* arm replaced (the nested contexts and the asserts of the drivers).
ArmsApart ==
  /\ \A a \in Attrs : bound[a] # "golden" => \E i \in 1 .. Len(stack) : stack[i].owner = bound[a]
  /\ arm \notin ArmNames \cup {"red"} => bound = Pure
  /\ arm = "host" => dec.hidden = "golden" /\ \A a \in Attrs : bound[a] \in {"golden", "census"}
  /\ arm = "bus" => dec.hidden \in {"golden", Composed}
  /\ RedExact => FALSE

\* A PASS is printed exactly when no reason against it is.  It means that
\* something was served at the step asked for, none of it wrong or left unused,
\* and that the token is that of a host run in the same composition unless a
\* family is reconstructed; the per-layer and the per-family ledger and the
\* share agree and count nothing twice; what stayed on the host was not served;
\* the rows of the head's line are those flown; and a changed token is put down
\* to the tile only if a value of the tile was not golden's (report of the four
\* drivers).
PassMeansServed ==
  verdict \in {"pass", "fail"} =>
    /\ verdict = "pass" <=> \A r \in Reasons : ~Told(r)
    /\ verdict = "pass" =>
         /\ On.served # {} \/ On.head.servedRows > 0
         /\ On.bad = {} /\ On.lost = {} /\ On.hidden # "wrong"
         /\ Driver = "prompt05b" /\ HeadServed => On.head.tile = On.head.gold
         /\ Driver # "prompt_offload" /\ ~args.recon => ~Margin.vsBus
    /\ Told("tile defect") => On.bad # {} \/ ~On.head.exact
    /\ "tile value" \in Blames => On.hidden \in {"wrong", "recon"}
    /\ "composition alone" \in Blames => Margin.busVsHost
    /\ \A op \in Families : Aggregate(op).values = LayerTotal(op)
    /\ Driver = "prompt05b" =>
         /\ TileShare.tile <= TileShare.step /\ TileShare.head <= TileShare.token
         /\ (ShareLabel.head = "full" <=> HeadLine.full) /\ (HeadLine.full <=> TileShare.head = TileShare.token)
         /\ (HeadLine.who = "host" <=> "head" \in HostKept) /\ (ShareLabel.head = "host" <=> HeadLine.who = "host")
         /\ HeadLine.rows = Cardinality({v \in Rows : On.head.flown[v] = 1})
         /\ Extrapolated <= NLayers * Projections
         /\ Tile /\ On.head.servedRows > 0 => PredictedHwWall >= SetupCost * KChunks
    /\ HostKept \cap ServedOps = {}
=============================================================================
