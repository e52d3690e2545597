----------------------------- MODULE StepSweep -----------------------------
(***************************************************************************)
(* The projections of one decode step, block by block: the batched sweep   *)
(* proj_sweep_batched.py with its record file that outlives the process,   *)
(* and the breadth gate breadth_step.py over heads and sampled blocks.     *)
(*                                                                         *)
(* A job's file is named by tensor, block and chunk; neither the step nor  *)
(* the executor's chunking is in the name.  A block of a sweep is a block  *)
(* of one of its tensors.  A chunk's partial sum is the request it was     *)
(* built for and the chunk, or a sum that came out wrong.                  *)
(***************************************************************************)
EXTENDS Integers, Sequences, FiniteSets, SequencesExt, FiniteSetsExt, Functions

CONSTANTS
  Requests,   \* what a sweep may be asked: [step, rows, blocks], rows per descriptor
  Rows,       \* stage rows of a block's contraction
  BatchSize,  \* jobs of a batch
  Layers,     \* layers of the model
  Prompts,    \* lengths of the prompts the breadth gate is asked about
  TokensMax,  \* rows of history one tile job takes
  Heads,      \* heads of a layer
  PerProj,    \* blocks the breadth gate samples of a projection
  NBlocks,    \* blocks of each projection, in the order they are run
  SweepBlocks \* blocks a sweep may be asked for

ASSUME SweepAssumption ==
  /\ BatchSize \in Nat \ {0} /\ Rows \in Nat \ {0} /\ Heads \in Nat \ {0}
  /\ Layers \in Nat \ {0} /\ Prompts \subseteq Nat \ {0} /\ TokensMax \in Nat
  /\ PerProj \in Nat /\ NBlocks \in Seq(Nat \ {0}) /\ SweepBlocks \subseteq Nat
  /\ \A r \in Requests : r.rows \in 1 .. Rows /\ r.blocks \subseteq SweepBlocks /\ r.blocks # {}

VARIABLES
  book,   \* batches.jsonl: for every file the partial last recorded complete
  torn,   \* a process has died in the middle of a line of it
  sw,     \* the sweep in progress
  br      \* the breadth gate in progress

sweepVars == <<book, torn, sw, br>>
-----------------------------------------------------------------------------
(* Jobs and grades.                                                        *)

Chunks(rows)     == (Rows + rows - 1) \div rows
Partial(req, ji) == [step |-> req.step, rows |-> req.rows, ji |-> ji]
Missing          == [step |-> 0, rows |-> 0, ji |-> 0]
Wrong(ji)        == [step |-> 0, rows |-> 1, ji |-> ji]

Paths(req)    == {<<b, ji>> : b \in req.blocks, ji \in 0 .. Chunks(req.rows) - 1}
AllPaths      == UNION {Paths(r) : r \in Requests}
PathLess(p, q) == p[1] < q[1] \/ (p[1] = q[1] /\ p[2] < q[2])
InOrderOf(s)  == SetToSortSeq(s, PathLess)

\* Mutant of GradeBlock: chunks without a complete record are passed over.
GradeBlockPresent(req, b, got) ==
  \A ji \in 0 .. Chunks(req.rows) - 1 : got[<<b, ji>>] \in {Missing, Partial(req, ji)}

\* A block's partials, all there and unambiguous, add up to its golden sum.
GradeBlock(req, b, got) ==
  \A ji \in 0 .. Chunks(req.rows) - 1 : got[<<b, ji>>] = Partial(req, ji)

NoSweep == [pc |-> "idle", req |-> CHOOSE r \in Requests : TRUE, todo |-> << >>, got |-> << >>, tries |-> 0,
            check |-> "none", verdict |-> "none"]
NoAsk     == [n |-> 0, layer |-> 0, step |-> 0, fast |-> FALSE]
NoBreadth == [pc |-> "idle", ask |-> NoAsk, calls |-> 0, caught |-> {}, grabbed |-> << >>,
              picks |-> {}, heads |-> << >>, blocks |-> << >>, verdict |-> "none"]

SweepInit ==
  /\ book = [p \in AllPaths |-> Missing]
  /\ torn = FALSE
  /\ sw = NoSweep
  /\ br = NoBreadth
-----------------------------------------------------------------------------
(* The sweep.                                                              *)

SweepBusy == sw.pc # "idle"

\* Build every job of the request and, if asked to, run its first block
\* unbatched; with --resume, take over what the record file holds complete
\* under the same name.  A torn line of the file is the end of it.
BeginSweep(req, resume, check) ==
  /\ ~SweepBusy
  /\ LET got == [p \in Paths(req) |-> IF resume THEN book[p] ELSE Missing]
     IN  sw' = IF resume /\ torn THEN [NoSweep EXCEPT !.verdict = "died"]
               ELSE [pc |-> "batch", req |-> req, got |-> got, tries |-> 0, check |-> check, verdict |-> "none",
                     todo |-> InOrderOf({p \in Paths(req) : got[p] = Missing})]
  /\ UNCHANGED <<book, torn, br>>

Batch == {sw.todo[i] : i \in 1 .. Min({BatchSize, Len(sw.todo)})}

EndSweep(verdict) == sw' = [NoSweep EXCEPT !.verdict = verdict]

\* Of the batch's files those of done came back complete, those of spoiled
\* among them with a wrong sum.
Recorded(old, done, spoiled) ==
  [p \in DOMAIN old |-> IF p \in spoiled THEN Wrong(p[2]) ELSE IF p \in done THEN Partial(sw.req, p[2]) ELSE old[p]]

\* A call that raises is tried once more; one that observed nothing is tried
\* once more after that, and nothing catches what it then raises.
BatchFails ==
  /\ sw.pc = "batch" /\ sw.todo # << >>
  /\ \/ IF sw.tries = 0 THEN sw' = [sw EXCEPT !.tries = 1]
        ELSE EndSweep(IF sw.tries = 1 THEN "aborted" ELSE "died")
     \/ IF sw.tries < 2 THEN sw' = [sw EXCEPT !.tries = 2] ELSE EndSweep("aborted")
  /\ UNCHANGED <<book, torn, br>>

\* A batch observed something: its files are recorded and taken, the complete
\* ones, if any, and the others.
RunBatch ==
  /\ sw.pc = "batch" /\ sw.todo # << >>
  /\ \E done \in SUBSET Batch : \E spoiled \in SUBSET done :
       /\ book' = Recorded(book, done, spoiled)
       /\ sw' = [sw EXCEPT !.tries = 0, !.got = Recorded(sw.got, done, spoiled),
                           !.todo = SubSeq(sw.todo, Min({BatchSize, Len(sw.todo)}) + 1, Len(sw.todo))]
  /\ UNCHANGED <<torn, br>>

\* The process dies; the records stay, a line it was writing is torn.
SweepDies ==
  /\ SweepBusy
  /\ EndSweep("died")
  /\ torn' \in {torn, torn \/ (sw.pc = "batch" /\ sw.todo # << >>)}
  /\ UNCHANGED <<book, br>>

\* Every block graded; PASS when all are green and the block that was run
\* unbatched has the same sum.
GradeSweep ==
  /\ sw.pc = "batch" /\ sw.todo = << >>
  /\ sw' = [sw EXCEPT !.pc = "report",
              !.verdict = IF /\ \A b \in sw.req.blocks : GradeBlock(sw.req, b, sw.got)
                             /\ sw.check # "differs"
                          THEN "PASS" ELSE "FAIL"]
  /\ UNCHANGED <<book, torn, br>>

CloseSweep ==
  /\ sw.pc = "report"
  /\ EndSweep(sw.verdict)
  /\ UNCHANGED <<book, torn, br>>

SweepStep == BatchFails \/ RunBatch \/ SweepDies \/ GradeSweep \/ CloseSweep
-----------------------------------------------------------------------------
(* The breadth gate.                                                       *)

BreadthBusy == br.pc # "idle"

\* The nearest whole number, the even one of two (Python's round).
Round(num, den) ==
  LET q == num \div den  twice == 2 * (num % den)
  IN  IF twice < den \/ (twice = den /\ q % 2 = 0) THEN q ELSE q + 1

\* Evenly spaced blocks, the first and the last among them.
SampleBlocks(nb, k) ==
  IF k >= nb THEN 0 .. nb - 1
  ELSE IF k <= 1 THEN {0}
  ELSE {Round(i * (nb - 1), k - 1) : i \in 0 .. k - 1}

\* The blocks to run, of every projection.
BlockPicks(full) ==
  UNION {{t} \X SampleBlocks(NBlocks[t], IF full THEN NBlocks[t] ELSE PerProj) : t \in DOMAIN NBlocks}

\* The gate is asked for a layer and a step of a prompt; a prompt longer than
\* the tile takes, a layer or a step out of range are refused.
BeginBreadth(n, layer, step, fast) ==
  /\ ~BreadthBusy
  /\ br' = IF n <= TokensMax /\ layer < Layers /\ step < n
           THEN [NoBreadth EXCEPT !.pc = "capture",
                   !.ask = [n |-> n, layer |-> layer, step |-> step, fast |-> fast]]
           ELSE [NoBreadth EXCEPT !.verdict = "refused"]
  /\ UNCHANGED <<book, torn, sw>>

\* The capture counts the layers evaluated; the prefix form evaluates no layer
\* behind the one asked for and no step behind it.
PerStep(ask)  == IF ask.fast THEN ask.layer + 1 ELSE Layers
EvalsOf(ask)  == (IF ask.fast THEN ask.step + 1 ELSE ask.n) * PerStep(ask)
StepAt(c)     == c \div PerStep(br.ask)
LayerAt(c)    == c % PerStep(br.ask)
Asked(c)      == StepAt(c) = br.ask.step /\ LayerAt(c) = br.ask.layer

\* Mutant of Collected: the layer's record is matched by the counter, which
\* has moved on when the layer has returned.
CollectedByCounter(c) == StepAt(c + 1) = br.ask.step /\ LayerAt(c + 1) = br.ask.layer

\* The record of layer evaluation c is taken: by the place it had while it ran.
Collected(c) == Asked(c)

\* One layer evaluated: each head's core call is caught if the layer is the one
\* asked for, and a head of more rows than a job takes is refused there.
CaptureLayer ==
  /\ br.pc = "capture" /\ br.calls < EvalsOf(br.ask)
  /\ LET c == br.calls
     IN  br' = IF LayerAt(c) = br.ask.layer /\ StepAt(c) + 1 > TokensMax
               THEN [NoBreadth EXCEPT !.verdict = "refused"]
               ELSE [br EXCEPT !.calls = @ + 1,
                       !.caught = @ \cup (IF Asked(c) THEN {<<StepAt(c), LayerAt(c), h>> : h \in 1 .. Heads} ELSE {}),
                       !.grabbed = IF Collected(c) THEN <<StepAt(c), LayerAt(c)>> ELSE @]
  /\ UNCHANGED <<book, torn, sw>>

\* What was caught is the step's heads, whole, or the gate refuses; then the
\* blocks are picked.
CaptureDone(full) ==
  /\ br.pc = "capture" /\ br.calls = EvalsOf(br.ask)
  /\ br' = IF br.grabbed # << >> /\ Cardinality(br.caught) = Heads
           THEN [br EXCEPT !.pc = "heads", !.picks = BlockPicks(full)]
           ELSE [NoBreadth EXCEPT !.verdict = "refused"]
  /\ UNCHANGED <<book, torn, sw>>

\* One head job: graded, or no captures.
FlyHead ==
  /\ br.pc = "heads"
  /\ \E row \in {"exact", "wrong", "empty"} : br' = [br EXCEPT !.heads = Append(@, row),
       !.pc = IF Len(br.heads) + 1 < Heads THEN "heads" ELSE "blocks"]
  /\ UNCHANGED <<book, torn, sw>>

Unflown   == br.picks \ DOMAIN br.blocks
NextBlock == CHOOSE p \in Unflown : \A q \in Unflown \ {p} : PathLess(p, q)

\* The next sampled block: graded, or refused by an assertion of its builder.
FlyBlock ==
  /\ br.pc = "blocks" /\ Unflown # {}
  /\ \E row \in {"exact", "wrong", "refused"} :
       br' = [br EXCEPT !.blocks = [p \in DOMAIN br.blocks \cup {NextBlock} |->
                                      IF p = NextBlock THEN row ELSE br.blocks[p]]]
  /\ UNCHANGED <<book, torn, sw>>

\* What a job raises and its caller does not catch ends the gate.
BreadthDies ==
  /\ BreadthBusy
  /\ br' = [NoBreadth EXCEPT !.verdict = "died"]
  /\ UNCHANGED <<book, torn, sw>>

\* Every head, and every block of those sampled, of which there are some.
BreadthPass ==
  /\ Len(br.heads) = Heads /\ \A i \in DOMAIN br.heads : br.heads[i] = "exact"
  /\ DOMAIN br.blocks # {} /\ \A p \in DOMAIN br.blocks : br.blocks[p] = "exact"

\* Besides the rows: no program expects anything of the tile's output, the
\* graders went red on every spoiled input, the golden accumulators add up to
\* the layer's own tensors, and the heads are the ones the layer consumed.
EvidenceKinds == {"audit", "discriminators", "recomposed", "provenance"}

ReportBreadth(shown) ==
  /\ br.pc = "blocks" /\ Unflown = {}
  /\ br' = [br EXCEPT !.pc = "report", !.verdict = IF BreadthPass /\ shown = EvidenceKinds THEN "PASS" ELSE "FAIL"]
  /\ UNCHANGED <<book, torn, sw>>

CloseBreadth ==
  /\ br.pc = "report"
  /\ br' = [NoBreadth EXCEPT !.verdict = br.verdict]
  /\ UNCHANGED <<book, torn, sw>>

BreadthStep ==
  \/ CaptureLayer
  \/ \E full \in BOOLEAN : CaptureDone(full)
  \/ FlyHead \/ FlyBlock
  \/ \E shown \in SUBSET EvidenceKinds : ReportBreadth(shown)
  \/ CloseBreadth
-----------------------------------------------------------------------------
\* A sweep passes only when every chunk of every block was observed complete
\* and right for this very request, in this process or in one before it,
\* whatever other requests recorded under the same names; the breadth gate only
\* when every head of the very step and layer asked for was exact, and every
\* block sampled, the first and the last of each projection among them.
PassIsWhole ==
  /\ sw.pc = "report" /\ sw.verdict = "PASS" =>
       \A p \in Paths(sw.req) : sw.got[p] = Partial(sw.req, p[2])
  /\ br.pc = "report" /\ br.verdict = "PASS" =>
       /\ br.grabbed = <<br.ask.step, br.ask.layer>>
       /\ br.caught = {<<br.ask.step, br.ask.layer, h>> : h \in 1 .. Heads}
       /\ Len(br.heads) = Heads /\ Range(br.heads) = {"exact"}
       /\ DOMAIN br.blocks = br.picks /\ Range(br.blocks) = {"exact"}
       /\ \A t \in DOMAIN NBlocks : {<<t, 0>>, <<t, IF PerProj <= 1 THEN 0 ELSE NBlocks[t] - 1>>} \subseteq br.picks
=============================================================================
