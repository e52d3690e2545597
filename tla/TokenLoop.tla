------------------------------ MODULE TokenLoop ------------------------------
(***************************************************************************)
(* token_loop.py: a greedy decode in which every layer of every sampled    *)
(* token is also walked on the tile.  Golden decodes once alone (pass 1),  *)
(* then once beside an engine (pass 2): host-golden walks nothing,         *)
(* sim-walked flies each layer as it comes, hw-walked queues the layers of *)
(* a step, emits their programs in a pool of processes and flies them as   *)
(* one job.  Values carried on are golden's own; the tile's are graded     *)
(* against them, and a run is refused at the first that differs.           *)
(*                                                                         *)
(* One thing may go wrong in a run: a chain or a window that walks wrongly, *)
(* a subject that cannot be staged, captures missing or left over, an      *)
(* executor that dies (or, in simulation, attests no fetch), a subject     *)
(* builder that drifted, an id, its logits, or a product count that is not *)
(* pass 1's.                                                               *)
(*                                                                         *)
(* A capture names the layer, file and word it was read for, and the step  *)
(* it belongs to: Wrong is a word of any other value.                      *)
(***************************************************************************)
EXTENDS EmitCache, SequencesExt

CONSTANTS Runs,        \* the arguments of a run
          NLayers,     \* model.n_layers
          Workers,     \* processes of the emission pool
          SimMax,      \* T_SIM_MAX
          HwMax,       \* T_HW_MAX
          SessionMax,  \* T_SESSION_MAX
          ChunksMax    \* FFN_CHUNKS_MAX

ASSUME BudgetAssumption == SimMax < HwMax /\ HwMax <= SessionMax

\* parse_ids refuses a prompt without an id.
ASSUME RunsAssumption ==
  /\ NLayers \in Nat
  /\ \A r \in Runs : r.ids \in Nat \ {0}

Wrong == 0
FileCaps == 2          \* captures a program bakes
Main == "main"         \* the process of the loop itself
Layers == 1..NLayers

VARIABLES args, world,   \* what was asked for; what nature does in this run
          phase,         \* where run and decode_pass are
          ref,           \* the ids of pass 1
          gen, bits,     \* ids sampled in pass 2; whether their logits were pass 1's
          li,            \* layer being walked
          recs,          \* records of this token's layers
          pend,          \* entries of the step waiting for the flush
          programs,      \* programs emitted in this step
         prev,          \* the descriptors built last: desc_prev, desc_att_prev
          caps,          \* captures of the batch
          tokens,        \* records of the tokens sampled
          disk, memory,  \* template files; every process's copies
          emitted,       \* the emission ledger: what each emission was
          counts,        \* the engine's own counters
          flown,         \* windows the tile has walked, and whether rightly
          verdict, record  \* what the run says, and the file it leaves

run == <<args, world>>
decode == <<ref, gen, bits, tokens, verdict, record>>
step == <<li, recs, pend, caps, counts, prev>>
emit == <<programs, disk, memory, emitted>>
vars == <<run, phase, decode, step, emit, flown>>

Walked == args.engine \in {"sim", "hw"}
Probing == args.probes # {}
Index == Len(tokens) + 1                   \* of the token being decoded
StepOf(t) == args.ids - 1 + t - 1          \* sess.pos
Step == StepOf(Index)
\* Steps of the cache's programs are counted from 1, Wrong being 0.
Tag == Step + 1
Ungraded == args.fast > 0 /\ (Index - 1) % args.fast # 0
Hits(kind, l) == world.kind = kind /\ world.tok = Index /\ world.layer = l

\* What golden samples: the n-th id, until the end token.
GoldenIds == [n \in 1..(IF world.eos = 0 THEN args.tokens ELSE world.eos) |-> n]
Sampled == IF world.kind = "id" /\ world.tok = Index THEN Index + 10 ELSE Index

CacheMode ==
  IF args.cache = "default" THEN (IF args.engine = "hw" THEN "on" ELSE "off") ELSE args.cache
Cache == [mode |-> CacheMode, run |-> "this"]

NoDesc == << >>
NoRec == [walk |-> "none", macs |-> 0, refused |-> FALSE, skipped |-> FALSE, ffn |-> "none"]

Init ==
  /\ args \in Runs
  /\ world \in [eos : 0..args.tokens,
                kind : {"none", "chain", "ffn", "subject", "subject_ffn", "short", "extra",
                        "dead", "parity", "id", "bits", "census", "head"},
                tok : 1..args.tokens, layer : Layers]
  /\ (world.kind \in {"none", "parity", "head"}) => (world.tok = 1)
  /\ (world.kind \in {"none", "parity", "id", "bits", "head"}) => (world.layer = 1)
  /\ phase = "gate" /\ ref = << >> /\ gen = << >> /\ bits = TRUE /\ li = 1
  /\ prev = [epi |-> NoDesc, att |-> NoDesc, att_step |-> 0, ffn |-> NoDesc]
  /\ recs = << >> /\ pend = << >> /\ programs = << >> /\ caps = << >> /\ tokens = << >>
  /\ disk = << >> /\ memory = [w \in Workers \cup {Main} |-> << >>]
  /\ emitted = {} /\ flown = {} /\ verdict = "none" /\ record = << >>
  /\ counts = [walked |-> 0, ungraded |-> 0, refused |-> 0, skipped |-> 0, windows |-> 0]

Refuse ==
  /\ phase' = "refused"
  /\ UNCHANGED <<run, decode, step, emit, flown>>
-----------------------------------------------------------------------------
(* The gates of run and of the engine's start.                             *)

CheckFfnComposition == args.ffn => (Walked /\ args.mask = "b" /\ ~Probing)

FastGate == (args.fast > 0) => (Walked /\ args.ddr /\ ~args.ffn /\ ~Probing)

\* --probe-layers needs --probe-steps, and both a walked engine.
ParseProbes ==
  /\ (args.players # Layers) => Probing
  /\ Probing => Walked

ProbesInRange ==
  /\ \A s \in args.probes : s \in StepOf(1)..StepOf(args.tokens)
  /\ args.players \subseteq Layers

TBudget ==
  IF args.engine = "hw" \/ (args.engine = "sim" /\ Probing) THEN HwMax
  ELSE IF args.engine = "sim" THEN SimMax ELSE SessionMax

Admitted ==
  /\ CheckFfnComposition /\ FastGate /\ ParseProbes /\ ProbesInRange
  /\ args.tokens >= 1 /\ args.ids + args.tokens <= TBudget

\* FfnLane: the slice image holds this run's view at this engine's base; one
\* this run had to (re)build is not in the card's memory.
FfnPrepared ==
  /\ args.chunks \in 1..ChunksMax
  /\ args.image # "foreign"
  /\ (args.engine = "hw") => (args.image = "built" /\ args.ffnddr)

\* The weight image has a manifest, every layer, and the model's own weights.
ImageFits == args.weights = "own"

\* emit_cache_mode refuses an explicit mode on an engine that emits nothing,
\* but only a walked engine asks it.
SimStart ==
  /\ (args.mask = "e7") => (args.tier = "kvq8")
  /\ ImageFits /\ args.binary
  /\ args.ffn => FfnPrepared
HwStart == ImageFits /\ args.ddr /\ (args.ffn => FfnPrepared)
Started == CASE args.engine = "host" -> TRUE
             [] args.engine = "sim" -> SimStart
             [] args.engine = "hw" -> HwStart

Gate ==
  /\ phase = "gate"
  /\ IF Admitted
     THEN /\ phase' = IF args.fast = 0 THEN "reference" ELSE "start"
          /\ UNCHANGED <<run, decode, step, emit, flown>>
     ELSE Refuse

\* Pass 1: HostGoldenEngine.
Reference ==
  /\ phase = "reference"
  /\ phase' = "start"
  /\ ref' = GoldenIds
  /\ UNCHANGED <<run, step, emit, gen, bits, tokens, flown, verdict, record>>

Start ==
  /\ phase = "start"
  /\ IF Started
     THEN /\ phase' = "layers"
          /\ UNCHANGED <<run, decode, step, emit, flown>>
     ELSE Refuse
-----------------------------------------------------------------------------
(* One layer of a step.                                                    *)

NCaps == IF args.mask = "e7" THEN 2 * FileCaps ELSE FileCaps

\* The words a file leaves: right if the program was this step's and the tile
\* walked it rightly, one too few or too many if the file was cut or misbuilt.
FileWords(l, f) ==
  LET right == (f = "qkv") => (programs[l] = FullProgram(l, Tag) /\ ~Hits("chain", l))
      words == [k \in 1..FileCaps |-> <<l, f, k, IF right THEN Tag ELSE Wrong>>]
  IN  IF f = "qkv" /\ Hits("short", l) THEN Front(words)
      ELSE IF f = "qkv" /\ Hits("extra", l) THEN Append(words, Last(words)) ELSE words

\* A layer of e7 flies its attention file before its projections.
Words(l) ==
  IF args.mask = "e7" THEN FileWords(l, "att") \o FileWords(l, "qkv") ELSE FileWords(l, "qkv")

GoldenWords(l, f) == [k \in 1..FileCaps |-> <<l, f, k, Tag>>]
Expected(l) ==
  IF args.mask = "e7" THEN GoldenWords(l, "att") \o GoldenWords(l, "qkv")
  ELSE GoldenWords(l, "qkv")

ChainRight(l) == programs[l] = FullProgram(l, Tag) /\ ~Hits("chain", l)

\* walked_macs: QKV and OPROJ, and score and PV under e7.
ChainMacs == IF args.mask = "e7" THEN 2 ELSE 1

\* A chain that flew but was not graded counts for nothing.
UngradedCounted == [NoRec EXCEPT !.walk = "ungraded", !.macs = ChainMacs]
UngradedRecord == [NoRec EXCEPT !.walk = "ungraded"]
GradedRecord == [NoRec EXCEPT !.walk = "exact", !.macs = ChainMacs]
Record == IF Ungraded THEN UngradedRecord ELSE GradedRecord

\* _grade_one: every word of the slice is golden's.
GradedExact(l, slice) == Ungraded \/ slice = Expected(l)

ProbeSkips(l) == Probing /\ ~(Step \in args.probes /\ l \in args.players)

\* A subject the tile cannot take is recorded and its layer stays golden's.
SubjectRefused(l) == Hits("subject", l)

\* A builder that drifted from the flown one is caught on the committed prompt,
\* at the first layer of the first step, and nowhere else.
ParityFails(l) == args.committed /\ Hits("parity", l)

\* e7_att_descriptor: the requant pairs of the heads move with the layer, the
\* step word with the step.
AttDescriptor(l) == [bases |-> l, heads |-> l, step |-> Tag, rest |-> "mask_e7a"]
AttRepointWords == {"bases", "heads"}
FfnDescriptor(l) == [bases |-> l, scales |-> Tag % 2, rest |-> "mask_ffn"]

\* The drift fence: between two kicks only the re-point words move.
DriftsFrom(old, new, allowed) == old # NoDesc /\ ~(Moved(new, old) \subseteq allowed)
EpiDrifts(l) == DriftsFrom(prev.epi, Descriptor(l, Tag), RepointWords)
AttDrifts(l) ==
  DriftsFrom(prev.att, AttDescriptor(l),
             AttRepointWords \cup (IF prev.att_step = Step THEN {} ELSE {"step"}))
FfnDrifts(l) == DriftsFrom(prev.ffn, FfnDescriptor(l), RepointWords)

\* What _prep_one refuses outright: a drift, and an attention descriptor beyond
\* CQ-8's window.
PrepFails(l) ==
  \/ ParityFails(l) \/ EpiDrifts(l)
  \/ args.mask = "e7" /\ (Step + 1 > SimMax \/ AttDrifts(l))
Prepared(l) ==
  prev' = [prev EXCEPT !.epi = Descriptor(l, Tag),
                       !.att = IF args.mask = "e7" THEN AttDescriptor(l) ELSE @,
                       !.att_step = Step]

\* n_skipped, n_refused, n_ungraded, n_walked.
Count(name, n) == counts' = [counts EXCEPT ![name] = @ + n]
CountChains(n, windows) ==
  counts' = IF Ungraded THEN [counts EXCEPT !.ungraded = @ + n]
            ELSE [counts EXCEPT !.walked = @ + n, !.windows = @ + windows]

\* Every engine hands golden's own layer output on, which is what
\* check_engine_bits compares it with.
NextLayer(rec) ==
  /\ recs' = Append(recs, rec)
  /\ li' = li + 1

\* The FFN window of one entry: FfnLane.run_one.
FfnRefused(l) == Hits("subject_ffn", l)
FfnFails(l) == args.ffn /\ ~FfnRefused(l) /\ (FfnDrifts(l) \/ Hits("ffn", l))
FfnBuilt(l) ==
  prev' = [prev EXCEPT !.ffn = IF args.ffn /\ ~FfnRefused(l) THEN FfnDescriptor(l) ELSE @]
WithFfn(rec, l) ==
  IF ~args.ffn THEN rec
  ELSE IF FfnRefused(l) THEN [rec EXCEPT !.ffn = "refused"]
  ELSE [rec EXCEPT !.ffn = "exact", !.macs = @ + 1]
FfnFlown(l) ==
  IF args.ffn /\ ~FfnRefused(l)
  THEN {[tok |-> Index, layer |-> l, win |-> "ffn", right |-> ~Hits("ffn", l)]} ELSE {}
ChainFlown(l) == [tok |-> Index, layer |-> l, win |-> "chain", right |-> ChainRight(l)]

\* A layer with nothing to fly.
HostLayer ==
  /\ phase = "layers" /\ li <= NLayers
  /\ \/ ~Walked /\ NextLayer(NoRec) /\ UNCHANGED counts
     \/ /\ Walked /\ ProbeSkips(li)
        /\ NextLayer([NoRec EXCEPT !.skipped = TRUE]) /\ Count("skipped", 1)
     \/ /\ Walked /\ ~ProbeSkips(li) /\ SubjectRefused(li)
        /\ NextLayer([NoRec EXCEPT !.refused = TRUE]) /\ Count("refused", 1)
  /\ UNCHANGED <<run, decode, emit, phase, pend, caps, prev, flown>>

Flies == Walked /\ ~ProbeSkips(li) /\ ~SubjectRefused(li)
Batched == args.engine = "hw" /\ args.batch

\* HwWalkedEngine.layer: the entry waits, its record is filled by the flush.
QueueLayer ==
  /\ phase = "layers" /\ li <= NLayers /\ Flies /\ Batched
  /\ IF PrepFails(li) THEN Refuse
     ELSE /\ NextLayer(NoRec) /\ Prepared(li)
          /\ pend' = Append(pend, li)
          /\ UNCHANGED <<run, decode, emit, phase, caps, counts, flown>>

\* _tally_emit, and _print_emit_step's record of a step.
Tally(l, mode) == emitted' = emitted \cup {[step |-> Step, layer |-> l, mode |-> mode]}

\* SimWalkedEngine.layer, first half: subject, descriptor and program.
EmitLayer ==
  /\ phase = "layers" /\ li <= NLayers /\ Flies /\ ~Batched
  /\ \E em \in {Emission(Cache, disk, memory[Main], li, Tag)} :
       IF PrepFails(li) \/ em.refused THEN Refuse
       ELSE /\ phase' = "walk"
            /\ programs' = Put(programs, li, em.program)
            /\ disk' = em.disk
            /\ memory' = [memory EXCEPT ![Main] = em.memory]
            /\ Tally(li, em.mode) /\ Prepared(li)
            /\ UNCHANGED <<run, decode, li, recs, pend, caps, counts, flown>>

\* Second half: the flight, the grade, and the FFN window behind it.  Only the
\* pair of files of e7 has its captures counted before they are graded.
WalkLayer ==
  /\ phase = "walk"
  /\ \/ /\ \/ Hits("dead", li)
           \/ args.mask = "e7" /\ Len(Words(li)) # NCaps
           \/ ~GradedExact(li, Words(li))
           \/ FfnFails(li)
        /\ Refuse
     \/ /\ ~Hits("dead", li)
        /\ (args.mask = "e7") => (Len(Words(li)) = NCaps)
        /\ GradedExact(li, Words(li)) /\ ~FfnFails(li)
        /\ phase' = "layers"
        /\ NextLayer(WithFfn(Record, li)) /\ FfnBuilt(li)
        /\ CountChains(1, Cardinality(FfnFlown(li)))
        /\ flown' = flown \cup {ChainFlown(li)} \cup FfnFlown(li)
        /\ UNCHANGED <<run, decode, emit, pend, caps>>

\* The layer loop is over: flush_step runs before the head.
LayersDoneUnflushed ==
  /\ phase = "layers" /\ li > NLayers
  /\ phase' = "head"
  /\ UNCHANGED <<run, decode, step, emit, flown>>
LayersDone ==
  /\ phase = "layers" /\ li > NLayers
  /\ phase' = IF pend = << >> THEN "head" ELSE "flush"
  /\ UNCHANGED <<run, decode, step, emit, flown>>
-----------------------------------------------------------------------------
(* HwWalkedEngine.flush_step.                                              *)

\* pool.map: any process of the pool takes any entry.
PoolEmit(w) ==
  /\ phase = "flush"
  /\ \E k \in 1..Len(pend) :
       /\ pend[k] \notin DOMAIN programs
       /\ \E em \in {Emission(Cache, disk, memory[w], pend[k], Tag)} :
            IF em.refused THEN Refuse
            ELSE /\ programs' = Put(programs, pend[k], em.program)
                 /\ disk' = em.disk
                 /\ memory' = [memory EXCEPT ![w] = em.memory]
                 /\ Tally(pend[k], em.mode)
                 /\ UNCHANGED <<run, decode, step, phase, flown>>

BatchReadyAll == Layers \subseteq DOMAIN programs
BatchReady == ToSet(pend) \subseteq DOMAIN programs

\* One job over the files of every entry.
FlyBatch ==
  /\ phase = "flush" /\ BatchReady
  /\ IF \E l \in ToSet(pend) : Hits("dead", l) THEN Refuse
     ELSE /\ phase' = "slices"
          /\ caps' = FlattenSeq([k \in 1..Len(pend) |-> Words(pend[k])])
          /\ flown' = flown \cup {ChainFlown(l) : l \in ToSet(pend)}
          /\ UNCHANGED <<run, decode, emit, li, recs, pend, counts, prev>>

\* The batch's captures, cut by the number each program bakes.
Slice(k) == SubSeq(caps, (k - 1) * NCaps + 1, IF k * NCaps < Len(caps) THEN k * NCaps ELSE Len(caps))
SlicesFit == Len(caps) = Len(pend) * NCaps

GradeBatch ==
  /\ phase = "slices"
  /\ IF SlicesFit /\ \A k \in 1..Len(pend) : GradedExact(pend[k], Slice(k))
     THEN /\ phase' = IF args.ffn THEN "windows" ELSE "head"
          /\ recs' = [l \in DOMAIN recs |-> IF l \in ToSet(pend) THEN Record ELSE recs[l]]
          /\ pend' = IF args.ffn THEN pend ELSE << >>
          /\ CountChains(Len(pend), 0)
          /\ UNCHANGED <<run, decode, emit, li, caps, prev, flown>>
     ELSE Refuse

\* The FFN windows of the step, after its chains were graded.
Window ==
  /\ phase = "windows"
  /\ IF pend = << >> THEN phase' = "head" /\ UNCHANGED <<recs, pend, counts, prev, flown>>
     ELSE IF FfnFails(Head(pend)) THEN phase' = "refused" /\ UNCHANGED <<recs, pend, counts, prev, flown>>
     ELSE /\ recs' = [recs EXCEPT ![Head(pend)] = WithFfn(@, Head(pend))]
          /\ flown' = flown \cup FfnFlown(Head(pend))
          /\ Count("windows", Cardinality(FfnFlown(Head(pend))))
          /\ pend' = Tail(pend) /\ FfnBuilt(Head(pend))
          /\ phase' = phase
  /\ UNCHANGED <<run, decode, emit, li, caps>>
-----------------------------------------------------------------------------
(* The token and the report.                                               *)

\* Head, argmax, identity with pass 1, and the token's record.
Sample ==
  /\ phase = "head"
  /\ IF args.fast = 0 /\ (Index > Len(ref) \/ Sampled # ref[Index]) THEN Refuse
     ELSE /\ gen' = Append(gen, Sampled)
          /\ bits' = (bits /\ ~(world.kind = "bits" /\ world.tok = Index))
          /\ tokens' = Append(tokens, recs)
          /\ phase' = IF Index = world.eos \/ Index = args.tokens THEN "report" ELSE "layers"
          /\ li' = 1 /\ recs' = << >> /\ programs' = << >> /\ caps' = << >>
          /\ UNCHANGED <<run, ref, pend, counts, prev, disk, memory, emitted, flown, verdict, record>>

MissedProbes == {s \in args.probes : \A t \in 1..Len(tokens) : StepOf(t) # s}

AllRecs == {<<t, l>> : t \in 1..Len(tokens), l \in Layers}
RecAt(p) == tokens[p[1]][p[2]]

\* all_walk_green passes over a layer that was not walked; the FFN gate does not.
WalkGreen == \A p \in AllRecs : RecAt(p).walk \in {"none", "ungraded", "exact"}
FfnGreenOfFlown == args.ffn => \A p \in AllRecs : RecAt(p).ffn # "refused"
FfnGreen == args.ffn => \A p \in AllRecs : RecAt(p).ffn = "exact"
IdentOk == args.fast = 0 => gen = ref

\* verify_census: every counted step made the model's seven products in every
\* layer, and one head product per token.
CensusVerified ==
  /\ ~(world.kind = "census" /\ world.tok <= Len(tokens))
  /\ world.kind # "head"

\* mac_split of one token.
TokenMacs(t) == FoldSeq(LAMBDA rec, sum : rec.macs + sum, 0, tokens[t])
Split(t) ==
  [macs |-> TokenMacs(t),
   layers |-> Cardinality({l \in Layers : tokens[t][l].macs > 0}),
   refused |-> {l \in Layers : tokens[t][l].refused}]

\* finish: the engine's counters, and the emissions by step and mode.
Modes == {"full", "template", "patched"}
EmissionsOf(mode) == Cardinality({e \in emitted : e.mode = mode})
Finish ==
  [counts |-> counts,
   emission |-> IF CacheMode = "off" THEN << >> ELSE [mode \in Modes |-> EmissionsOf(mode)],
   verified |-> IF CacheMode = "verify" THEN EmissionsOf("patched") ELSE 0,
   skipped |-> IF Probing THEN counts.skipped ELSE 0]

RecsWith(kind, value) == {p \in AllRecs : RecAt(p)[kind] = value}
FfnStats ==
  [windows |-> Cardinality(AllRecs), exact |-> Cardinality(RecsWith("ffn", "exact")),
   refused |-> Cardinality(RecsWith("ffn", "refused")),
   missing |-> Cardinality(RecsWith("ffn", "none"))]

WalkedAtT == {StepOf(p[1]) + 1 : p \in AllRecs \ RecsWith("walk", "none")}
GradedTokens ==
  {t \in 1..Len(tokens) : (args.fast = 0) \/ ((t - 1) % args.fast = 0)}

\* The record a run leaves beside its verdict.
Ledger ==
  [identity |-> IF args.fast = 0 THEN IdentOk ELSE "not_checkable",
   graded |-> GradedTokens,
   chains |-> Cardinality(RecsWith("walk", "exact")),
   unclaimed |-> Cardinality(RecsWith("walk", "ungraded")),
   splits |-> [t \in 1..Len(tokens) |-> Split(t)],
   ffn |-> IF args.ffn THEN FfnStats ELSE << >>,
   walked_at |-> IF Probing THEN WalkedAtT ELSE {},
   eos |-> gen # << >> /\ Last(gen) = world.eos,
   engine |-> Finish]

Report ==
  /\ phase = "report"
  /\ IF \/ (args.fast = 0 /\ (gen # ref \/ ~bits)) \/ MissedProbes # {}
        \/ ~CensusVerified
     THEN Refuse
     ELSE /\ verdict' = IF IdentOk /\ WalkGreen /\ FfnGreen THEN "pass" ELSE "fail"
          /\ record' = Ledger
          /\ phase' = "done"
          /\ UNCHANGED <<run, step, emit, ref, gen, bits, tokens, flown>>

Ended == phase \in {"done", "refused"} /\ UNCHANGED vars

Next ==
  \/ Gate \/ Reference \/ Start \/ HostLayer \/ QueueLayer \/ EmitLayer \/ WalkLayer
  \/ LayersDone \/ (\E w \in Workers : PoolEmit(w)) \/ FlyBatch \/ GradeBatch \/ Window
  \/ Sample \/ Report \/ Ended

Spec == Init /\ [][Next]_vars /\ WF_vars(Next)
-----------------------------------------------------------------------------
\* Slots of the run the walk was asked for.
Asked(t, l) == Walked /\ (Probing => (StepOf(t) \in args.probes /\ l \in args.players))
Graded(t) == ~(args.fast > 0 /\ (t - 1) % args.fast # 0)
Flew(t, l, win) == {f \in flown : f.tok = t /\ f.layer = l /\ f.win = win}
FlewRight(t, l, win) == Flew(t, l, win) # {} /\ \A f \in Flew(t, l, win) : f.right
SubjectKept(t, l) == ~(world.kind = "subject" /\ world.tok = t /\ world.layer = l)

\* No token is sampled while a chain of its step is still to fly, or after one
\* whose grade was due came out wrong (decode_pass flushes before the head).
SampledAfterGrade ==
  [][gen' # gen => \A l \in Layers :
       (Asked(Index, l) /\ SubjectKept(Index, l)) =>
         /\ Flew(Index, l, "chain") # {}
         /\ Graded(Index) => FlewRight(Index, l, "chain")]_vars

FlewSlots(win) == {p \in AllRecs : Flew(p[1], p[2], win) # {}}
GradedSlots == {p \in AllRecs : Graded(p[1])}

\* The record of a run agrees with what the tile did: its chains and windows
\* are those that flew, the engine's counters those of the tokens' records, no
\* slot is counted twice or lost, and the walked depths are where chains flew.
LedgerTrue ==
  /\ record.chains = Cardinality(FlewSlots("chain") \cap GradedSlots)
  /\ record.unclaimed = Cardinality(FlewSlots("chain") \ GradedSlots)
  /\ record.engine.counts.walked = record.chains
  /\ record.engine.counts.ungraded = record.unclaimed
  /\ Walked => LET c == record.engine.counts
               IN  c.walked + c.ungraded + c.skipped + c.refused = Cardinality(AllRecs)
  /\ args.ffn =>
       /\ record.ffn.exact = Cardinality(FlewSlots("ffn"))
       /\ record.ffn.exact + record.ffn.refused + record.ffn.missing = record.ffn.windows
       /\ record.engine.counts.windows = record.ffn.exact
  /\ Cardinality({p \in AllRecs : p[2] \in record.splits[p[1]].refused})
       = record.engine.counts.refused
  /\ Probing => record.walked_at = {StepOf(p[1]) + 1 : p \in FlewSlots("chain")}

\* PASS says what the report prints: the ids are golden's where a reference
\* ran, every step that was to be probed was decoded, every graded chain was
\* walked rightly, and with --ffn every layer of every token had its window;
\* the walked share of a token counts exactly the windows graded right, and the
\* record of the run is true.
GateEarned ==
  /\ verdict = "pass" =>
       /\ args.fast = 0 => gen = GoldenIds
       /\ \A s \in args.probes : \E t \in 1..Len(tokens) : StepOf(t) = s
       /\ \A p \in AllRecs :
            /\ (Asked(p[1], p[2]) /\ Graded(p[1]) /\ SubjectKept(p[1], p[2]))
                 => FlewRight(p[1], p[2], "chain")
            /\ args.ffn => FlewRight(p[1], p[2], "ffn")
  /\ \A p \in AllRecs :
       RecAt(p).macs =
         (IF Graded(p[1]) /\ FlewRight(p[1], p[2], "chain") THEN ChainMacs ELSE 0)
           + (IF FlewRight(p[1], p[2], "ffn") THEN 1 ELSE 0)
  /\ phase = "done" => LedgerTrue

\* Whichever process patched it, and whatever it patched before, an emitted
\* program is word for word the one a full build of this step would be; with
\* the cache on a layer is built in full once in a run, by one process, and
\* patched ever after.
PatchedIsFull ==
  /\ \A l \in DOMAIN programs : programs[l] = FullProgram(l, Tag)
  /\ CacheMode # "off" =>
       \A l \in Layers : Cardinality({e \in emitted : e.layer = l /\ e.mode # "patched"}) <= 1

\* A run ends, with a report or a refusal.
EveryRunEnds == <>(phase \in {"done", "refused"})

=============================================================================
